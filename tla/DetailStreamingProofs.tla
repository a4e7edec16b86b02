------------------------ MODULE DetailStreamingProofs ------------------------
(***************************************************************************)
(* What holds of DetailStreaming for every scan, camera and budget: all    *)
(* its safety and action properties.  Four invariants, each resting on the *)
(* ones before: the drawn parents (ParentsFollow), the one region on its   *)
(* way (LaneInv), what frames draw and what is retired (Scene), and the    *)
(* bytes both threads count (Ledger).                                      *)
(***************************************************************************)
EXTENDS DetailStreaming, FoldLemmas

USE DEF requestVars, bytesVars, laneVars, replayVars, outsideVars, shownVars,
        sceneVars

\* The fine set and the drawn parents always change together.
ParentsFollow == coarseDrawn = Regions \ resident

\* Arrival, eviction and shedding recompute the parents from the fine set.
LEMMA ParentsStep == ParentsFollow /\ [Next]_vars => ParentsFollow'
<1> SUFFICES ASSUME ParentsFollow, [Next]_vars PROVE ParentsFollow'
  OBVIOUS
<1>1. CASE UpdateBudget
  <2>1. CASE ShedDetail
    BY <2>1 DEF ShedDetail, ParentsFollow, CoarseVisibility
  <2>2. CASE UNCHANGED <<resident, coarseDrawn>>
    BY <2>2 DEF ParentsFollow
  <2> QED  BY <1>1, <2>1, <2>2 DEF UpdateBudget
<1>2. CASE TakePublication
  <2>1. CASE coarseDrawn' = CoarseVisibility(resident')
    BY <2>1 DEF ParentsFollow, CoarseVisibility
  <2>2. CASE UNCHANGED <<resident, coarseDrawn>>
    BY <2>2 DEF ParentsFollow
  <2> QED  BY <1>2, <2>1, <2>2 DEF TakePublication
<1>3. CASE RenderOneFrame
  <2>1. CASE UNCHANGED <<resident, coarseDrawn>>
    BY <2>1 DEF ParentsFollow
  <2>2. CASE RequestVisibleDetail
    BY <2>2 DEF RequestVisibleDetail, ParentsFollow, CoarseVisibility
  <2> QED  BY <1>3, <2>1, <2>2 DEF RenderOneFrame
<1>4. CASE \/ NoPublication \/ FinishFrame \/ ResumeDetail
           \/ Replay \/ FailReplay \/ Upload
           \/ MoveCamera \/ ChangeBudget \/ SetFailure \/ UNCHANGED vars
  BY <1>4 DEF ParentsFollow, NoPublication, FinishFrame, ResumeDetail, Replay,
     TakeRequest, DeliverRegion, EndReplay, ReplayUnchanged, FailReplay, Upload,
     TakeTask, Reserve, CopyRegion, Publish, UploadUnchanged, MoveCamera,
     ChangeBudget, OutsideUnchanged, SetFailure, vars
<1> QED  BY <1>1, <1>2, <1>3, <1>4 DEF Next, Render

\* Whatever order regions arrive, are evicted or are refused in, every region
\* is drawn by its fine mesh or by its coarse parent and never by both.
THEOREM EveryRegionDrawnOnce == Spec => []DrawnOnce
<1>1. Init => ParentsFollow
  BY DEF Init, ParentsFollow
<1>2. ParentsFollow => DrawnOnce
  BY DEF ParentsFollow, DrawnOnce
<1> QED  BY <1>1, <1>2, ParentsStep, PTL DEF Spec

-----------------------------------------------------------------------------
(***************************************************************************)
(* One region at a time.  While at most one is outstanding, the place that *)
(* has it determines that all the others are empty.                        *)
(***************************************************************************)

\* What the upload thread can hold.
Uploads == [phase : {"idle", "waiting", "copying", "copied"},
            region : Regions \union {0}, ok : BOOLEAN, filled : BOOLEAN,
            bytes : Nat]

\* What it has published.
Sent == {sent \in Uploads : sent.region \in Regions}

\* The shapes of the places a region passes through.
Places ==
    /\ details \in Seq(Regions)
    /\ tasks \in Seq(Regions)
    /\ publications \in Seq(Sent)
    /\ upload \in Uploads
    /\ upload.phase # "idle" => upload.region \in Regions
    /\ requested \subseteq Regions
    /\ asked \in Regions \union {0}
    /\ replay = "asking" => asked \in Regions
    /\ current \in BOOLEAN

LaneInv == Places /\ OneOutstanding

\* The elements of a sequence that has at most one.
LEMMA Single ==
    ASSUME NEW S, NEW s \in Seq(S), Len(s) <= 1
    PROVE  \/ s = <<>> /\ ToSet(s) = {}
           \/ /\ Len(s) = 1 /\ Head(s) \in S /\ ToSet(s) = {Head(s)}
              /\ Tail(s) = <<>> /\ s[1] = Head(s)
<1>1. CASE Len(s) = 0
  <2>1. s = <<>>
    BY <1>1, EmptySeq
  <2> QED  BY <2>1 DEF ToSet
<1>2. CASE Len(s) = 1
  <2>1. s \in [1 .. 1 -> S] /\ DOMAIN s = {1}
    BY <1>2, LenProperties
  <2>2. ToSet(s) = {s[1]} /\ s[1] \in S
    BY <2>1 DEF ToSet
  <2>3. Head(s) = s[1]
    BY <1>2
  <2>4. Tail(s) \in Seq(S) /\ Len(Tail(s)) = 0
    BY <1>2, s # <<>>, HeadTailProperties
  <2>5. Tail(s) = <<>>
    BY <2>4, EmptySeq
  <2> QED  BY <1>2, <2>2, <2>3, <2>5
<1>3. Len(s) \in Nat
  BY LenProperties
<1> QED  BY <1>1, <1>2, <1>3

\* No element, no length.
LEMMA None == /\ ToSet(<<>>) = {} /\ Len(<<>>) = 0 /\ DOMAIN <<>> = {}
              /\ \A S : <<>> \in Seq(S)
  BY DEF ToSet

\* The lane is empty when the viewer starts to stream.
LEMMA LaneInit == Init => LaneInv
<1> SUFFICES ASSUME Init PROVE LaneInv
  OBVIOUS
<1>1. Places
  BY None DEF Init, Places, Uploads, Idle
<1>2. Held = {} /\ Outstanding = 0
  BY None DEF Init, Held, Outstanding, Idle
<1> QED  BY <1>1, <1>2 DEF Init, LaneInv, OneOutstanding

\* Where the one region is, everything else is empty.
LEMMA Exclusive ==
    ASSUME LaneInv, current
    PROVE  /\ details = <<>> \/ Len(details) = 1
           /\ Len(details) = 1 =>
                /\ Head(details) \in Regions /\ Tail(details) = <<>>
                /\ ToSet(details) = {Head(details)}
                /\ replay # "asking" /\ tasks = <<>> /\ upload.phase = "idle"
                /\ publications = <<>>
           /\ replay = "asking" =>
                /\ details = <<>> /\ tasks = <<>> /\ upload.phase = "idle"
                /\ publications = <<>>
           /\ tasks = <<>> \/ Len(tasks) = 1
           /\ Len(tasks) = 1 =>
                /\ Head(tasks) \in Regions /\ Tail(tasks) = <<>>
                /\ ToSet(tasks) = {Head(tasks)}
                /\ details = <<>> /\ replay # "asking" /\ upload.phase = "idle"
                /\ publications = <<>>
           /\ upload.phase # "idle" =>
                /\ details = <<>> /\ replay # "asking" /\ tasks = <<>>
                /\ publications = <<>>
           /\ publications = <<>> \/ Len(publications) = 1
           /\ Len(publications) = 1 =>
                /\ Head(publications) \in Sent /\ Tail(publications) = <<>>
                /\ publications[1] = Head(publications)
                /\ DOMAIN publications = {1}
                /\ details = <<>> /\ replay # "asking" /\ tasks = <<>>
                /\ upload.phase = "idle"
<1> DEFINE a == IF replay = "asking" THEN 1 ELSE 0
           u == IF upload.phase = "idle" THEN 0 ELSE 1
<1>1. /\ Len(details) \in Nat /\ Len(tasks) \in Nat /\ Len(publications) \in Nat
      /\ details \in Seq(Regions) /\ tasks \in Seq(Regions)
      /\ publications \in Seq(Sent)
  BY LenProperties DEF LaneInv, Places
<1>2. Len(details) + a + Len(tasks) + u + Len(publications) <= 1
  BY DEF LaneInv, OneOutstanding, Outstanding
<1>a. a = IF replay = "asking" THEN 1 ELSE 0
  OBVIOUS
<1>b. u = IF upload.phase = "idle" THEN 0 ELSE 1
  OBVIOUS
<1> HIDE DEF a, u
<1>c. a \in {0, 1} /\ u \in {0, 1}
  BY <1>a, <1>b
<1>3. /\ Len(details) <= 1 /\ Len(tasks) <= 1 /\ Len(publications) <= 1
  BY <1>1, <1>2, <1>c
<1>4. \/ details = <<>>
      \/ /\ Len(details) = 1 /\ Head(details) \in Regions
         /\ ToSet(details) = {Head(details)} /\ Tail(details) = <<>>
  BY <1>1, <1>3, Single
<1>5. \/ tasks = <<>>
      \/ /\ Len(tasks) = 1 /\ Head(tasks) \in Regions
         /\ ToSet(tasks) = {Head(tasks)} /\ Tail(tasks) = <<>>
  BY <1>1, <1>3, Single
<1>6. \/ publications = <<>>
      \/ /\ Len(publications) = 1 /\ Head(publications) \in Sent
         /\ publications[1] = Head(publications) /\ Tail(publications) = <<>>
  BY <1>1, <1>3, Single
<1>7. Len(publications) = 1 => DOMAIN publications = {1}
  BY <1>1, LenProperties
<1>8. Len(<<>>) = 0
  OBVIOUS
<1>9. Len(details) = 1 => Len(tasks) = 0 /\ Len(publications) = 0 /\ a = 0 /\ u = 0
  BY <1>1, <1>2, <1>c
<1>10. Len(tasks) = 1 => Len(details) = 0 /\ Len(publications) = 0 /\ a = 0 /\ u = 0
  BY <1>1, <1>2, <1>c
<1>11. Len(publications) = 1 => Len(details) = 0 /\ Len(tasks) = 0 /\ a = 0 /\ u = 0
  BY <1>1, <1>2, <1>c
<1>12. a = 1 \/ u = 1 => Len(details) = 0 /\ Len(tasks) = 0 /\ Len(publications) = 0
  BY <1>1, <1>2, <1>c
<1>13. a = 1 => u = 0
  BY <1>1, <1>2, <1>c
<1> QED  BY <1>a, <1>b, <1>4, <1>5, <1>6, <1>7, <1>8, <1>9, <1>10, <1>11,
            <1>12, <1>13

\* What leaves or enters the end of a sequence keeps its type.
LEMMA Ends ==
    ASSUME NEW S, NEW s \in Seq(S)
    PROVE  /\ s # <<>> => Head(s) \in S /\ Tail(s) \in Seq(S)
           /\ \A e \in S : Append(s, e) \in Seq(S)
  BY HeadTailProperties, AppendProperties

\* Every step keeps the shapes, also after the generation was cancelled.
LEMMA PlacesStep == Places /\ [Next]_vars => Places'
<1> SUFFICES ASSUME Places, [Next]_vars PROVE Places'
  OBVIOUS
<1> USE DEF Places
<1>1. CASE UpdateBudget
  <2>1. CASE ShedDetail
    BY <1>1, <2>1, None DEF UpdateBudget, ShedDetail, StillRequested
  <2>2. CASE UNCHANGED requestVars
    BY <1>1, <2>2 DEF UpdateBudget
  <2> QED  BY <1>1, <2>1, <2>2 DEF UpdateBudget
<1>2. CASE TakePublication
  BY <1>2, Ends DEF TakePublication, Answered
<1>3. CASE RenderOneFrame
  <2>1. CASE UNCHANGED requestVars
    BY <1>3, <2>1 DEF RenderOneFrame
  <2>2. CASE RequestVisibleDetail
    <3>1. details' \in Seq(Regions)
      <4>1. CASE details' = <<>>
        BY <4>1, None
      <4>2. CASE \E r \in Regions : details' = <<r>>
        BY <4>2
      <4> QED  BY <2>2, <4>1, <4>2 DEF RequestVisibleDetail, FirstOf, Visible
    <3>2. ToSet(details') \subseteq Regions
      BY <3>1, LenProperties DEF ToSet
    <3>3. requested' \subseteq Regions
      BY <2>2, <3>2 DEF RequestVisibleDetail, StillRequested
    <3> QED  BY <1>3, <3>1, <3>3 DEF RenderOneFrame
  <2> QED  BY <1>3, <2>1, <2>2 DEF RenderOneFrame
<1>4. CASE TakeRequest
  BY <1>4, Ends DEF TakeRequest, ReplayUnchanged
<1>5. CASE DeliverRegion
  BY <1>5, Ends DEF DeliverRegion, ReplayUnchanged
<1>6. CASE EndReplay \/ FailReplay
  BY <1>6 DEF EndReplay, ReplayUnchanged, FailReplay
<1>7. CASE TakeTask
  <2>1. Head(tasks) \in Regions /\ Tail(tasks) \in Seq(Regions)
    BY <1>7, Ends DEF TakeTask
  <2>2. upload' = [phase |-> "waiting", region |-> Head(tasks), ok |-> FALSE,
                   filled |-> FALSE, bytes |-> 0]
    BY <1>7 DEF TakeTask, Idle
  <2>3. upload' \in Uploads /\ upload'.region \in Regions
    BY <2>1, <2>2 DEF Uploads
  <2> QED  BY <1>7, <2>1, <2>3 DEF TakeTask, UploadUnchanged
<1>8. CASE Reserve
  <2>1. upload.region \in Regions
    BY <1>8 DEF Reserve
  <2>2. Cost[upload.region] \in Nat /\ Fallbacks[upload.region] \in Nat
    <3>1. Cost \in [Regions -> Nat \ {0}] /\ Fallbacks \in [Regions -> Nat]
      BY StreamingAssumption
    <3> QED  BY <2>1, <3>1
  <2> DEFINE used == base + pending
             kept == Cost[upload.region] <= Less(Less(target, used), mandatory)
             bytes == IF kept THEN Cost[upload.region] + Fallbacks[upload.region]
                              ELSE 0
  <2>3. bytes \in Nat /\ kept \in BOOLEAN
    BY <2>2
  <2>4. \/ upload' = [upload EXCEPT !.phase = "copied"]
        \/ upload' = [upload EXCEPT !.phase = "copying", !.filled = kept,
                                    !.bytes = bytes]
    BY <1>8 DEF Reserve
  <2> HIDE DEF bytes, kept
  <2>5. upload' \in Uploads /\ upload'.region = upload.region
    <3>1. CASE upload' = [upload EXCEPT !.phase = "copied"]
      BY <3>1 DEF Uploads
    <3>2. CASE upload' = [upload EXCEPT !.phase = "copying", !.filled = kept,
                                        !.bytes = bytes]
      BY <2>3, <3>2 DEF Uploads
    <3> QED  BY <2>4, <3>1, <3>2
  <2> QED  BY <1>8, <2>1, <2>5 DEF Reserve, UploadUnchanged
<1>9. CASE CopyRegion
  <2>1. PICK ok \in BOOLEAN :
          upload' = [upload EXCEPT !.phase = "copied", !.ok = ok,
                                   !.filled = @ /\ ok]
    BY <1>9 DEF CopyRegion
  <2>2. upload.filled \in BOOLEAN /\ upload.phase = "copying"
    BY <1>9 DEF CopyRegion, Uploads
  <2>3. upload' \in Uploads /\ upload'.region = upload.region
    BY <2>1, <2>2 DEF Uploads
  <2> QED  BY <1>9, <2>2, <2>3 DEF CopyRegion, UploadUnchanged
<1>10. CASE Publish
  <2>1. Idle \in Uploads /\ Idle.phase = "idle"
    BY DEF Uploads, Idle
  <2>2. upload \in Sent
    BY <1>10 DEF Publish, Sent
  <2>3. publications' \in Seq(Sent)
    BY <1>10, <2>2, Ends DEF Publish
  <2> QED  BY <1>10, <2>1, <2>3 DEF Publish, UploadUnchanged
<1>11. CASE SetFailure
  BY <1>11, None DEF SetFailure
<1>12. CASE NoPublication \/ FinishFrame \/ ResumeDetail
  BY <1>12 DEF NoPublication, FinishFrame, ResumeDetail
<1>13. CASE MoveCamera \/ ChangeBudget \/ UNCHANGED vars
  BY <1>13 DEF MoveCamera, ChangeBudget, OutsideUnchanged, vars
<1> QED  BY <1>1, <1>2, <1>3, <1>4, <1>5, <1>6, <1>7, <1>8, <1>9, <1>10,
            <1>11, <1>12, <1>13 DEF Next, Render, Replay, Upload

\* A generation that was cancelled does not come back.
LEMMA NeverCurrentAgain == [Next]_vars /\ current' => current
  BY DEF vars, Next, Render, UpdateBudget, TakePublication, NoPublication,
     RenderOneFrame, FinishFrame, ResumeDetail, Replay, TakeRequest,
     DeliverRegion, EndReplay, ReplayUnchanged, FailReplay, Upload, TakeTask,
     Reserve, CopyRegion, Publish, UploadUnchanged, MoveCamera, ChangeBudget,
     OutsideUnchanged, SetFailure

\* The place that has the region.
LEMMA Contents ==
    ASSUME LaneInv, current
    PROVE  /\ Len(details) = 1 => Held = {Head(details)}
           /\ replay = "asking" => Held = {asked}
           /\ Len(tasks) = 1 => Held = {Head(tasks)}
           /\ upload.phase # "idle" => Held = {upload.region}
           /\ Len(publications) = 1 => Held = {Head(publications).region}
<1>1. CASE Len(details) = 1
  BY <1>1, Exclusive, None DEF Held
<1>2. CASE replay = "asking"
  BY <1>2, Exclusive, None DEF Held
<1>3. CASE Len(tasks) = 1
  BY <1>3, Exclusive, None DEF Held
<1>4. CASE upload.phase # "idle"
  BY <1>4, Exclusive, None DEF Held
<1>5. CASE Len(publications) = 1
  <2>1. {publications[i].region : i \in DOMAIN publications}
          = {Head(publications).region}
    BY <1>5, Exclusive
  <2> QED  BY <1>5, <2>1, Exclusive, None DEF Held
<1> QED  BY <1>1, <1>2, <1>3, <1>4, <1>5, Exclusive, None

\* The region passes from one place to the next, or disappears.
LEMMA LaneStep == LaneInv /\ [Next]_vars => OneOutstanding'
<1> SUFFICES ASSUME LaneInv, [Next]_vars, current' PROVE OneOutstanding'
  BY DEF OneOutstanding
<1>0. /\ current /\ Outstanding <= 1 /\ Held \subseteq requested
      /\ "import" \notin failures => requested = Held
      /\ requested \cap resident = {}
  BY NeverCurrentAgain DEF LaneInv, OneOutstanding
<1> USE <1>0
<1>1. CASE UpdateBudget
  <2>1. UNCHANGED <<replay, asked, tasks, upload, publications>>
        /\ failures \subseteq failures'
    BY <1>1 DEF UpdateBudget, ReportExhaustion
  <2>2. CASE ShedDetail
    <3>1. details' = <<>> /\ requested' = requested \ ToSet(details)
          /\ resident' \subseteq resident
      BY <2>2 DEF ShedDetail, StillRequested
    <3>2. CASE details = <<>>
      <4>1. Held' = Held /\ Outstanding' = Outstanding /\ requested' = requested
        BY <2>1, <3>1, <3>2, None DEF Held, Outstanding
      <4> QED  BY <2>1, <3>1, <4>1 DEF OneOutstanding
    <3>3. CASE Len(details) = 1
      <4>1. Held' = {} /\ Outstanding' = 0
        BY <2>1, <3>1, <3>3, Exclusive, None DEF Held, Outstanding
      <4>2. requested' = requested \ Held
        BY <3>1, <3>3, Exclusive, Contents
      <4> QED  BY <2>1, <3>1, <4>1, <4>2 DEF OneOutstanding
    <3> QED  BY <3>2, <3>3, Exclusive
  <2>3. CASE UNCHANGED <<resident, requestVars>>
    <3>1. Held' = Held /\ Outstanding' = Outstanding
      BY <2>1, <2>3 DEF Held, Outstanding
    <3> QED  BY <2>1, <2>3, <3>1 DEF OneOutstanding
  <2> QED  BY <1>1, <2>2, <2>3 DEF UpdateBudget
<1>2. CASE TakePublication
  <2> DEFINE r == Head(publications).region
  <2>1. Len(publications) = 1 /\ publications' = <<>>
    BY <1>2, Exclusive DEF TakePublication
  <2>2. /\ requested' = requested \ {r}
        /\ resident' \subseteq resident \union {r}
        /\ failures \subseteq failures'
    BY <1>2 DEF TakePublication, Answered
  <2>3. UNCHANGED <<details, replay, asked, tasks, upload>>
    BY <1>2 DEF TakePublication
  <2>4. Held = {r}
    BY <2>1, Contents
  <2>5. Held' = {} /\ Outstanding' = 0
    BY <2>1, <2>3, Exclusive, None DEF Held, Outstanding
  <2> HIDE DEF r
  <2> QED  BY <2>2, <2>4, <2>5 DEF OneOutstanding
<1>3. CASE RenderOneFrame
  <2>1. UNCHANGED <<replay, asked, tasks, upload, publications, failures>>
    BY <1>3 DEF RenderOneFrame
  <2>2. CASE UNCHANGED <<resident, requestVars>>
    <3>1. Held' = Held /\ Outstanding' = Outstanding
      BY <2>1, <2>2 DEF Held, Outstanding
    <3> QED  BY <2>1, <2>2, <3>1 DEF OneOutstanding
  <2>3. CASE RequestVisibleDetail
    <3>1. resident' \subseteq resident
          /\ requested' = StillRequested \union ToSet(details')
      BY <2>3 DEF RequestVisibleDetail
    <3>2. CASE details' = <<>>
      <4>1. requested' = requested \ ToSet(details)
        BY <3>1, <3>2, None DEF StillRequested
      <4>2. CASE details = <<>>
        <5>1. Held' = Held /\ Outstanding' = Outstanding
              /\ requested' = requested
          BY <2>1, <3>2, <4>1, <4>2, None DEF Held, Outstanding
        <5> QED  BY <2>1, <3>1, <5>1 DEF OneOutstanding
      <4>3. CASE Len(details) = 1
        <5>1. Held' = {} /\ Outstanding' = 0
          BY <2>1, <3>2, <4>3, Exclusive, None DEF Held, Outstanding
        <5>2. requested' = requested \ Held
          BY <4>1, <4>3, Exclusive, Contents
        <5> QED  BY <2>1, <3>1, <5>1, <5>2 DEF OneOutstanding
      <4> QED  BY <4>2, <4>3, Exclusive
    <3>3. CASE \E r \in Regions \ resident :
                  details' = <<r>> /\ StillRequested = {}
      <4>1. PICK r \in Regions \ resident : details' = <<r>>
        BY <3>3
      <4>2. ToSet(details') = {r} /\ Len(details') = 1
        BY <4>1 DEF ToSet
      <4>3. Held \subseteq ToSet(details)
        BY <3>3 DEF StillRequested
      <4>4. /\ replay # "asking" /\ tasks = <<>> /\ upload.phase = "idle"
            /\ publications = <<>>
        <5>1. CASE details = <<>>
          BY <4>3, <5>1, Exclusive, Contents, None
        <5> QED  BY <5>1, Exclusive
      <4>5. Held' = {r} /\ Outstanding' = 1
        BY <2>1, <4>2, <4>4, None DEF Held, Outstanding
      <4>6. requested' = {r}
        BY <3>1, <3>3, <4>2
      <4> QED  BY <3>1, <4>5, <4>6 DEF OneOutstanding
    <3> QED  BY <2>3, <3>2, <3>3 DEF RequestVisibleDetail, FirstOf, Visible
  <2> QED  BY <1>3, <2>2, <2>3 DEF RenderOneFrame
<1>4. CASE TakeRequest
  <2>1. Len(details) = 1 /\ details' = <<>>
        /\ replay' = "asking" /\ asked' = Head(details)
    BY <1>4, Exclusive DEF TakeRequest
  <2>2. UNCHANGED <<resident, requested, tasks, upload, publications, failures>>
    BY <1>4 DEF TakeRequest, ReplayUnchanged
  <2>3. Held' = {Head(details)} /\ Outstanding' = 1
    BY <2>1, <2>2, Exclusive, None DEF Held, Outstanding
  <2>4. Held' = Held
    BY <2>1, <2>3, Contents
  <2> QED  BY <2>2, <2>3, <2>4 DEF OneOutstanding
<1>5. CASE DeliverRegion
  <2>1. replay = "asking" /\ replay' = "idle" /\ tasks' = Append(tasks, asked)
    BY <1>5 DEF DeliverRegion
  <2>2. asked \in Regions /\ tasks = <<>>
    BY <2>1, Exclusive DEF LaneInv, Places
  <2>3. Len(tasks') = 1 /\ ToSet(tasks') = {asked}
    <3>1. Append(tasks, asked) = <<asked>>
      BY <2>2
    <3> QED  BY <2>1, <3>1 DEF ToSet
  <2>4. UNCHANGED <<resident, details, requested, upload, publications, failures>>
    BY <1>5 DEF DeliverRegion, ReplayUnchanged
  <2>5. Held' = {asked} /\ Outstanding' = 1
    BY <2>1, <2>3, <2>4, Exclusive, None DEF Held, Outstanding
  <2>6. Held' = Held
    BY <2>1, <2>5, Contents
  <2> QED  BY <2>4, <2>5, <2>6 DEF OneOutstanding
<1>6. CASE EndReplay \/ FailReplay
  <2>1. UNCHANGED <<resident, details, requested, tasks, upload, publications>>
    BY <1>6 DEF EndReplay, ReplayUnchanged, FailReplay
  <2>2. /\ replay' = "ended" /\ failures \subseteq failures'
        /\ replay = "asking" => "import" \in failures'
    BY <1>6 DEF EndReplay, ReplayUnchanged, FailReplay
  <2>3. CASE replay = "asking"
    <3>1. Held' = {} /\ Outstanding' = 0
      BY <2>1, <2>2, <2>3, Exclusive, None DEF Held, Outstanding
    <3> QED  BY <2>1, <2>2, <2>3, <3>1 DEF OneOutstanding
  <2>4. CASE replay # "asking"
    <3>1. Held' = Held /\ Outstanding' = Outstanding
      BY <2>1, <2>2, <2>4 DEF Held, Outstanding
    <3> QED  BY <2>1, <2>2, <3>1 DEF OneOutstanding
  <2> QED  BY <2>3, <2>4
<1>7. CASE TakeTask
  <2>1. /\ Len(tasks) = 1 /\ tasks' = <<>> /\ upload'.phase = "waiting"
        /\ upload'.region = Head(tasks)
    BY <1>7, Exclusive DEF TakeTask, Idle
  <2>2. UNCHANGED <<resident, details, requested, replay, asked, publications,
                    failures>>
    BY <1>7 DEF TakeTask, UploadUnchanged
  <2>3. Held' = {Head(tasks)} /\ Outstanding' = 1
    BY <2>1, <2>2, Exclusive, None DEF Held, Outstanding
  <2>4. Held' = Held
    BY <2>1, <2>3, Contents
  <2> QED  BY <2>2, <2>3, <2>4 DEF OneOutstanding
<1>8. CASE Reserve \/ CopyRegion
  <2>1. upload \in Uploads
    BY DEF LaneInv, Places
  <2>2. /\ upload.phase # "idle" /\ upload'.phase # "idle"
        /\ upload'.region = upload.region
    BY <1>8, <2>1 DEF Reserve, CopyRegion, Uploads
  <2>3. UNCHANGED <<resident, details, requested, replay, asked, tasks,
                    publications, failures>>
    BY <1>8 DEF Reserve, CopyRegion, UploadUnchanged
  <2>4. Held' = Held /\ Outstanding' = Outstanding
    BY <2>2, <2>3 DEF Held, Outstanding
  <2> QED  BY <2>3, <2>4 DEF OneOutstanding
<1>9. CASE Publish
  <2>1. upload.phase = "copied" /\ upload'.phase = "idle"
        /\ publications = <<>> /\ publications' = Append(publications, upload)
    BY <1>9, Exclusive DEF Publish, Idle
  <2>2. /\ Len(publications') = 1 /\ DOMAIN publications' = {1}
        /\ publications'[1] = upload
    BY <2>1
  <2>3. {publications'[i].region : i \in DOMAIN publications'}
          = {upload.region}
    BY <2>2
  <2>4. UNCHANGED <<resident, details, requested, replay, asked, tasks,
                    failures>>
    BY <1>9 DEF Publish, UploadUnchanged
  <2>5. Held' = {upload.region} /\ Outstanding' = 1
    BY <2>1, <2>2, <2>3, <2>4, Exclusive, None DEF Held, Outstanding
  <2>6. Held' = Held
    BY <2>1, <2>5, Contents
  <2> QED  BY <2>4, <2>5, <2>6 DEF OneOutstanding
<1>10. CASE \/ NoPublication \/ FinishFrame \/ ResumeDetail
            \/ MoveCamera \/ ChangeBudget \/ UNCHANGED vars
  <2>1. UNCHANGED <<resident, details, requested, replay, asked, tasks, upload,
                    publications, failures>>
    BY <1>10 DEF NoPublication, FinishFrame, ResumeDetail, MoveCamera,
       ChangeBudget, OutsideUnchanged, vars
  <2>2. Held' = Held /\ Outstanding' = Outstanding
    BY <2>1 DEF Held, Outstanding
  <2> QED  BY <2>1, <2>2 DEF OneOutstanding
<1>11. CASE SetFailure
  BY <1>11 DEF SetFailure
<1> QED  BY <1>1, <1>2, <1>3, <1>4, <1>5, <1>6, <1>7, <1>8, <1>9, <1>10,
            <1>11 DEF Next, Render, Replay, Upload

\* However the camera moves and the budget changes, at most one region is on
\* its way to the scene, the inbox remembers it, and it is not there already.
THEOREM OneRegionAtATime == Spec => []OneOutstanding
<1>1. LaneInv /\ [Next]_vars => LaneInv'
  BY PlacesStep, LaneStep DEF LaneInv
<1>2. LaneInv => OneOutstanding
  BY DEF LaneInv
<1> QED  BY <1>1, <1>2, LaneInit, PTL DEF Spec

-----------------------------------------------------------------------------
(***************************************************************************)
(* Bytes.  The upload thread and the render thread count the same memory   *)
(* in two numbers that never disagree with what is allocated.              *)
(***************************************************************************)

\* What a fold over a sequence takes next: the greatest index left.
Greatest(U) == [s \in SUBSET U |-> Max(s)]

\* There is one in every non-empty set of indices.
LEMMA GreatestChooses ==
    ASSUME NEW S, NEW list \in Seq(S)
    PROVE  Chooses(Greatest(DOMAIN list), DOMAIN list)
<1> DEFINE n == Len(list)
<1>1. DOMAIN list = 1 .. n /\ n \in Nat
  BY LenProperties
<1> HIDE DEF n
<1>2. ASSUME NEW s \in SUBSET (1 .. n), s # {}
      PROVE  \E x \in s : \A y \in s : x >= y
  <2> DEFINE T == {n - x : x \in s}
  <2>1. T \in SUBSET Nat /\ T # {}
    <3>1. \A x \in s : x \in Int /\ n - x \in Nat
      BY <1>1
    <3> QED  BY <1>2, <3>1
  <2>2. PICK m \in T : \A k \in T : m <= k
    <3> HIDE DEF T
    <3> QED  BY <2>1, LeastNumber
  <2>3. PICK x \in s : m = n - x
    OBVIOUS
  <2>4. ASSUME NEW y \in s PROVE x >= y
    <3>1. m <= n - y
      BY <2>2
    <3> QED  BY <1>1, <2>3, <3>1
  <2> QED  BY <2>4
<1>3. ASSUME NEW s \in SUBSET (1 .. n), s # {}
      PROVE  Max(s) \in s
  BY <1>2, <1>3 DEF Max
<1> QED  BY <1>1, <1>3 DEF Chooses, Greatest

\* Records that carry a number of bytes.
Sizes(list) == [i \in DOMAIN list |-> list[i].bytes]

\* RetiredBytes adds them up.
LEMMA RetiredIsTotal ==
    ASSUME NEW S, \A e \in S : e.bytes \in Nat, NEW list \in Seq(S)
    PROVE  /\ Sizes(list) \in Seq(Nat) /\ Len(Sizes(list)) = Len(list)
           /\ RetiredBytes(list) = SeqTotal(Sizes(list))
           /\ RetiredBytes(list) \in Nat
<1> DEFINE D == DOMAIN list
           sum == CHOOSE it : it = [s \in SUBSET D |->
                    IF s = {} THEN 0
                    ELSE it[s \ {CHOOSE x \in s : \A y \in s : x >= y}]
                         + list[CHOOSE x \in s : \A y \in s : x >= y].bytes]
<1>0. D = 1 .. Len(list) /\ Len(list) \in Nat /\ \A i \in D : list[i] \in S
  BY LenProperties, ElementOfSeq
<1>1. RetiredBytes(list) = sum[D]
  BY DEF RetiredBytes, FoldLeft, MapThenFoldSet, Max
<1>2. \A i \in D : Sizes(list)[i] = list[i].bytes /\ Sizes(list)[i] \in Nat
  BY <1>0 DEF Sizes
<1>3. IsFiniteSet(D) /\ Chooses(Greatest(D), D)
  BY IndicesFinite, GreatestChooses
<1>t. /\ Sizes(list) \in Seq(Nat) /\ Len(Sizes(list)) = Len(list)
      /\ DOMAIN Sizes(list) = D
  BY <1>0, <1>2, IsASeq, LenProperties DEF Sizes
<1> HIDE DEF D
<1>4. PICK it : IsSum(it, Sizes(list), D, Greatest(D))
  BY <1>2, <1>3, SumExists
<1>5. it \in [SUBSET D -> Nat]
  BY <1>2, <1>3, <1>4, SumType
<1>6. \A s \in SUBSET D : s # {} => Greatest(D)[s] \in s
  BY <1>3 DEF Chooses
<1>7. \A s \in SUBSET D :
        it[s] = IF s = {} THEN 0
                ELSE it[s \ {Greatest(D)[s]}] + list[Greatest(D)[s]].bytes
  <2> TAKE s \in SUBSET D
  <2>1. it[s] = IF s = {} THEN 0
                ELSE Sizes(list)[Greatest(D)[s]] + it[s \ {Greatest(D)[s]}]
    BY <1>4 DEF IsSum
  <2>2. CASE s # {}
    <3>1. Greatest(D)[s] \in D /\ s \ {Greatest(D)[s]} \in SUBSET D
      BY <1>6, <2>2
    <3> QED  BY <1>2, <1>5, <2>1, <2>2, <3>1
  <2> QED  BY <2>1, <2>2
<1>8. it = [s \in SUBSET D |->
              IF s = {} THEN 0
              ELSE it[s \ {CHOOSE x \in s : \A y \in s : x >= y}]
                   + list[CHOOSE x \in s : \A y \in s : x >= y].bytes]
  <2>1. \A s \in SUBSET D : Greatest(D)[s] = CHOOSE x \in s : \A y \in s : x >= y
    BY DEF Greatest, Max
  <2> QED  BY <1>5, <1>7, <2>1
<1>9. sum = [s \in SUBSET D |->
              IF s = {} THEN 0
              ELSE sum[s \ {CHOOSE x \in s : \A y \in s : x >= y}]
                   + list[CHOOSE x \in s : \A y \in s : x >= y].bytes]
  BY <1>8
<1>m. \A s \in SUBSET D :
        sum[s] = IF s = {} THEN 0
                 ELSE sum[s \ {Greatest(D)[s]}] + list[Greatest(D)[s]].bytes
  <2> HIDE DEF sum
  <2>1. \A s \in SUBSET D : Greatest(D)[s] = CHOOSE x \in s : \A y \in s : x >= y
    BY DEF Greatest, Max
  <2>2. \A s \in SUBSET D :
          sum[s] = IF s = {} THEN 0
                   ELSE sum[s \ {CHOOSE x \in s : \A y \in s : x >= y}]
                        + list[CHOOSE x \in s : \A y \in s : x >= y].bytes
    BY <1>9
  <2> QED  BY <2>1, <2>2
<1>10. \A s \in SUBSET D : s # {} => sum[s \ {Greatest(D)[s]}] \in Nat
  <2> HIDE DEF sum
  <2> DEFINE Bad == {s \in SUBSET D : sum[s] \notin Nat}
  <2>1. SUFFICES ASSUME Bad # {} PROVE FALSE
    BY <1>6
  <2>2. PICK m \in Bad : \A n \in SUBSET m : n # m => n \notin Bad
    <3>1. Bad \in SUBSET SUBSET D
      OBVIOUS
    <3> HIDE DEF Bad
    <3> QED  BY <1>3, <2>1, <3>1, SmallestSubset
  <2>3. sum[m] = IF m = {} THEN 0
                 ELSE sum[m \ {Greatest(D)[m]}] + list[Greatest(D)[m]].bytes
    BY <1>m
  <2>4. CASE m # {}
    <3>1. Greatest(D)[m] \in m
      BY <1>6, <2>4
    <3>2. sum[m \ {Greatest(D)[m]}] \in Nat
      BY <2>2, <3>1
    <3>3. list[Greatest(D)[m]].bytes \in Nat
      BY <1>2, <3>1
    <3> QED  BY <2>3, <2>4, <3>2, <3>3
  <2> QED  BY <2>3, <2>4
<1> HIDE DEF sum
<1>11. IsSum(sum, Sizes(list), D, Greatest(D))
  <2>1. \A s \in SUBSET D :
          sum[s] = IF s = {} THEN 0
                   ELSE Sizes(list)[Greatest(D)[s]] + sum[s \ {Greatest(D)[s]}]
    <3> TAKE s \in SUBSET D
    <3>1. sum[s] = IF s = {} THEN 0
                   ELSE sum[s \ {Greatest(D)[s]}] + list[Greatest(D)[s]].bytes
      BY <1>m
    <3>2. CASE s # {}
      <4>1. Greatest(D)[s] \in D
        BY <1>6, <3>2
      <4>2. sum[s \ {Greatest(D)[s]}] \in Nat
        BY <1>10, <3>2
      <4>3. /\ list[Greatest(D)[s]].bytes = Sizes(list)[Greatest(D)[s]]
            /\ Sizes(list)[Greatest(D)[s]] \in Nat
        BY <1>2, <4>1
      <4>4. sum[s] = sum[s \ {Greatest(D)[s]}] + Sizes(list)[Greatest(D)[s]]
        BY <3>1, <3>2, <4>3
      <4>5. sum[s] = Sizes(list)[Greatest(D)[s]] + sum[s \ {Greatest(D)[s]}]
        BY <4>2, <4>3, <4>4
      <4> QED  BY <3>2, <4>5
    <3> QED  BY <3>1, <3>2
  <2>2. sum = [s \in SUBSET D |-> sum[s]]
    BY <1>9
  <2> QED  BY <2>1, <2>2 DEF IsSum
<1>12. RetiredBytes(list) = Total(Sizes(list), D)
  BY <1>1, <1>2, <1>3, <1>11, TotalIsSum
<1> QED  BY <1>12, <1>t, SeqTotalType DEF SeqTotal

\* One entry more, one less, or other fences: what the sum becomes.
LEMMA RetiredSums ==
    ASSUME NEW S, \A e \in S : e.bytes \in Nat, NEW list \in Seq(S)
    PROVE  /\ RetiredBytes(<<>>) = 0
           /\ \A e \in S : RetiredBytes(Append(list, e))
                               = RetiredBytes(list) + e.bytes
           /\ list # <<>> => RetiredBytes(list)
                               = Head(list).bytes + RetiredBytes(Tail(list))
           /\ \A other \in Seq(S) : Sizes(other) = Sizes(list) =>
                  RetiredBytes(other) = RetiredBytes(list)
<1>1. RetiredBytes(<<>>) = 0
  <2>1. Sizes(<<>>) = <<>> /\ <<>> \in Seq(S)
    BY DEF Sizes
  <2>2. RetiredBytes(<<>>) = SeqTotal(Sizes(<<>>))
    BY <2>1, RetiredIsTotal
  <2> QED  BY <2>1, <2>2, SeqTotalType
<1>2. ASSUME NEW e \in S
      PROVE  RetiredBytes(Append(list, e)) = RetiredBytes(list) + e.bytes
  <2>1. Append(list, e) \in Seq(S) /\ e.bytes \in Nat
    OBVIOUS
  <2>2. Sizes(Append(list, e)) = Append(Sizes(list), e.bytes)
    BY LenProperties, AppendProperties DEF Sizes
  <2>3. Sizes(list) \in Seq(Nat) /\ RetiredBytes(list) = SeqTotal(Sizes(list))
    BY RetiredIsTotal
  <2>4. RetiredBytes(Append(list, e)) = SeqTotal(Sizes(Append(list, e)))
    BY <2>1, RetiredIsTotal
  <2> QED  BY <2>1, <2>2, <2>3, <2>4, SeqTotalAppend
<1>3. ASSUME list # <<>>
      PROVE  RetiredBytes(list) = Head(list).bytes + RetiredBytes(Tail(list))
  <2>1. Tail(list) \in Seq(S)
    BY <1>3, HeadTailProperties
  <2>2. /\ Sizes(list) \in Seq(Nat) /\ RetiredBytes(list) = SeqTotal(Sizes(list))
        /\ Len(Sizes(list)) = Len(list)
    BY RetiredIsTotal
  <2>3. RetiredBytes(Tail(list)) = SeqTotal(Sizes(Tail(list)))
        /\ Sizes(Tail(list)) \in Seq(Nat)
    BY <2>1, RetiredIsTotal
  <2>4. Len(list) \in Nat /\ Len(list) > 0
    BY <1>3, EmptySeq, LenProperties
  <2>5. Sizes(list) # <<>>
    BY <2>2, <2>4
  <2>6. Head(Sizes(list)) = Head(list).bytes
    BY <2>2, <2>4, <2>5, LenProperties DEF Sizes
  <2>7. Tail(Sizes(list)) = Sizes(Tail(list))
    <3>1. /\ Len(Tail(Sizes(list))) = Len(list) - 1
          /\ Tail(Sizes(list)) \in Seq(Nat)
          /\ \A i \in 1 .. Len(list) - 1 : Tail(Sizes(list))[i] = Sizes(list)[i + 1]
      BY <2>2, <2>5, HeadTailProperties
    <3>2. /\ Len(Tail(list)) = Len(list) - 1
          /\ \A i \in 1 .. Len(list) - 1 : Tail(list)[i] = list[i + 1]
      BY <1>3, HeadTailProperties
    <3>3. Len(Sizes(Tail(list))) = Len(list) - 1
      BY <2>1, <3>2, RetiredIsTotal
    <3>4. \A i \in 1 .. Len(list) - 1 :
             Tail(Sizes(list))[i] = Sizes(Tail(list))[i]
      BY <2>1, <2>4, <3>1, <3>2, LenProperties DEF Sizes
    <3> QED  BY <2>3, <3>1, <3>3, <3>4, SeqEqual
  <2> QED  BY <2>2, <2>3, <2>5, <2>6, <2>7, SeqTotalTail
<1>4. ASSUME NEW other \in Seq(S), Sizes(other) = Sizes(list)
      PROVE  RetiredBytes(other) = RetiredBytes(list)
  BY <1>4, RetiredIsTotal
<1> QED  BY <1>1, <1>2, <1>3, <1>4

\* One element more at the end.
LEMMA AppendSet ==
    ASSUME NEW S, NEW s \in Seq(S), NEW e \in S
    PROVE  /\ Append(s, e) \in Seq(S)
           /\ ToSet(Append(s, e)) = ToSet(s) \union {e}
<1> DEFINE t == Append(s, e)
<1>1. /\ t \in Seq(S) /\ Len(t) = Len(s) + 1 /\ Len(s) \in Nat
      /\ \A i \in 1 .. Len(s) : t[i] = s[i]
      /\ t[Len(s) + 1] = e
  BY AppendProperties, LenProperties
<1>2. DOMAIN t = 1 .. Len(s) + 1 /\ DOMAIN s = 1 .. Len(s)
  BY <1>1, LenProperties
<1> HIDE DEF t
<1>3. DOMAIN t = DOMAIN s \union {Len(s) + 1}
  BY <1>1, <1>2
<1>4. ToSet(t) = {s[i] : i \in DOMAIN s} \union {e}
  BY <1>1, <1>2, <1>3 DEF ToSet
<1> QED  BY <1>1, <1>4 DEF ToSet, t

\* What is on the retired list.
Entries == [regions : SUBSET Regions, bytes : Nat, after : 0 .. FrameSlots]

\* Reclaiming keeps exactly the entries some frame may still reference.
LEMMA ReclaimedKeeps ==
    ASSUME retired \in Seq(Entries)
    PROVE  /\ Reclaimed \in Seq(Entries)
           /\ \A e \in ToSet(retired) : e.after > 0 => e \in ToSet(Reclaimed)
<1> DEFINE D == DOMAIN retired
           Kept(list, entry) ==
               IF entry.after > 0 THEN Append(list, entry) ELSE list
           kept == CHOOSE it : it = [s \in SUBSET D |->
                    IF s = {} THEN <<>>
                    ELSE Kept(it[s \ {CHOOSE x \in s : \A y \in s : x >= y}],
                              retired[CHOOSE x \in s : \A y \in s : x >= y])]
           op == [p \in D \X Seq(Entries) |-> Kept(p[2], retired[p[1]])]
<1>0. D = 1 .. Len(retired) /\ Len(retired) \in Nat
      /\ \A i \in D : retired[i] \in Entries
  BY LenProperties, ElementOfSeq
<1>1. Reclaimed = kept[D]
  BY DEF Reclaimed, FoldLeft, MapThenFoldSet, Max
<1>3. IsFiniteSet(D) /\ Chooses(Greatest(D), D)
  BY IndicesFinite, GreatestChooses
<1>2. \A x \in D, v \in Seq(Entries) :
         /\ op[<<x, v>>] = Kept(v, retired[x])
         /\ op[<<x, v>>] \in Seq(Entries)
  <2> TAKE x \in D, v \in Seq(Entries)
  <2>1. op[<<x, v>>] = Kept(v, retired[x])
    OBVIOUS
  <2>2. Append(v, retired[x]) \in Seq(Entries)
    BY <1>0, AppendProperties
  <2> QED  BY <2>1, <2>2
<1>4. <<>> \in Seq(Entries)
  OBVIOUS
<1> HIDE DEF D, op
<1>5. PICK it : IsFold(it, D, <<>>, op, Greatest(D))
  BY <1>3, FoldExists
<1>6. it \in [SUBSET D -> Seq(Entries)]
  BY <1>2, <1>3, <1>4, <1>5, FoldType
<1>7. \A s \in SUBSET D : s # {} => Greatest(D)[s] \in s
  BY <1>3 DEF Chooses
<1>8. \A s \in SUBSET D : Greatest(D)[s] = CHOOSE x \in s : \A y \in s : x >= y
  BY DEF Greatest, Max
<1>9. \A s \in SUBSET D :
         it[s] = IF s = {} THEN <<>>
                 ELSE Kept(it[s \ {Greatest(D)[s]}], retired[Greatest(D)[s]])
  <2> TAKE s \in SUBSET D
  <2>1. it[s] = IF s = {} THEN <<>>
                ELSE op[<<Greatest(D)[s], it[s \ {Greatest(D)[s]}]>>]
    BY <1>5 DEF IsFold
  <2>2. CASE s # {}
    <3>1. Greatest(D)[s] \in D /\ it[s \ {Greatest(D)[s]}] \in Seq(Entries)
      BY <1>6, <1>7, <2>2
    <3> HIDE DEF Kept
    <3> QED  BY <1>2, <2>1, <2>2, <3>1
  <2> QED  BY <2>1, <2>2
<1> HIDE DEF Kept
<1>10. it = [s \in SUBSET D |->
               IF s = {} THEN <<>>
               ELSE Kept(it[s \ {CHOOSE x \in s : \A y \in s : x >= y}],
                         retired[CHOOSE x \in s : \A y \in s : x >= y])]
  BY <1>6, <1>8, <1>9
<1>11. kept = [s \in SUBSET D |->
               IF s = {} THEN <<>>
               ELSE Kept(kept[s \ {CHOOSE x \in s : \A y \in s : x >= y}],
                         retired[CHOOSE x \in s : \A y \in s : x >= y])]
  BY <1>10
<1> HIDE DEF kept
<1>12. \A s \in SUBSET D :
         kept[s] = IF s = {} THEN <<>>
                   ELSE Kept(kept[s \ {Greatest(D)[s]}], retired[Greatest(D)[s]])
  <2>1. \A s \in SUBSET D :
          kept[s] = IF s = {} THEN <<>>
               ELSE Kept(kept[s \ {CHOOSE x \in s : \A y \in s : x >= y}],
                         retired[CHOOSE x \in s : \A y \in s : x >= y])
    BY <1>11
  <2> QED  BY <1>8, <2>1
<1>13. ASSUME NEW s \in SUBSET D
       PROVE  /\ kept[s] \in Seq(Entries)
              /\ \A i \in s : retired[i].after > 0 =>
                    retired[i] \in ToSet(kept[s])
  <2> DEFINE Good(m) == /\ kept[m] \in Seq(Entries)
                        /\ \A i \in m : retired[i].after > 0 =>
                               retired[i] \in ToSet(kept[m])
             Bad == {m \in SUBSET D : ~ Good(m)}
  <2>1. SUFFICES ASSUME Bad # {} PROVE FALSE
    OBVIOUS
  <2>2. PICK m \in Bad : \A n \in SUBSET m : n # m => n \notin Bad
    <3>1. Bad \in SUBSET SUBSET D
      OBVIOUS
    <3> HIDE DEF Bad
    <3> QED  BY <1>3, <2>1, <3>1, SmallestSubset
  <2>3. CASE m = {}
    BY <1>4, <1>12, <2>2, <2>3
  <2>4. CASE m # {}
    <3> DEFINE x == Greatest(D)[m]
               n == m \ {x}
    <3>1. x \in m /\ n \in SUBSET m /\ n # m
      BY <1>7, <2>4
    <3>2. Good(n)
      BY <2>2, <3>1
    <3>3. kept[m] = Kept(kept[n], retired[x]) /\ retired[x] \in Entries
      BY <1>0, <1>12, <2>4, <3>1
    <3> HIDE DEF x, n
    <3>4. CASE retired[x].after > 0
      <4>1. kept[m] = Append(kept[n], retired[x]) /\ kept[n] \in Seq(Entries)
        BY <3>2, <3>3, <3>4 DEF Kept
      <4>2. /\ kept[m] \in Seq(Entries)
            /\ ToSet(kept[m]) = ToSet(kept[n]) \union {retired[x]}
        BY <3>3, <4>1, AppendSet
      <4>3. Good(m)
        BY <3>2, <4>2 DEF n
      <4> QED  BY <2>2, <4>3
    <3>5. CASE ~(retired[x].after > 0)
      <4>1. kept[m] = kept[n]
        BY <3>3, <3>5 DEF Kept
      <4>2. Good(m)
        BY <3>2, <3>5, <4>1 DEF n
      <4> QED  BY <2>2, <4>2
    <3> QED  BY <3>4, <3>5
  <2> QED  BY <2>3, <2>4
<1> QED  BY <1>1, <1>13 DEF ToSet, D

\* The bytes of a finite set of fine meshes.
LEMMA FineSums ==
    ASSUME NEW S \in SUBSET Regions, IsFiniteSet(S)
    PROVE  /\ HeldBytes(S) \in Nat
           /\ \A T \in SUBSET S : /\ IsFiniteSet(T) /\ IsFiniteSet(S \ T)
                                  /\ HeldBytes(T) \in Nat
                                  /\ HeldBytes(S \ T) \in Nat
                                  /\ HeldBytes(S) = HeldBytes(T) + HeldBytes(S \ T)
<1>1. \A T : HeldBytes(T) = Total(MeshBytes, T)
  BY DEF HeldBytes, Total
<1>2. \A r \in Regions : MeshBytes[r] \in Nat
  BY StreamingAssumption DEF MeshBytes
<1>3. ASSUME NEW T \in SUBSET S
      PROVE  IsFiniteSet(T) /\ HeldBytes(T) \in Nat
  <2>1. IsFiniteSet(T)
    BY FS_Subset
  <2>2. \A r \in T : MeshBytes[r] \in Nat
    BY <1>2
  <2> QED  BY <1>1, <2>1, <2>2, TotalType
<1>4. ASSUME NEW T \in SUBSET S
      PROVE  HeldBytes(S) = HeldBytes(T) + HeldBytes(S \ T)
  <2>1. \A r \in S : MeshBytes[r] \in Nat
    BY <1>2
  <2> QED  BY <1>1, <2>1, TotalSplit
<1>5. \A T \in SUBSET S : S \ T \in SUBSET S
  OBVIOUS
<1> QED  BY <1>3, <1>4, <1>5

\* Every fine mesh a pending frame draws is still there, or on the retired
\* list behind a fence no lower than the frame.
FramesCovered ==
    \A i \in DOMAIN frames : \A r \in frames[i] :
        \/ r \in resident
        \/ \E e \in ToSet(retired) : r \in e.regions /\ e.after >= i

\* The scene, what is retired, and what the frames draw.
Scene ==
    /\ resident \subseteq Regions /\ IsFiniteSet(resident)
    /\ fullTextures \in BOOLEAN
    /\ retired \in Seq(Entries)
    /\ frames \in Seq(SUBSET Regions) /\ Len(frames) <= FrameSlots
    /\ FramesCovered

\* What is retired now waits for every frame submitted so far.
LEMMA RetiringCovers ==
    ASSUME Scene, NEW S \in SUBSET Regions, NEW n \in Nat
    PROVE  /\ Retiring(S, n) \in Entries
           /\ Retiring(S, n).regions = S /\ Retiring(S, n).bytes = n
           /\ \A i \in DOMAIN frames : Retiring(S, n).after >= i
<1>1. Len(frames) \in 0 .. FrameSlots /\ DOMAIN frames = 1 .. Len(frames)
  BY LenProperties, StreamingAssumption DEF Scene
<1> QED  BY <1>1 DEF Retiring, Entries

\* Sums and unions of numbers and entries.
LEMMA EntryFacts ==
    /\ \A e \in Entries : /\ e.bytes \in Nat /\ e.regions \in SUBSET Regions
                          /\ e.after \in 0 .. FrameSlots
    /\ FrameSlots \in Nat \ {0} /\ ReservedBytes \in Nat /\ TextureBytes \in Nat
  BY StreamingAssumption DEF Entries

\* Shedding and eviction put on the list what they take from the scene.
LEMMA ShedScene ==
    ASSUME Scene, ShedDetail, UNCHANGED frames
    PROVE  Scene'
<1>1. PICK shed \in BOOLEAN, plan \in SUBSET resident :
        LET afterShed == IF shed THEN Append(Reclaimed, Retiring({}, TextureBytes))
                                 ELSE Reclaimed
        IN /\ fullTextures' = (fullTextures /\ ~shed)
           /\ resident' = resident \ plan
           /\ retired' = IF plan = {} THEN afterShed
                         ELSE Append(afterShed, Retiring(plan, HeldBytes(plan)))
  BY DEF ShedDetail, EvictionPlans
<1> DEFINE afterShed == IF shed THEN Append(Reclaimed, Retiring({}, TextureBytes))
                                ELSE Reclaimed
           entry == Retiring(plan, HeldBytes(plan))
<1>2. /\ Reclaimed \in Seq(Entries)
      /\ \A e \in ToSet(retired) : e.after > 0 => e \in ToSet(Reclaimed)
  BY ReclaimedKeeps DEF Scene
<1>3. /\ afterShed \in Seq(Entries)
      /\ ToSet(Reclaimed) \subseteq ToSet(afterShed)
  <2>1. Retiring({}, TextureBytes) \in Entries
    <3>1. {} \in SUBSET Regions /\ TextureBytes \in Nat
      BY EntryFacts
    <3> QED  BY <3>1, RetiringCovers
  <2> QED  BY <1>2, <2>1, AppendSet
<1>4. plan \in SUBSET Regions /\ HeldBytes(plan) \in Nat /\ IsFiniteSet(resident \ plan)
  BY FineSums DEF Scene
<1>5. /\ entry \in Entries /\ entry.regions = plan
      /\ \A i \in DOMAIN frames : entry.after >= i
  BY <1>4, RetiringCovers
<1>6. retired' = IF plan = {} THEN afterShed ELSE Append(afterShed, entry)
  BY <1>1
<1> HIDE DEF afterShed, entry
<1>7. /\ retired' \in Seq(Entries)
      /\ ToSet(afterShed) \subseteq ToSet(retired')
      /\ plan # {} => entry \in ToSet(retired')
  BY <1>3, <1>5, <1>6, AppendSet
<1>8. FramesCovered'
  <2> SUFFICES ASSUME NEW i \in DOMAIN frames, NEW r \in frames[i]
               PROVE  \/ r \in resident'
                      \/ \E e \in ToSet(retired') : r \in e.regions /\ e.after >= i
    BY DEF FramesCovered
  <2>1. CASE r \in resident
    BY <1>1, <1>5, <1>7, <2>1
  <2>2. CASE \E e \in ToSet(retired) : r \in e.regions /\ e.after >= i
    <3>1. PICK e \in ToSet(retired) : r \in e.regions /\ e.after >= i
      BY <2>2
    <3>2. e \in Entries /\ i \in Nat /\ i > 0
      BY <3>1, LenProperties, ElementOfSeq DEF Scene, ToSet
    <3>3. e.after > 0
      BY <3>1, <3>2, EntryFacts
    <3> QED  BY <1>2, <1>3, <1>7, <3>1, <3>3
  <2> QED  BY <2>1, <2>2 DEF Scene, FramesCovered
<1> QED  BY <1>1, <1>4, <1>7, <1>8 DEF Scene

\* What no frame references may go.
LEMMA ReclaimScene ==
    ASSUME Scene, retired' = Reclaimed,
           UNCHANGED <<resident, fullTextures, frames>>
    PROVE  Scene'
<1>1. /\ Reclaimed \in Seq(Entries)
      /\ \A e \in ToSet(retired) : e.after > 0 => e \in ToSet(Reclaimed)
  BY ReclaimedKeeps DEF Scene
<1>2. FramesCovered'
  <2> SUFFICES ASSUME NEW i \in DOMAIN frames, NEW r \in frames[i], r \notin resident
               PROVE  \E e \in ToSet(Reclaimed) : r \in e.regions /\ e.after >= i
    BY DEF FramesCovered
  <2>1. PICK e \in ToSet(retired) : r \in e.regions /\ e.after >= i
    BY DEF Scene, FramesCovered
  <2>2. e \in Entries /\ i \in Nat /\ i > 0
    BY <2>1, LenProperties, ElementOfSeq DEF Scene, ToSet
  <2>3. e.after > 0
    BY <2>1, <2>2, EntryFacts
  <2> QED  BY <1>1, <2>1, <2>3
<1> QED  BY <1>1, <1>2 DEF Scene

\* An arrival adds to the scene and retires the descriptor table.
LEMMA ArrivalScene ==
    ASSUME Scene, Places, TakePublication
    PROVE  Scene'
<1>1. Head(publications) \in Sent
  BY Ends DEF TakePublication, Places
<1>2. Head(publications).region \in Regions
  BY <1>1 DEF Sent
<1>3. /\ resident \subseteq resident' /\ resident' \subseteq Regions
      /\ IsFiniteSet(resident')
  <2>1. \/ UNCHANGED resident
        \/ resident' = resident \union {Head(publications).region}
    BY DEF TakePublication
  <2>2. IsFiniteSet(resident \union {Head(publications).region})
    BY FS_AddElement DEF Scene
  <2> QED  BY <1>2, <2>1, <2>2 DEF Scene
<1>4. Retiring({}, 0) \in Entries
  <2>1. {} \in SUBSET Regions /\ 0 \in Nat
    OBVIOUS
  <2> QED  BY <2>1, RetiringCovers
<1>5. /\ retired' \in Seq(Entries)
      /\ ToSet(retired) \subseteq ToSet(retired')
  <2>1. \/ UNCHANGED retired
        \/ retired' = Append(retired, Retiring({}, 0))
    BY DEF TakePublication
  <2>2. /\ Append(retired, Retiring({}, 0)) \in Seq(Entries)
        /\ ToSet(retired) \subseteq ToSet(Append(retired, Retiring({}, 0)))
    BY <1>4, AppendSet DEF Scene
  <2>3. retired \in Seq(Entries)
    BY DEF Scene
  <2>4. CASE UNCHANGED retired
    BY <2>3, <2>4
  <2>5. CASE retired' = Append(retired, Retiring({}, 0))
    BY <2>2, <2>5
  <2> QED  BY <2>1, <2>4, <2>5
<1>6. UNCHANGED <<frames, fullTextures>>
  BY DEF TakePublication
<1>7. FramesCovered'
  BY <1>3, <1>5, <1>6 DEF Scene, FramesCovered
<1> QED  BY <1>3, <1>5, <1>6, <1>7 DEF Scene

\* A frame evicts what is out of view and draws what is left.
LEMMA FrameScene ==
    ASSUME Scene, RenderOneFrame
    PROVE  Scene'
<1> DEFINE unseen == resident \ Visible
           entry == Retiring(unseen, HeldBytes(unseen))
           drawn == resident' \cap Visible
<1>1. /\ frames' = Append(frames, drawn) /\ Len(frames) < FrameSlots
      /\ UNCHANGED fullTextures
      /\ \/ UNCHANGED <<resident, retired>>
         \/ resident' = resident \ unseen /\ retired' = Append(retired, entry)
  BY DEF RenderOneFrame, RequestVisibleDetail
<1>2. unseen \in SUBSET Regions /\ HeldBytes(unseen) \in Nat
      /\ IsFiniteSet(resident \ unseen)
  BY FineSums DEF Scene
<1>3. /\ entry \in Entries /\ entry.regions = unseen
      /\ \A i \in DOMAIN frames : entry.after >= i
  BY <1>2, RetiringCovers
<1>4. drawn \in SUBSET Regions /\ drawn \in SUBSET resident'
  BY DEF Visible
<1> HIDE DEF unseen, entry, drawn
<1>5. /\ retired' \in Seq(Entries)
      /\ ToSet(retired) \subseteq ToSet(retired')
      /\ resident' # resident => /\ resident' = resident \ unseen
                                 /\ entry \in ToSet(retired')
  <2>1. /\ Append(retired, entry) \in Seq(Entries)
        /\ ToSet(Append(retired, entry)) = ToSet(retired) \union {entry}
    BY <1>3, AppendSet DEF Scene
  <2>2. retired \in Seq(Entries)
    BY DEF Scene
  <2>3. CASE UNCHANGED <<resident, retired>>
    BY <2>2, <2>3
  <2>4. CASE resident' = resident \ unseen /\ retired' = Append(retired, entry)
    BY <2>1, <2>4
  <2> QED  BY <1>1, <2>3, <2>4
<1>6. /\ resident' \subseteq Regions /\ IsFiniteSet(resident')
  BY <1>1, <1>2 DEF Scene
<1>7. /\ frames' \in Seq(SUBSET Regions) /\ Len(frames') = Len(frames) + 1
      /\ \A i \in 1 .. Len(frames) : frames'[i] = frames[i]
      /\ frames'[Len(frames) + 1] = drawn
      /\ Len(frames) \in Nat /\ DOMAIN frames = 1 .. Len(frames)
  BY <1>1, <1>4, AppendProperties, LenProperties DEF Scene
<1>8. Len(frames') <= FrameSlots
  BY <1>1, <1>7, EntryFacts
<1>9. DOMAIN frames' = 1 .. Len(frames) + 1
  BY <1>7, LenProperties
<1>10. FramesCovered'
  <2> SUFFICES ASSUME NEW i \in DOMAIN frames', NEW r \in frames'[i]
               PROVE  \/ r \in resident'
                      \/ \E e \in ToSet(retired') : r \in e.regions /\ e.after >= i
    BY DEF FramesCovered
  <2>1. CASE i = Len(frames) + 1
    BY <1>4, <1>7, <2>1
  <2>2. CASE i # Len(frames) + 1
    <3>1. i \in DOMAIN frames /\ r \in frames[i]
      BY <1>7, <1>9, <2>2
    <3>2. CASE r \in resident
      BY <1>3, <1>5, <3>1, <3>2
    <3>3. CASE r \notin resident
      BY <1>5, <3>1, <3>3 DEF Scene, FramesCovered
    <3> QED  BY <3>2, <3>3
  <2> QED  BY <2>1, <2>2
<1> QED  BY <1>1, <1>5, <1>6, <1>7, <1>8, <1>10 DEF Scene

\* The oldest frame is done: every fence is one frame nearer.
LEMMA FinishScene ==
    ASSUME Scene, FinishFrame
    PROVE  /\ Scene' /\ Sizes(retired') = Sizes(retired)
<1>1. /\ frames' = Tail(frames) /\ frames # <<>>
      /\ retired' = [j \in DOMAIN retired |->
                        [retired[j] EXCEPT !.after = Less(@, 1)]]
      /\ UNCHANGED <<resident, fullTextures>>
  BY DEF FinishFrame
<1>2. /\ frames' \in Seq(SUBSET Regions) /\ Len(frames') = Len(frames) - 1
      /\ \A i \in 1 .. Len(frames) - 1 : frames'[i] = frames[i + 1]
      /\ Len(frames) \in Nat /\ DOMAIN frames = 1 .. Len(frames)
  BY <1>1, HeadTailProperties, LenProperties DEF Scene
<1>3. DOMAIN frames' = 1 .. Len(frames) - 1
  BY <1>2, LenProperties
<1>4. \A j \in DOMAIN retired : retired[j] \in Entries
  BY ElementOfSeq, LenProperties DEF Scene
<1>5. ASSUME NEW j \in DOMAIN retired
      PROVE  /\ retired'[j] \in Entries
             /\ retired'[j].regions = retired[j].regions
             /\ retired'[j].bytes = retired[j].bytes
             /\ retired'[j].after = Less(retired[j].after, 1)
  <2>1. retired[j] \in Entries
    BY <1>4
  <2>2. Less(retired[j].after, 1) \in 0 .. FrameSlots
    BY <2>1, EntryFacts DEF Less
  <2> QED  BY <1>1, <2>1, <2>2 DEF Entries
<1>6. /\ retired' \in Seq(Entries) /\ DOMAIN retired' = DOMAIN retired
  <2>1. DOMAIN retired = 1 .. Len(retired) /\ Len(retired) \in Nat
    BY LenProperties DEF Scene
  <2>2. retired' = [j \in 1 .. Len(retired) |-> retired'[j]]
    BY <1>1, <2>1
  <2>3. \A j \in 1 .. Len(retired) : retired'[j] \in Entries
    BY <1>5, <2>1
  <2>4. [j \in 1 .. Len(retired) |-> retired'[j]] \in Seq(Entries)
    <3> DEFINE moved == retired'
    <3>1. \A j \in 1 .. Len(retired) : moved[j] \in Entries
      BY <2>3
    <3> HIDE DEF moved
    <3>2. [j \in 1 .. Len(retired) |-> moved[j]] \in Seq(Entries)
      BY <2>1, <3>1, IsASeq
    <3> QED  BY <3>2 DEF moved
  <2>5. retired' \in Seq(Entries)
    BY <2>2, <2>4
  <2>6. DOMAIN retired' = DOMAIN retired
    BY <1>1
  <2> QED  BY <2>5, <2>6
<1>7. Sizes(retired') = Sizes(retired)
  BY <1>5, <1>6 DEF Sizes
<1>8. FramesCovered'
  <2> SUFFICES ASSUME NEW i \in DOMAIN frames', NEW r \in frames'[i], r \notin resident
               PROVE  \E e \in ToSet(retired') : r \in e.regions /\ e.after >= i
    BY <1>1 DEF FramesCovered
  <2>1. i + 1 \in DOMAIN frames /\ r \in frames[i + 1] /\ i \in Nat /\ i > 0
    BY <1>2, <1>3
  <2>2. PICK e \in ToSet(retired) : r \in e.regions /\ e.after >= i + 1
    BY <2>1 DEF Scene, FramesCovered
  <2>3. PICK j \in DOMAIN retired : e = retired[j]
    BY DEF ToSet
  <2>4. retired[j].after \in Nat
    BY <1>4, EntryFacts
  <2>5. retired'[j].after >= i
    BY <1>5, <2>1, <2>2, <2>3, <2>4 DEF Less
  <2>6. retired'[j] \in ToSet(retired')
    BY <1>6 DEF ToSet
  <2> QED  BY <1>5, <2>2, <2>3, <2>5, <2>6
<1>9. Len(frames') <= FrameSlots
  BY <1>2, EntryFacts DEF Scene
<1> QED  BY <1>1, <1>2, <1>6, <1>7, <1>8, <1>9 DEF Scene

\* The two counts of the inbox: what the render thread has allocated, and
\* what the upload thread holds or has published.
Ledger ==
    /\ base = Census(resident, fullTextures, retired)
    /\ upload.phase \in {"idle", "waiting"} => upload.bytes = 0
    /\ pending = upload.bytes + RetiredBytes(publications)
    /\ mandatory \in Nat /\ target \in Nat /\ budget \in Targets

\* The shapes, the scene and the counts.
StreamInv == Places /\ Scene /\ Ledger

\* Every part of the invariant holds when the viewer starts to stream.
LEMMA StreamInit == Init => StreamInv
<1> SUFFICES ASSUME Init PROVE StreamInv
  OBVIOUS
<1>1. Places
  BY LaneInit DEF LaneInv
<1>2. Scene
  <2>1. /\ resident = {} /\ fullTextures = TRUE /\ retired = <<>> /\ frames = <<>>
    BY DEF Init
  <2>2. FramesCovered
    BY <2>1, None DEF FramesCovered
  <2> QED  BY <2>1, <2>2, None, EntryFacts, FS_EmptySet DEF Scene
<1>3. RetiredBytes(publications) = 0
  <2>1. publications = <<>> /\ <<>> \in Seq(Entries)
    BY None DEF Init
  <2> QED  BY <2>1, EntryFacts, RetiredSums
<1>4. Ledger
  BY <1>3, StreamingAssumption DEF Init, Ledger, Idle
<1> QED  BY <1>1, <1>2, <1>4 DEF StreamInv

\* What is published carries its bytes.
LEMMA SentFacts == \A e \in Sent : e.bytes \in Nat /\ e.region \in Regions
  BY DEF Sent, Uploads

\* The scene in every step.
LEMMA SceneStep == StreamInv /\ [Next]_vars => Scene'
<1> SUFFICES ASSUME StreamInv, [Next]_vars PROVE Scene'
  OBVIOUS
<1>0. Scene /\ Places
  BY DEF StreamInv
<1>1. CASE UpdateBudget
  <2>1. CASE ShedDetail
    BY <1>0, <1>1, <2>1, ShedScene DEF UpdateBudget
  <2>2. CASE retired' = Reclaimed /\ UNCHANGED <<resident, fullTextures>>
    BY <1>0, <1>1, <2>2, ReclaimScene DEF UpdateBudget
  <2> QED  BY <1>1, <2>1, <2>2 DEF UpdateBudget
<1>2. CASE TakePublication
  BY <1>0, <1>2, ArrivalScene
<1>3. CASE RenderOneFrame
  BY <1>0, <1>3, FrameScene
<1>4. CASE FinishFrame
  BY <1>0, <1>4, FinishScene
<1>5. CASE UNCHANGED sceneVars
  BY <1>0, <1>5 DEF Scene, FramesCovered
<1>6. CASE \/ NoPublication \/ ResumeDetail \/ Replay \/ FailReplay \/ Upload
           \/ MoveCamera \/ ChangeBudget \/ SetFailure \/ UNCHANGED vars
  <2>1. UNCHANGED sceneVars
    BY <1>6 DEF NoPublication, ResumeDetail, Replay, TakeRequest, DeliverRegion,
       EndReplay, ReplayUnchanged, FailReplay, Upload, TakeTask, Reserve,
       CopyRegion, Publish, UploadUnchanged, MoveCamera, ChangeBudget,
       OutsideUnchanged, SetFailure, vars
  <2> QED  BY <1>5, <2>1
<1> QED  BY <1>1, <1>2, <1>3, <1>4, <1>6 DEF Next, Render

\* Evicted or not, buffers count the same until they are released.
LEMMA CensusTypes ==
    ASSUME Scene
    PROVE  /\ Census(resident, fullTextures, retired) \in Nat
           /\ \A T \in SUBSET resident :
                 Census(resident \ T, fullTextures,
                        Append(retired, Retiring(T, HeldBytes(T))))
                   = Census(resident, fullTextures, retired)
<1>1. HeldBytes(resident) \in Nat
  BY FineSums DEF Scene
<1>2. /\ RetiredBytes(retired) \in Nat
      /\ \A e \in Entries : RetiredBytes(Append(retired, e))
                               = RetiredBytes(retired) + e.bytes
  BY EntryFacts, RetiredIsTotal, RetiredSums DEF Scene
<1>3. ASSUME NEW T \in SUBSET resident
      PROVE  Census(resident \ T, fullTextures,
                    Append(retired, Retiring(T, HeldBytes(T))))
               = Census(resident, fullTextures, retired)
  <2>1. /\ HeldBytes(T) \in Nat /\ HeldBytes(resident \ T) \in Nat
        /\ HeldBytes(resident) = HeldBytes(T) + HeldBytes(resident \ T)
        /\ T \in SUBSET Regions
    BY FineSums DEF Scene
  <2> DEFINE entry == Retiring(T, HeldBytes(T))
  <2>2. entry \in Entries /\ entry.bytes = HeldBytes(T)
    BY <2>1, RetiringCovers
  <2> HIDE DEF entry
  <2>3. RetiredBytes(Append(retired, entry)) = RetiredBytes(retired) + HeldBytes(T)
    BY <1>2, <2>2
  <2> DEFINE textures == IF fullTextures THEN TextureBytes ELSE 0
  <2>4. textures \in Nat /\ ReservedBytes \in Nat
    BY EntryFacts
  <2> HIDE DEF textures
  <2>5. ReservedBytes + textures + HeldBytes(resident \ T)
          + RetiredBytes(Append(retired, entry))
        = ReservedBytes + textures + HeldBytes(resident) + RetiredBytes(retired)
    BY <1>2, <2>1, <2>3, <2>4
  <2> QED  BY <2>5 DEF Census, textures, entry
<1> QED  BY <1>1, <1>2, <1>3, EntryFacts DEF Census

\* The counts in every step.
LEMMA LedgerStep == StreamInv /\ [Next]_vars => Ledger'
<1> SUFFICES ASSUME StreamInv, [Next]_vars PROVE Ledger'
  OBVIOUS
<1>0. Scene /\ Places /\ Ledger
  BY DEF StreamInv
<1>a. /\ publications \in Seq(Sent) /\ upload \in Uploads /\ upload.bytes \in Nat
      /\ RetiredBytes(publications) \in Nat
  BY <1>0, SentFacts, RetiredIsTotal DEF Places, Uploads
<1>b. Targets \subseteq Nat /\ \A r \in Regions : Fallbacks[r] \in Nat /\ Cost[r] \in Nat
  BY StreamingAssumption
<1>c. RetiredBytes(<<>>) = 0
  BY <1>a, SentFacts, RetiredSums
<1> USE <1>0
<1>1. CASE UpdateBudget
  <2>1. /\ base' = Census(resident', fullTextures', retired')
        /\ target' = budget
        /\ UNCHANGED <<upload, publications, pending, mandatory, budget>>
    BY <1>1 DEF UpdateBudget
  <2> QED  BY <1>b, <2>1 DEF Ledger
<1>2. CASE TakePublication
  <2>1. /\ base' = Census(resident', fullTextures', retired')
        /\ publications # <<>> /\ publications' = Tail(publications)
        /\ pending' = pending - Head(publications).bytes
        /\ UNCHANGED <<upload, mandatory, target, budget>>
    BY <1>2 DEF TakePublication
  <2>2. RetiredBytes(publications)
          = Head(publications).bytes + RetiredBytes(Tail(publications))
    BY <1>a, <2>1, SentFacts, RetiredSums
  <2>3. /\ Head(publications).bytes \in Nat
        /\ RetiredBytes(Tail(publications)) \in Nat
    BY <1>a, <2>1, Ends, SentFacts, RetiredIsTotal
  <2>4. pending' = upload'.bytes + RetiredBytes(publications')
    BY SMTT(30), <1>a, <2>1, <2>2, <2>3 DEF Ledger
  <2> QED  BY <2>1, <2>4 DEF Ledger
<1>3. CASE RenderOneFrame
  <2> DEFINE unseen == resident \ Visible
  <2>1. /\ UNCHANGED <<fullTextures, base, upload, publications, pending,
                       mandatory, target, budget>>
        /\ \/ UNCHANGED <<resident, retired>>
           \/ /\ resident' = resident \ unseen
              /\ retired' = Append(retired, Retiring(unseen, HeldBytes(unseen)))
    BY <1>3 DEF RenderOneFrame, RequestVisibleDetail
  <2>2. unseen \in SUBSET resident
    OBVIOUS
  <2> HIDE DEF unseen
  <2>3. Census(resident', fullTextures', retired')
           = Census(resident, fullTextures, retired)
    BY <2>1, <2>2, CensusTypes
  <2> QED  BY <2>1, <2>3 DEF Ledger
<1>4. CASE FinishFrame
  <2>1. UNCHANGED <<resident, fullTextures, base, upload, publications, pending,
                    mandatory, target, budget>>
    BY <1>4 DEF FinishFrame
  <2>2. /\ Sizes(retired') = Sizes(retired) /\ retired' \in Seq(Entries)
        /\ retired \in Seq(Entries)
    BY <1>4, FinishScene DEF Scene
  <2>3. RetiredBytes(retired') = RetiredBytes(retired)
    BY <2>2, EntryFacts, RetiredSums
  <2> QED  BY <2>1, <2>3 DEF Ledger, Census
<1>5. CASE TakeTask
  <2>1. /\ upload.phase = "idle" /\ upload'.phase = "waiting" /\ upload'.bytes = 0
        /\ tasks # <<>> /\ mandatory' = Fallbacks[Head(tasks)]
        /\ UNCHANGED <<sceneVars, base, publications, pending, target, budget>>
    BY <1>5 DEF TakeTask, Idle, UploadUnchanged
  <2>2. mandatory' \in Nat
    BY <1>b, <2>1, Ends DEF Places
  <2> QED  BY <2>1, <2>2 DEF Ledger
<1>6. CASE Reserve
  <2>1. upload.phase = "waiting" /\ upload.bytes = 0 /\ upload.region \in Regions
    BY <1>6 DEF Reserve, Ledger, Places
  <2> DEFINE r == upload.region
             kept == Cost[r] <= Less(Less(target, base + pending), mandatory)
             bytes == IF kept THEN Cost[r] + Fallbacks[r] ELSE 0
  <2>2. bytes \in Nat
    BY <1>b, <2>1
  <2>3. \/ upload' = [upload EXCEPT !.phase = "copied"] /\ pending' = pending
        \/ /\ upload' = [upload EXCEPT !.phase = "copying", !.filled = kept,
                                       !.bytes = bytes]
           /\ pending' = pending + bytes
    BY <1>6 DEF Reserve
  <2>4. /\ mandatory' = 0
        /\ UNCHANGED <<sceneVars, base, publications, target, budget>>
    BY <1>6 DEF Reserve, UploadUnchanged
  <2> HIDE DEF kept, bytes
  <2>5. \/ upload'.phase = "copied" /\ upload'.bytes = 0 /\ pending' = pending
        \/ upload'.phase = "copying" /\ upload'.bytes = bytes
           /\ pending' = pending + bytes
    BY <1>a, <2>1, <2>3 DEF Uploads
  <2>6. pending' = upload'.bytes + RetiredBytes(publications')
    BY <1>a, <2>1, <2>2, <2>4, <2>5 DEF Ledger
  <2> QED  BY <2>4, <2>5, <2>6 DEF Ledger
<1>7. CASE CopyRegion
  <2>1. PICK ok \in BOOLEAN :
          upload' = [upload EXCEPT !.phase = "copied", !.ok = ok,
                                   !.filled = @ /\ ok]
    BY <1>7 DEF CopyRegion, Places
  <2>2. upload'.phase = "copied" /\ upload'.bytes = upload.bytes
    BY <1>a, <2>1 DEF Uploads
  <2>3. UNCHANGED <<sceneVars, base, publications, pending, mandatory, target,
                    budget>>
    BY <1>7 DEF CopyRegion, UploadUnchanged
  <2> QED  BY <2>2, <2>3 DEF Ledger
<1>8. CASE Publish
  <2>1. /\ upload.phase = "copied" /\ upload'.phase = "idle" /\ upload'.bytes = 0
        /\ UNCHANGED <<sceneVars, base, mandatory, target, budget>>
    BY <1>8 DEF Publish, Idle, UploadUnchanged
  <2>2. upload \in Sent
    BY <1>a, <2>1 DEF Places, Sent
  <2>3. RetiredBytes(Append(publications, upload))
          = RetiredBytes(publications) + upload.bytes
    BY <1>a, <2>2, SentFacts, RetiredSums
  <2>4. \/ publications' = Append(publications, upload) /\ pending' = pending
        \/ publications' = publications /\ pending' = pending - upload.bytes
    BY <1>8 DEF Publish
  <2>5. pending' = upload'.bytes + RetiredBytes(publications')
    <3>1. pending = upload.bytes + RetiredBytes(publications)
      BY DEF Ledger
    <3>2. CASE publications' = Append(publications, upload) /\ pending' = pending
      BY <1>a, <2>1, <2>3, <3>1, <3>2
    <3>3. CASE publications' = publications /\ pending' = pending - upload.bytes
      BY <1>a, <2>1, <3>1, <3>3
    <3> QED  BY <2>4, <3>2, <3>3
  <2> QED  BY <2>1, <2>5 DEF Ledger
<1>9. CASE SetFailure
  <2>1. /\ publications' = <<>> /\ pending' = PendingAfterCancel
        /\ UNCHANGED <<sceneVars, base, mandatory, target, upload, budget>>
    BY <1>9 DEF SetFailure
  <2>2. PendingAfterCancel = pending - RetiredBytes(publications)
    BY DEF PendingAfterCancel, RetiredBytes
  <2>3. pending' = upload'.bytes + RetiredBytes(publications')
    BY <1>a, <1>c, <2>1, <2>2 DEF Ledger
  <2> QED  BY <2>1, <2>3 DEF Ledger
<1>10. CASE ChangeBudget
  BY <1>10 DEF ChangeBudget, OutsideUnchanged, Ledger
<1>11. CASE \/ NoPublication \/ ResumeDetail \/ Replay \/ FailReplay
            \/ MoveCamera \/ UNCHANGED vars
  <2>1. UNCHANGED <<resident, fullTextures, retired, base, upload, publications,
                    pending, mandatory, target, budget>>
    BY <1>11 DEF NoPublication, ResumeDetail, Replay, TakeRequest, DeliverRegion,
       EndReplay, ReplayUnchanged, FailReplay, MoveCamera, OutsideUnchanged, vars
  <2> QED  BY <2>1 DEF Ledger
<1> QED  BY <1>1, <1>2, <1>3, <1>4, <1>5, <1>6, <1>7, <1>8, <1>9, <1>10,
            <1>11 DEF Next, Render, Upload

\* The shapes, the scene and the counts hold throughout.
THEOREM StreamInvariant == Spec => []StreamInv
<1>1. StreamInv /\ [Next]_vars => StreamInv'
  BY PlacesStep, SceneStep, LedgerStep DEF StreamInv
<1> QED  BY <1>1, StreamInit, PTL DEF Spec

\* However many frames the GPU is behind, no buffer one of them draws has been
\* released.
THEOREM DrawnBuffersStay == Spec => []DrawnOutlivesFrames
<1>1. StreamInv => DrawnOutlivesFrames
  <2> SUFFICES ASSUME StreamInv, NEW i \in DOMAIN frames, NEW r \in frames[i],
                      r \notin resident
               PROVE  \E j \in DOMAIN retired : r \in retired[j].regions
    BY DEF DrawnOutlivesFrames
  <2>1. PICK e \in ToSet(retired) : r \in e.regions
    BY DEF StreamInv, Scene, FramesCovered
  <2> QED  BY <2>1 DEF ToSet
<1> QED  BY <1>1, StreamInvariant, PTL

\* A reservation is admitted by the count of what is really allocated.
THEOREM AdmissionStaysWithinTarget == Spec => AdmissionFits
<1>1. ASSUME StreamInv, [Next]_vars,
             upload.phase = "waiting", upload'.phase = "copying",
             upload'.bytes > 0
      PROVE  Allocated' <= target'
  <2>0. Scene /\ Places /\ Ledger
    BY <1>1 DEF StreamInv
  <2>1. Reserve
    BY <1>1 DEF Next, Render, UpdateBudget, TakePublication, NoPublication,
       RenderOneFrame, FinishFrame, ResumeDetail, Replay, TakeRequest,
       DeliverRegion, EndReplay, ReplayUnchanged, FailReplay, Upload, TakeTask,
       CopyRegion, Publish, MoveCamera, ChangeBudget, OutsideUnchanged,
       SetFailure, vars
  <2> DEFINE r == upload.region
             kept == Cost[r] <= Less(Less(target, base + pending), mandatory)
             bytes == IF kept THEN Cost[r] + Fallbacks[r] ELSE 0
  <2>2. upload \in Uploads /\ upload.bytes = 0 /\ r \in Regions
    BY <1>1, <2>0 DEF Places, Ledger
  <2>3. bytes \in Nat
    <3>1. Cost[r] \in Nat /\ Fallbacks[r] \in Nat
      BY <2>2, StreamingAssumption
    <3> QED  BY <3>1
  <2>4. /\ ~(base + pending + bytes > target)
        /\ upload' = [upload EXCEPT !.phase = "copying", !.filled = kept,
                                    !.bytes = bytes]
    <3>1. \/ upload' = [upload EXCEPT !.phase = "copied"]
          \/ /\ ~(base + pending + bytes > target)
             /\ upload' = [upload EXCEPT !.phase = "copying", !.filled = kept,
                                         !.bytes = bytes]
      BY <2>1 DEF Reserve
    <3> HIDE DEF kept, bytes, r
    <3>2. upload' # [upload EXCEPT !.phase = "copied"]
      BY <1>1, <2>2 DEF Uploads
    <3> QED  BY <3>1, <3>2
  <2> HIDE DEF kept, bytes, r
  <2>5. upload'.bytes = bytes
    BY <2>2, <2>4 DEF Uploads
  <2>6. UNCHANGED <<resident, fullTextures, retired, target>>
    BY <2>1 DEF Reserve, UploadUnchanged
  <2>7. base \in Nat /\ pending \in Nat /\ target \in Nat
    <3>1. base \in Nat
      BY <2>0, CensusTypes DEF Ledger
    <3>2. RetiredBytes(publications) \in Nat
      BY <2>0, SentFacts, RetiredIsTotal DEF Places
    <3> QED  BY <2>0, <2>2, <3>1, <3>2 DEF Ledger
  <2>8. Allocated' = base + bytes
    BY <1>1, <2>0, <2>5, <2>6 DEF Allocated, Ledger, Census
  <2> QED  BY <2>3, <2>4, <2>6, <2>7, <2>8
<1>2. StreamInv /\ [Next]_vars =>
        [(/\ upload.phase = "waiting" /\ upload'.phase = "copying"
          /\ upload'.bytes > 0) => Allocated' <= target']_vars
  BY <1>1
<1> QED  BY <1>2, StreamInvariant, PTL DEF Spec, AdmissionFits

\* Nothing is reserved while no region is past the queue.
LEMMA NothingPending ==
    ASSUME LaneInv, StreamInv, current, StillRequested = {}
    PROVE  pending = 0
<1>1. Held \subseteq ToSet(details)
  BY DEF LaneInv, OneOutstanding, StillRequested
<1>2. upload.phase = "idle" /\ publications = <<>>
  <2>1. CASE details = <<>>
    <3>1. Held = {}
      BY <1>1, <2>1, None
    <3> QED  BY <3>1, Exclusive, Contents
  <2>2. CASE Len(details) = 1
    BY <2>2, Exclusive
  <2> QED  BY <2>1, <2>2, Exclusive
<1>3. RetiredBytes(<<>>) = 0
  <2>1. <<>> \in Seq(Sent)
    OBVIOUS
  <2> QED  BY <2>1, SentFacts, RetiredSums
<1> QED  BY <1>2, <1>3 DEF StreamInv, Ledger

\* When a frame claims to be complete, none of the foremost regions its view
\* still misses would fit beside what is kept.
THEOREM CompleteFramesAreBest == Spec => CompleteIsBest
<1>1. ASSUME LaneInv, StreamInv, [Next]_vars,
             tick = "frame", tick' = "budget", ~detailPending',
             NEW r \in Foremost(Visible \ resident)
      PROVE  Census(resident, fullTextures, <<>>) - HeldBytes(resident \ Visible)
                 + Cost[r] > target
  <2>0. Scene /\ Places /\ Ledger
    BY <1>1 DEF StreamInv
  <2>1. RenderOneFrame
    BY <1>1 DEF Next, Render, UpdateBudget, TakePublication, NoPublication,
       FinishFrame, ResumeDetail, Replay, TakeRequest, DeliverRegion, EndReplay,
       ReplayUnchanged, FailReplay, Upload, TakeTask, Reserve, CopyRegion,
       Publish, UploadUnchanged, MoveCamera, ChangeBudget, OutsideUnchanged,
       SetFailure, vars
  <2>2. RequestVisibleDetail /\ current
    BY <1>1, <2>1, <2>0 DEF RenderOneFrame, Places
  <2> DEFINE candidates == FirstOf(Visible \ (resident \union StillRequested))
             affordable == {q \in candidates :
                                Cost[q] <= Less(target, base + pending)}
             unseen == resident \ Visible
             asks == StillRequested = {} /\ affordable # {}
             evicts == /\ StillRequested = {} /\ affordable = {}
                       /\ candidates # {} /\ unseen # {}
  <2>3. /\ requested' = {} /\ ~evicts
        /\ ~WaitingForRetiredCapacity(candidates)
    BY <1>1, <2>2 DEF RequestVisibleDetail
  <2>4. StillRequested = {} /\ ToSet(details') = {}
    BY <2>2, <2>3 DEF RequestVisibleDetail
  <2>5. r \in candidates /\ r \in Visible
    BY <1>1, <2>4 DEF Foremost, FirstOf
  <2>6. retired' = <<>> /\ retired' = retired
    BY <2>2, <2>3, <2>5 DEF RequestVisibleDetail, WaitingForRetiredCapacity
  <2>7. affordable = {}
    <3>1. asks => \E q \in affordable : details' = <<q>>
      BY <2>2 DEF RequestVisibleDetail
    <3>2. \A q : ToSet(<<q>>) # {}
      BY DEF ToSet
    <3> QED  BY <2>4, <3>1, <3>2
  <2>8. unseen = {}
    BY <2>3, <2>4, <2>5, <2>7
  <2>9. ~(Cost[r] <= Less(target, base + pending))
    BY <2>5, <2>7
  <2>10. pending = 0
    BY <1>1, <2>2, <2>4, NothingPending
  <2>11. /\ base \in Nat /\ target \in Nat
         /\ base = Census(resident, fullTextures, <<>>)
    BY <2>0, <2>6, CensusTypes DEF Ledger
  <2>12. Cost[r] \in Nat
    BY <2>5, StreamingAssumption DEF Visible
  <2>13. HeldBytes(resident \ Visible) = 0
    <3>1. HeldBytes({}) = 0
      <4>1. HeldBytes({}) = Total(MeshBytes, {})
        BY DEF HeldBytes, Total
      <4> QED  BY <4>1, TotalEmpty
    <3> QED  BY <2>8, <3>1
  <2> HIDE DEF unseen, affordable, candidates
  <2> QED  BY <2>9, <2>10, <2>11, <2>12, <2>13 DEF Less
<1>2. LaneInv /\ StreamInv /\ [Next]_vars =>
        [tick = "frame" /\ tick' = "budget" /\ ~detailPending' =>
            \A r \in Foremost(Visible \ resident) :
                Census(resident, fullTextures, <<>>) - HeldBytes(resident \ Visible)
                    + Cost[r] > target]_vars
  BY <1>1
<1>3. LaneInv /\ [Next]_vars => LaneInv'
  BY PlacesStep, LaneStep DEF LaneInv
<1> QED  BY <1>2, <1>3, LaneInit, StreamInvariant, PTL DEF Spec, CompleteIsBest

\* What passes no other place: program counters, the bounds, the flags.
Flags ==
    /\ tick \in {"budget", "publication", "frame"}
    /\ replay \in {"idle", "asking", "ended"}
    /\ requests \in 0 .. MaxRequests /\ changes \in 0 .. MaxChanges
    /\ view \in Views
    /\ paused \in BOOLEAN /\ detailPending \in BOOLEAN /\ budgetFailed \in BOOLEAN
    /\ failures \subseteq {"budget", "detail", "import"}

\* They stay what they are.
LEMMA FlagsStep == Flags /\ [Next]_vars => Flags'
<1> SUFFICES ASSUME Flags, [Next]_vars PROVE Flags'
  OBVIOUS
<1>0. MaxRequests \in Nat /\ MaxChanges \in Nat
  BY StreamingAssumption
<1> USE DEF Flags
<1>1. CASE UpdateBudget
  BY <1>1 DEF UpdateBudget, ReportExhaustion
<1>2. CASE TakePublication
  BY <1>2 DEF TakePublication
<1>3. CASE RenderOneFrame
  BY <1>3 DEF RenderOneFrame, RequestVisibleDetail, WaitingForRetiredCapacity
<1>4. CASE TakeRequest
  BY <1>0, <1>4 DEF TakeRequest, ReplayUnchanged
<1>5. CASE DeliverRegion \/ EndReplay
  BY <1>5 DEF DeliverRegion, EndReplay, ReplayUnchanged
<1>6. CASE FailReplay
  BY <1>0, <1>6 DEF FailReplay
<1>7. CASE CopyRegion
  <2>1. changes' \in 0 .. MaxChanges
    <3>1. \/ changes' = changes
          \/ changes < MaxChanges /\ changes' = changes + 1
      <4>1. PICK ok \in {current} \union
                       (IF Faults /\ changes < MaxChanges THEN {FALSE} ELSE {}) :
              changes' = IF current /\ ~ok THEN changes + 1 ELSE changes
        BY <1>7 DEF CopyRegion
      <4>2. CASE ok = current
        BY <4>1, <4>2
      <4>3. CASE ok # current
        BY <4>1, <4>3
      <4> QED  BY <4>2, <4>3
    <3> QED  BY <1>0, <3>1
  <2> QED  BY <1>7, <2>1 DEF CopyRegion, UploadUnchanged
<1>8. CASE TakeTask \/ Reserve \/ Publish
  BY <1>8 DEF TakeTask, Reserve, Publish, UploadUnchanged
<1>9. CASE MoveCamera
  BY <1>0, <1>9 DEF MoveCamera, OutsideUnchanged
<1>11. CASE ChangeBudget
  BY <1>0, <1>11 DEF ChangeBudget, OutsideUnchanged
<1>10. CASE NoPublication \/ FinishFrame \/ ResumeDetail \/ SetFailure \/ UNCHANGED vars
  BY <1>10 DEF NoPublication, FinishFrame, ResumeDetail, SetFailure, vars
<1> QED  BY <1>1, <1>2, <1>3, <1>4, <1>5, <1>6, <1>7, <1>8, <1>9, <1>10,
            <1>11 DEF Next, Render, Replay, Upload

\* Every variable has its type: no count of bytes goes below zero, no entry
\* waits for more frames than the GPU can have.
THEOREM StreamingTypes == Spec => []TypeOK
<1>1. Init => Flags /\ ParentsFollow
  <2>1. Init => ParentsFollow
    BY DEF Init, ParentsFollow
  <2>2. MaxRequests \in Nat /\ MaxChanges \in Nat
    BY StreamingAssumption
  <2>3. Init => Flags
    <3>1. Init => /\ tick = "budget" /\ replay = "idle" /\ requests = 0
                  /\ changes = 0 /\ view \in Views /\ failures = {}
                  /\ paused = FALSE /\ detailPending = TRUE /\ budgetFailed = FALSE
      BY DEF Init
    <3>2. 0 \in 0 .. MaxRequests /\ 0 \in 0 .. MaxChanges
      BY <2>2
    <3> QED  BY <3>1, <3>2 DEF Flags
  <2> QED  BY <2>1, <2>3
<1>2. StreamInv /\ Flags /\ ParentsFollow => TypeOK
  <2> SUFFICES ASSUME StreamInv, Flags, ParentsFollow PROVE TypeOK
    OBVIOUS
  <2>0. Scene /\ Places /\ Ledger
    BY DEF StreamInv
  <2>1. base \in Nat /\ target \in Nat /\ mandatory \in Nat
    BY <2>0, CensusTypes DEF Ledger
  <2>2. pending \in Nat
    <3>1. RetiredBytes(publications) \in Nat /\ upload.bytes \in Nat
      BY <2>0, SentFacts, RetiredIsTotal DEF Places, Uploads
    <3> QED  BY <2>0, <3>1 DEF Ledger
  <2>3. retired \in Seq([regions : SUBSET Regions, bytes : Nat,
                         after : 0 .. FrameSlots])
    BY <2>0 DEF Scene, Entries
  <2>4. coarseDrawn \subseteq Regions
    BY DEF ParentsFollow
  <2> QED  BY <2>0, <2>1, <2>2, <2>3, <2>4
           DEF TypeOK, Flags, Scene, Places, Ledger
<1> QED  BY <1>1, <1>2, FlagsStep, ParentsStep, StreamInvariant, PTL DEF Spec

=============================================================================
