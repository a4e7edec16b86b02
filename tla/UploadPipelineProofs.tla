----------------------- MODULE UploadPipelineProofs -----------------------
(* Proofs about UploadPipeline, for every bound on events and batches and
   every size of the queue.                                                 *)
EXTENDS UploadPipeline, FoldLemmas

InboxFields ==
    {"tasks", "publications", "count", "gen", "token", "stopped", "gpuPending"}

\* The inbox serves the newest open or nobody.
ServesNewest ==
    /\ generation \in Nat
    /\ DOMAIN inbox = InboxFields
    /\ inbox.gen \in {0, generation}

\* Tasks of an import, or terminal markers of whatever generation.
Tasks ==
    {t \in [gen : Nat, batch : Nat, gpu : {0, 1}, ok : BOOLEAN] :
        t.batch # 0 => t.gen # 0}

\* What is queued, held by the upload thread and published.
QueuesHoldTasks ==
    /\ produced \in [Generations -> Nat]
    /\ inbox.tasks \in Seq(Tasks) /\ inbox.publications \in Seq(Tasks)
    /\ task \in Tasks

\* What is staged belongs to the one generation it is staged for.
StageIsOfOne ==
    /\ staged.gen \in Nat /\ DOMAIN staged = {"gen", "batches", "failed"}
    /\ staged.batches \in Seq({staged.gen} \X Nat)
    /\ DOMAIN scene = {"gen", "batches"}
    /\ scene.batches \in Seq(Nat \X Nat)

(* What appending to a sequence adds to its range.                          *)
LEMMA RangeOfAppend ==
  ASSUME NEW S, NEW s \in Seq(S), NEW e \in S
  PROVE  /\ Append(s, e) \in Seq(S)
         /\ Range(Append(s, e)) = Range(s) \cup {e}
<1>1. Append(s, e) \in Seq(S) /\ DOMAIN Append(s, e) = 1 .. Len(s) + 1
  OBVIOUS
<1>2. /\ \A i \in 1 .. Len(s) : Append(s, e)[i] = s[i]
      /\ Append(s, e)[Len(s) + 1] = e
  OBVIOUS
<1>3. DOMAIN s = 1 .. Len(s) /\ Len(s) \in Nat
  OBVIOUS
<1>4. 1 .. Len(s) + 1 = (1 .. Len(s)) \cup {Len(s) + 1}
  BY <1>3
<1> QED
  BY <1>1, <1>2, <1>3, <1>4 DEF Range

(* The rest of a sequence is a sequence over the same set.                  *)
LEMMA TailOfSeq ==
  ASSUME NEW S, NEW s \in Seq(S), s # <<>>
  PROVE  Tail(s) \in Seq(S)
  OBVIOUS

(* CancelUploads leaves an inbox that serves nobody and holds nothing.      *)
LEMMA EmptiedInbox ==
  ASSUME DOMAIN inbox = InboxFields
  PROVE  /\ DOMAIN Emptied(inbox) = InboxFields
         /\ Emptied(inbox).gen = 0
         /\ Emptied(inbox).tasks = <<>> /\ Emptied(inbox).publications = <<>>
  BY DEF InboxFields, Emptied

(* A terminal marker of a generation in Nat, and a batch pushed by the import
   of a generation, are tasks.                                              *)
LEMMA ItemsAreTasks ==
  /\ \A g \in Nat : Item(g, 0) \in Tasks
  /\ \A g \in Generations, b \in Nat : Item(g, b) \in Tasks
<1>1. \A g \in Generations : g \in Nat /\ g # 0
  BY PipelineAssumption DEF PipelineAssumption, Generations, MaxGeneration
<1> QED
  BY <1>1 DEF Item, Tasks

\* What every change of generation or failure does on the UI thread.
UiOpens ==
    /\ generation' \in {generation, generation + 1}
    /\ inbox' = Emptied(inbox)
    /\ UNCHANGED <<produced, task>>

(* An emptied inbox is right for every generation.                          *)
LEMMA EmptyingIsRight ==
  ASSUME ServesNewest, QueuesHoldTasks, UiOpens
  PROVE  ServesNewest' /\ QueuesHoldTasks'
<1>1. /\ DOMAIN inbox' = InboxFields /\ inbox'.gen = 0
      /\ inbox'.tasks = <<>> /\ inbox'.publications = <<>>
  BY EmptiedInbox DEF ServesNewest, UiOpens
<1>2. ServesNewest'
  BY <1>1 DEF ServesNewest, UiOpens
<1>3. QueuesHoldTasks'
  BY <1>1 DEF QueuesHoldTasks, UiOpens
<1> QED
  BY <1>2, <1>3

(* Handling a message cancels the uploads, leaves the inbox alone, or queues
   the terminal marker of the newest open.                                  *)
LEMMA MessageEffects ==
  ASSUME HandleMessage
  PROVE  \/ UiOpens
         \/ UNCHANGED <<generation, inbox, produced, task>>
         \/ FinishImport(generation) /\ UNCHANGED <<generation, produced, task>>
<1>1. UNCHANGED <<produced, task>>
  BY DEF HandleMessage, uploadVars
<1> DEFINE m == Head(messages)
<1>2. \/ HandleUploadComplete(m)
      \/ HandleRecovery(m)
      \/ HandleImportComplete(m)
  BY DEF HandleMessage
<1>3. CASE HandleUploadComplete(m)
  BY <1>1, <1>3 DEF HandleUploadComplete, Fail, UiOpens
<1>4. CASE HandleRecovery(m)
  BY <1>1, <1>4 DEF HandleRecovery, BeginOpen, StartOpening, Fail, UiOpens
<1>5. CASE HandleImportComplete(m)
  BY <1>1, <1>5
  DEF HandleImportComplete, CancelOpen, Fail, Ignored, UiOpens
<1> QED
  BY <1>2, <1>3, <1>4, <1>5

(* Taking a task moves the head of the queue into the upload thread's hands.  *)
LEMMA TakingIsRight ==
  ASSUME ServesNewest, QueuesHoldTasks, TakeTask
  PROVE  ServesNewest' /\ QueuesHoldTasks'
<1>1. UNCHANGED <<generation, produced>>
  BY DEF TakeTask, uiVars, importVars
<1>2. CASE UNCHANGED <<task, inbox>>
  BY <1>1, <1>2 DEF ServesNewest, QueuesHoldTasks
<1>3. CASE /\ inbox.tasks # <<>> /\ task' = Head(inbox.tasks)
           /\ inbox' = [inbox EXCEPT !.tasks = Tail(@)]
  <2>1. inbox'.tasks = Tail(inbox.tasks) /\ inbox'.gen = inbox.gen
        /\ inbox'.publications = inbox.publications
        /\ DOMAIN inbox' = DOMAIN inbox
    BY <1>3 DEF ServesNewest, InboxFields
  <2>2. inbox'.tasks \in Seq(Tasks) /\ task' \in Tasks
    BY <1>3, <2>1 DEF QueuesHoldTasks
  <2> QED
    BY <1>1, <2>1, <2>2 DEF ServesNewest, QueuesHoldTasks
<1> QED
  BY <1>2, <1>3 DEF TakeTask

(* Reserving and copying change only what the held task says of itself.     *)
LEMMA CopyingIsRight ==
  ASSUME ServesNewest, QueuesHoldTasks, Reserve \/ Copy
  PROVE  ServesNewest' /\ QueuesHoldTasks'
<1>1. UNCHANGED <<generation, produced>>
  BY DEF Reserve, Copy, uiVars, importVars
<1>2. /\ inbox'.tasks = inbox.tasks /\ inbox'.publications = inbox.publications
      /\ inbox'.gen = inbox.gen /\ DOMAIN inbox' = DOMAIN inbox
  BY DEF Reserve, Copy, ServesNewest, InboxFields
<1>3. task' \in Tasks
  BY DEF Reserve, Copy, QueuesHoldTasks, Tasks
<1> QED
  BY <1>1, <1>2, <1>3 DEF ServesNewest, QueuesHoldTasks

(* Publishing appends the held task or gives its charges back.              *)
LEMMA PublishingIsRight ==
  ASSUME ServesNewest, QueuesHoldTasks, Publish
  PROVE  ServesNewest' /\ QueuesHoldTasks'
<1>1. UNCHANGED <<generation, produced>>
  BY DEF Publish, uiVars, importVars
<1>2. task' \in Tasks
  BY DEF Publish, NoItem, Item, Tasks
<1>3. /\ inbox'.tasks = inbox.tasks
      /\ inbox'.publications \in {inbox.publications,
                                  Append(inbox.publications, task)}
      /\ inbox'.gen = inbox.gen /\ DOMAIN inbox' = DOMAIN inbox
  BY DEF Publish, Uncharge, ServesNewest, InboxFields
<1>4. /\ inbox.publications \in Seq(Tasks)
      /\ Append(inbox.publications, task) \in Seq(Tasks)
  BY RangeOfAppend DEF QueuesHoldTasks
<1>5. inbox'.publications \in Seq(Tasks)
  BY <1>3, <1>4
<1> QED
  BY <1>1, <1>2, <1>3, <1>5 DEF ServesNewest, QueuesHoldTasks

(* PumpUploads takes the head of the publications, whatever becomes of it.  *)
LEMMA PumpingIsRight ==
  ASSUME ServesNewest, QueuesHoldTasks, PumpUploads
  PROVE  ServesNewest' /\ QueuesHoldTasks'
<1>1. UNCHANGED <<generation, produced, task>>
  BY DEF PumpUploads, uiVars, importVars, uploadVars
<1>2. CASE UNCHANGED inbox
  BY <1>1, <1>2 DEF ServesNewest, QueuesHoldTasks
<1>3. CASE /\ inbox.publications # <<>>
           /\ inbox' = Uncharge([inbox EXCEPT !.publications = Tail(@)],
                                Head(inbox.publications))
  <2>1. /\ inbox'.tasks = inbox.tasks
        /\ inbox'.publications = Tail(inbox.publications)
        /\ inbox'.gen = inbox.gen /\ DOMAIN inbox' = DOMAIN inbox
    BY <1>3 DEF Uncharge, ServesNewest, InboxFields
  <2>2. Tail(inbox.publications) \in Seq(Tasks)
    BY <1>3, TailOfSeq DEF QueuesHoldTasks
  <2> QED
    BY <1>1, <2>1, <2>2 DEF ServesNewest, QueuesHoldTasks
<1>4. UNCHANGED inbox
      \/ /\ inbox.publications # <<>>
         /\ inbox' = Uncharge([inbox EXCEPT !.publications = Tail(@)],
                              Head(inbox.publications))
  BY DEF PumpUploads
<1> QED
  BY <1>2, <1>3, <1>4

(* An import thread queues batches of its own generation only.              *)
LEMMA PushingIsRight ==
  ASSUME ServesNewest, QueuesHoldTasks, NEW g \in Generations, ImportStep(g)
  PROVE  ServesNewest' /\ QueuesHoldTasks'
<1>1. UNCHANGED <<generation, task>>
  BY DEF ImportStep, ProduceBatch, PushBatch, ImportEnds, uiVars, uploadVars
<1>2. produced' \in [Generations -> Nat]
  <2>1. CASE ProduceBatch(g)
    BY <2>1 DEF ProduceBatch, QueuesHoldTasks
  <2>2. CASE PushBatch(g) \/ ImportEnds(g)
    BY <2>2 DEF PushBatch, ImportEnds, QueuesHoldTasks
  <2> QED
    BY <2>1, <2>2 DEF ImportStep
<1>3. CASE UNCHANGED inbox
  BY <1>1, <1>2, <1>3 DEF ServesNewest, QueuesHoldTasks
<1>4. CASE inbox' = [inbox EXCEPT !.tasks = Append(@, Item(g, produced[g])),
                                  !.count = @ + 1]
  <2>1. /\ inbox'.tasks = Append(inbox.tasks, Item(g, produced[g]))
        /\ inbox'.publications = inbox.publications
        /\ inbox'.gen = inbox.gen /\ DOMAIN inbox' = DOMAIN inbox
    BY <1>4 DEF ServesNewest, InboxFields
  <2>2. Item(g, produced[g]) \in Tasks
    BY ItemsAreTasks DEF QueuesHoldTasks
  <2> QED
    BY <1>1, <1>2, <2>1, <2>2 DEF ServesNewest, QueuesHoldTasks
<1> QED
  BY <1>3, <1>4 DEF ImportStep, ProduceBatch, PushBatch, ImportEnds

(* FinishImport queues a terminal marker of the newest open.                *)
LEMMA FinishingIsRight ==
  ASSUME ServesNewest, QueuesHoldTasks, FinishImport(generation),
         UNCHANGED <<generation, produced, task>>
  PROVE  ServesNewest' /\ QueuesHoldTasks'
<1>1. CASE UNCHANGED inbox
  BY <1>1 DEF ServesNewest, QueuesHoldTasks
<1>2. CASE inbox' = [inbox EXCEPT !.tasks = Append(@, Item(generation, 0))]
  <2>1. /\ inbox'.tasks = Append(inbox.tasks, Item(generation, 0))
        /\ inbox'.publications = inbox.publications
        /\ inbox'.gen = inbox.gen /\ DOMAIN inbox' = DOMAIN inbox
    BY <1>2 DEF ServesNewest, InboxFields
  <2>2. Item(generation, 0) \in Tasks
    BY ItemsAreTasks DEF ServesNewest
  <2> QED
    BY <2>1, <2>2 DEF ServesNewest, QueuesHoldTasks
<1> QED
  BY <1>1, <1>2 DEF FinishImport

(* What the window's handlers do to the inbox: it is emptied, and then
   armed for the newest open, or stopped.                                   *)
LEMMA UiIsRight ==
  ASSUME ServesNewest, QueuesHoldTasks,
         UserOpens \/ UserCancels \/ CloseWindow \/ UiStep
  PROVE  ServesNewest' /\ QueuesHoldTasks'
<1>1. CASE UserOpens
  BY <1>1, EmptyingIsRight
  DEF UserOpens, BeginOpen, StartOpening, Fail, uploadVars, UiOpens
<1>2. CASE UserCancels
  BY <1>2, EmptyingIsRight DEF UserCancels, CancelOpen, uploadVars, UiOpens
<1>3. CASE CloseWindow
  <2>1. /\ DOMAIN inbox' = InboxFields /\ inbox'.gen = 0
        /\ inbox'.tasks = <<>> /\ inbox'.publications = <<>>
    BY <1>3, EmptiedInbox DEF CloseWindow, ServesNewest, InboxFields
  <2>2. UNCHANGED <<generation, produced, task>>
    BY <1>3 DEF CloseWindow, uploadVars
  <2> QED
    BY <2>1, <2>2 DEF ServesNewest, QueuesHoldTasks
<1>4. CASE ArmImport
  <2>1. /\ inbox'.tasks = inbox.tasks
        /\ inbox'.publications = inbox.publications
        /\ inbox'.gen = generation /\ DOMAIN inbox' = DOMAIN inbox
    BY <1>4 DEF ArmImport, ServesNewest, InboxFields
  <2> QED
    BY <1>4, <2>1 DEF ArmImport, uploadVars, ServesNewest, QueuesHoldTasks
<1>5. CASE HandleMessage
  <2>1. CASE UiOpens
    BY <2>1, EmptyingIsRight
  <2>2. CASE UNCHANGED <<generation, inbox, produced, task>>
    BY <2>2 DEF ServesNewest, QueuesHoldTasks
  <2>3. CASE /\ FinishImport(generation)
             /\ UNCHANGED <<generation, produced, task>>
    BY <2>3, FinishingIsRight
  <2> QED
    BY <1>5, <2>1, <2>2, <2>3, MessageEffects
<1> QED
  BY <1>1, <1>2, <1>3, <1>4, <1>5 DEF UiStep

(* Losing, resetting and rebuilding the device empties the inbox, stops it,
   or leaves it serving nobody.                                             *)
LEMMA RecoveringIsRight ==
  ASSUME ServesNewest, QueuesHoldTasks,
         \/ FrameFindsLoss \/ ResizeFindsLoss \/ AnswerRequest \/ ResetDevice \/ RebuildDevice
         \/ LeaveLoop \/ JoinUpload \/ DeviceRemoved
  PROVE  ServesNewest' /\ QueuesHoldTasks'
<1>1. UNCHANGED <<generation, produced, task>>
  BY DEF FrameFindsLoss, ResizeFindsLoss, AnswerRequest, ResetDevice, RebuildDevice, LeaveLoop,
         JoinUpload, DeviceRemoved, uiVars, importVars, uploadVars
<1>2. \/ UNCHANGED inbox
      \/ inbox' = [Emptied(inbox) EXCEPT !.stopped = TRUE]
      \/ inbox' = [inbox EXCEPT !.stopped = FALSE, !.gen = 0, !.token = 0]
  BY DEF FrameFindsLoss, ResizeFindsLoss, AnswerRequest, StartRecovery, ResetDevice,
         RebuildDevice, LeaveLoop, JoinUpload, DeviceRemoved
<1>3. CASE UNCHANGED inbox
  BY <1>1, <1>3 DEF ServesNewest, QueuesHoldTasks
<1>4. CASE inbox' = [Emptied(inbox) EXCEPT !.stopped = TRUE]
  <2>1. /\ DOMAIN inbox' = InboxFields /\ inbox'.gen = 0
        /\ inbox'.tasks = <<>> /\ inbox'.publications = <<>>
    BY <1>4, EmptiedInbox DEF ServesNewest, InboxFields
  <2> QED
    BY <1>1, <2>1 DEF ServesNewest, QueuesHoldTasks
<1>5. CASE inbox' = [inbox EXCEPT !.stopped = FALSE, !.gen = 0, !.token = 0]
  <2>1. /\ inbox'.tasks = inbox.tasks
        /\ inbox'.publications = inbox.publications
        /\ inbox'.gen = 0 /\ DOMAIN inbox' = DOMAIN inbox
    BY <1>5 DEF ServesNewest, InboxFields
  <2> QED
    BY <1>1, <2>1 DEF ServesNewest, QueuesHoldTasks
<1> QED
  BY <1>2, <1>3, <1>4, <1>5

(* Every step of every thread keeps the inbox right.                        *)
LEMMA InboxStep ==
  ASSUME ServesNewest, QueuesHoldTasks, [Next]_vars
  PROVE  ServesNewest' /\ QueuesHoldTasks'
<1>1. CASE UNCHANGED vars
  BY <1>1 DEF vars, uiVars, importVars, uploadVars, ServesNewest,
              QueuesHoldTasks
<1>2. CASE UserOpens \/ UserCancels \/ CloseWindow \/ UiStep
  BY <1>2, UiIsRight
<1>3. CASE \E g \in Generations : ImportStep(g)
  BY <1>3, PushingIsRight
<1>4. CASE UploadStep
  BY <1>4, TakingIsRight, CopyingIsRight, PublishingIsRight DEF UploadStep
<1>5. CASE RenderStep \/ DeviceRemoved
  BY <1>5, PumpingIsRight, RecoveringIsRight DEF RenderStep
<1> QED
  BY <1>1, <1>2, <1>3, <1>4, <1>5 DEF Next

(* Only PumpUploads, the reset and the end of the render thread touch the
   scene or the stage.                                                      *)
LEMMA SceneUntouched ==
  ASSUME [Next]_vars, ~PumpUploads
  PROVE  /\ staged' = staged
         /\ \/ scene' = scene
            \/ scene' = [scene EXCEPT !.batches = <<>>]
  BY DEF Next, vars, UserOpens, UserCancels, CloseWindow, UiStep, ArmImport,
         HandleMessage, ImportStep, ProduceBatch, PushBatch, ImportEnds,
         UploadStep, TakeTask, Reserve, Copy, Publish, RenderStep,
         FrameFindsLoss, ResizeFindsLoss, AnswerRequest, ResetDevice, RebuildDevice, LeaveLoop,
         JoinUpload, DeviceRemoved, sceneVars

(* The stage a publication is added to holds only batches of its generation. *)
LEMMA StageForOne ==
  ASSUME StageIsOfOne, NEW g \in Nat
  PROVE  /\ DOMAIN StageFor(g) = {"gen", "batches", "failed"}
         /\ StageFor(g).gen = g
         /\ StageFor(g).batches \in Seq({g} \X Nat)
  BY DEF StageIsOfOne, StageFor, StageNow, EmptyStage

(* One more batch of generation g among batches of generation g.            *)
LEMMA AppendedBatches ==
  ASSUME NEW g \in Nat, NEW s \in Seq({g} \X Nat), NEW b \in {g} \X Nat
  PROVE  /\ Append(s, b) \in Seq({g} \X Nat)
         /\ Append(s, b) \in Seq(Nat \X Nat)
         /\ \A x \in Range(Append(s, b)) : x[1] = g
<1>1. Append(s, b) \in Seq({g} \X Nat)
  OBVIOUS
<1>2. {g} \X Nat \subseteq Nat \X Nat
  OBVIOUS
<1>3. Append(s, b) \in Seq(Nat \X Nat)
  BY <1>1, <1>2, SeqMonotonic
<1>4. \A x \in Range(Append(s, b)) : x[1] = g
  <2>1. Range(Append(s, b)) \subseteq {g} \X Nat
    BY <1>1, ElementOfSeq, LenProperties DEF Range
  <2> QED
    BY <2>1
<1> QED
  BY <1>1, <1>3, <1>4

(* Accepting a batch puts only batches of its generation on screen, and
   keeps the stage to that generation.                                      *)
LEMMA AcceptedIsOfOne ==
  ASSUME StageIsOfOne, NEW p \in Tasks, AcceptBatch(p)
  PROVE  /\ StageIsOfOne'
         /\ \A b \in Range(scene'.batches) \ Range(scene.batches) : b[1] = p.gen
<1> DEFINE st == StageFor(p.gen)
           batch == <<p.gen, p.batch>>
<1>1. /\ DOMAIN st = {"gen", "batches", "failed"} /\ st.gen = p.gen
      /\ st.batches \in Seq({p.gen} \X Nat)
  BY StageForOne DEF Tasks
<1>2. p.gen \in Nat /\ batch \in {p.gen} \X Nat /\ batch \in Nat \X Nat
  BY DEF Tasks
<1>3. batch[1] = p.gen
  OBVIOUS
<1>4. /\ DOMAIN scene = {"gen", "batches"}
      /\ scene.batches \in Seq(Nat \X Nat)
  BY DEF StageIsOfOne
<1> DEFINE onStage == Append(st.batches, batch)
           onScreen == Append(scene.batches, batch)
<1> HIDE DEF st, batch
<1>5. /\ onStage \in Seq({p.gen} \X Nat) /\ onStage \in Seq(Nat \X Nat)
      /\ \A b \in Range(onStage) : b[1] = p.gen
  <2> DEFINE g == p.gen
             s == st.batches
  <2>1. g \in Nat /\ s \in Seq({g} \X Nat) /\ batch \in {g} \X Nat
    BY <1>1, <1>2
  <2> HIDE DEF g, s
  <2>2. /\ Append(s, batch) \in Seq({g} \X Nat)
        /\ Append(s, batch) \in Seq(Nat \X Nat)
        /\ \A x \in Range(Append(s, batch)) : x[1] = g
    BY <2>1, AppendedBatches
  <2> QED
    BY <2>2 DEF g, s
<1>6. /\ onScreen \in Seq(Nat \X Nat)
      /\ Range(onScreen) = Range(scene.batches) \cup {batch}
  BY <1>2, <1>4, RangeOfAppend
<1> HIDE DEF onStage, onScreen
<1>7. PICK ready \in BOOLEAN, drawable \in BOOLEAN, faulty \in BOOLEAN :
        IF scene.gen = p.gen
        THEN /\ scene' = [scene EXCEPT !.batches = onScreen]
             /\ staged' = [st EXCEPT !.failed = @ \/ faulty]
        ELSE IF ready /\ drawable
        THEN /\ scene' = [gen |-> p.gen,
                          batches |-> [st EXCEPT !.batches = onStage].batches]
             /\ staged' = [st EXCEPT !.batches = <<>>, !.failed = @ \/ faulty]
        ELSE /\ staged' = [[st EXCEPT !.batches = onStage]
                              EXCEPT !.failed = @ \/ faulty]
             /\ UNCHANGED scene
  BY DEF AcceptBatch, Show, st, batch, onStage, onScreen
<1>8. CASE scene.gen = p.gen
  <2>1. /\ DOMAIN scene' = {"gen", "batches"} /\ scene'.batches = onScreen
    BY <1>4, <1>7, <1>8
  <2>2. /\ DOMAIN staged' = {"gen", "batches", "failed"}
        /\ staged'.gen = p.gen /\ staged'.batches = st.batches
    BY <1>1, <1>7, <1>8
  <2> QED
    BY <1>1, <1>2, <1>3, <1>6, <2>1, <2>2 DEF StageIsOfOne
<1>9. CASE scene.gen # p.gen /\ ready /\ drawable
  <2>1. /\ DOMAIN scene' = {"gen", "batches"} /\ scene'.batches = onStage
    BY <1>1, <1>7, <1>9
  <2>2. /\ DOMAIN staged' = {"gen", "batches", "failed"}
        /\ staged'.gen = p.gen /\ staged'.batches = <<>>
    BY <1>1, <1>7, <1>9
  <2> QED
    BY <1>2, <1>5, <2>1, <2>2 DEF StageIsOfOne
<1>10. CASE scene.gen # p.gen /\ ~(ready /\ drawable)
  <2>1. scene' = scene
    BY <1>7, <1>10
  <2>2. /\ DOMAIN staged' = {"gen", "batches", "failed"}
        /\ staged'.gen = p.gen /\ staged'.batches = onStage
    BY <1>1, <1>7, <1>10
  <2> QED
    BY <1>2, <1>4, <1>5, <2>1, <2>2 DEF StageIsOfOne
<1> QED
  BY <1>8, <1>9, <1>10

(* Every step keeps the stage to one generation and puts only batches of
   the newest open on screen.                                               *)
LEMMA StageStep ==
  ASSUME ServesNewest, QueuesHoldTasks, StageIsOfOne, [Next]_vars
  PROVE  /\ StageIsOfOne'
         /\ \A b \in Range(scene'.batches) \ Range(scene.batches) :
                b[1] = generation
<1>1. CASE ~PumpUploads
  <2>1. staged' = staged
    BY <1>1, SceneUntouched
  <2>2. \/ scene'.batches = scene.batches /\ DOMAIN scene' = DOMAIN scene
        \/ scene'.batches = <<>> /\ DOMAIN scene' = DOMAIN scene
    BY <1>1, SceneUntouched DEF StageIsOfOne
  <2>3. StageIsOfOne'
    <3>1. DOMAIN scene' = {"gen", "batches"}
      BY <2>2 DEF StageIsOfOne
    <3>2. scene.batches \in Seq(Nat \X Nat) /\ <<>> \in Seq(Nat \X Nat)
      BY EmptySeq DEF StageIsOfOne
    <3>3. scene'.batches \in Seq(Nat \X Nat)
      BY <2>2, <3>2
    <3> QED
      BY <2>1, <3>1, <3>3 DEF StageIsOfOne
  <2>4. Range(<<>>) = {}
    BY DEF Range
  <2> QED
    BY <2>2, <2>3, <2>4
<1>2. CASE PumpUploads /\ inbox.publications = <<>>
  <2>1. staged' = StageNow /\ scene' = scene
    BY <1>2 DEF PumpUploads
  <2> QED
    BY <2>1 DEF StageIsOfOne, StageNow, EmptyStage
<1>3. CASE PumpUploads /\ inbox.publications # <<>>
  <2> DEFINE p == Head(inbox.publications)
  <2>1. p \in Tasks
    BY <1>3 DEF QueuesHoldTasks
  <2>2. \/ ~Accepts(p) /\ staged' = StageNow /\ scene' = scene
        \/ AcceptTerminal(p)
        \/ Accepts(p) /\ ~Terminal(p) /\ AcceptBatch(p)
        \/ AcceptFailure(p)
    BY <1>3 DEF PumpUploads
  <2> HIDE DEF p
  <2>3. CASE staged' = StageNow /\ scene' = scene
    BY <2>3 DEF StageIsOfOne, StageNow, EmptyStage
  <2>4. CASE AcceptTerminal(p)
    <3>1. staged' = StageFor(p.gen) /\ scene' = scene
      BY <2>4 DEF AcceptTerminal
    <3>2. p.gen \in Nat
      BY <2>1 DEF Tasks
    <3>3. /\ DOMAIN staged' = {"gen", "batches", "failed"}
          /\ staged'.gen = p.gen /\ staged'.batches \in Seq({p.gen} \X Nat)
      BY <3>1, <3>2, StageForOne
    <3> QED
      BY <3>1, <3>2, <3>3 DEF StageIsOfOne
  <2>5. CASE Accepts(p) /\ ~Terminal(p) /\ AcceptBatch(p)
    <3>1. p.gen = generation
      BY <2>1, <2>5 DEF Accepts, Terminal, Tasks, ServesNewest
    <3> QED
      BY <2>1, <2>5, <3>1, AcceptedIsOfOne
  <2>6. CASE AcceptFailure(p)
    <3>1. staged' = [StageFor(p.gen) EXCEPT !.failed = TRUE] /\ scene' = scene
      BY <2>6 DEF AcceptFailure
    <3>2. p.gen \in Nat
      BY <2>1 DEF Tasks
    <3>3. /\ DOMAIN staged' = {"gen", "batches", "failed"}
          /\ staged'.gen = p.gen /\ staged'.batches \in Seq({p.gen} \X Nat)
      BY <3>1, <3>2, StageForOne
    <3> QED
      BY <3>1, <3>2, <3>3 DEF StageIsOfOne
  <2> QED
    BY <2>2, <2>3, <2>4, <2>5, <2>6
<1> QED
  BY <1>1, <1>2, <1>3

\* The inductive invariant.
Newest == ServesNewest /\ QueuesHoldTasks /\ StageIsOfOne

(* In every behaviour the inbox serves the newest open or nobody, and the
   stage holds batches of one generation (BeginImport and CancelUploads
   change the generation of the inbox, PumpUploads that of the stage).      *)
THEOREM NewestInvariant == Spec => []Newest
<1>1. Init => Newest
  <2> SUFFICES ASSUME Init PROVE Newest
    OBVIOUS
  <2>1. ServesNewest
    BY DEF Init, ServesNewest, InboxFields
  <2>2. NoItem \in Tasks
    BY DEF NoItem, Item, Tasks
  <2>3. QueuesHoldTasks
    BY <2>2 DEF Init, QueuesHoldTasks
  <2>4. StageIsOfOne
    BY DEF Init, StageIsOfOne, EmptyStage
  <2> QED
    BY <2>1, <2>3, <2>4 DEF Newest
<1>2. Newest /\ [Next]_vars => Newest'
  BY InboxStep, StageStep DEF Newest
<1> QED
  BY <1>1, <1>2, PTL DEF Spec

(* No batch of an older open ever reaches the screen: whatever PumpUploads
   adds to the scene was imported for the generation the UI thread opened
   last.                                                                    *)
THEOREM NewestIsShown == Spec => OnlyNewestIsShown
<1>1. Newest /\ [Next]_vars
        => [\A b \in Range(scene'.batches) \ Range(scene.batches) :
               b[1] = generation]_vars
  BY StageStep DEF Newest
<1> QED
  BY <1>1, NewestInvariant, PTL DEF Spec, OnlyNewestIsShown
-----------------------------------------------------------------------------
(* The budgets.                                                             *)

\* Items with nothing reserved yet, as the sink and FinishImport queue them,
\* and items whose reservation is theirs to give back.
Fresh == {t \in Tasks : t.gpu = 0}
Settled == {t \in Tasks : t.batch = 0 => t.gpu = 0}

\* What counts against the queue's capacity, and against video memory.
Batches == {t \in Settled : t.batch # 0}
Charged == {t \in Settled : t.gpu = 1}

\* An import thread with a batch to push has produced it.
Imports ==
    /\ ipc \in [Generations -> {"none", "run", "push", "done"}]
    /\ produced \in [Generations -> 0 .. MaxBatches]
    /\ \A g \in Generations : ipc[g] = "push" => produced[g] # 0

\* The shape of what the threads hold, with the two budgets.
Budgets ==
    /\ inbox.tasks \in Seq(Fresh) /\ inbox.publications \in Seq(Settled)
    /\ task \in Settled
    /\ upc \in {"wait", "reserve", "copy", "publish", "ended", "joined"}
    /\ upc \in {"wait", "ended", "joined"} => task = NoItem
    /\ upc \in {"reserve", "copy"} => task.batch # 0
    /\ upc = "reserve" => task.gpu = 0
    /\ rpc = "rebuild" => upc = "joined"
    /\ inbox.count \in 0 .. CountCap
    /\ BudgetsBalance

(* Queued and Reserved count occurrences; the lemmas on counts apply.        *)
LEMMA BudgetCounts ==
  /\ \A s \in Seq(Settled) : /\ Queued(s) = Count(s, Batches) /\ Queued(s) \in Nat
                             /\ Reserved(s) = Count(s, Charged) /\ Reserved(s) \in Nat
                             /\ Reserved(s) <= Queued(s)
  /\ Seq(Fresh) \subseteq Seq(Settled)
  /\ Fresh \subseteq Settled
<1>1. Fresh \subseteq Settled
  BY DEF Fresh, Settled
<1>2. Seq(Fresh) \subseteq Seq(Settled)
  BY <1>1, SeqMonotonic
<1>3. ASSUME NEW s \in Seq(Settled)
      PROVE  /\ Queued(s) = Count(s, Batches) /\ Queued(s) \in Nat
             /\ Reserved(s) = Count(s, Charged) /\ Reserved(s) \in Nat
             /\ Reserved(s) <= Queued(s)
  <2>1. \A i \in DOMAIN s : s[i] \in Settled
    BY ElementOfSeq, LenProperties
  <2>2. Queued(s) = Count(s, Batches)
    BY <2>1 DEF Queued, Count, Marked, Batches, Terminal
  <2>3. Reserved(s) = Count(s, Charged)
    BY <2>1 DEF Reserved, Count, Marked, Charged
  <2>4. \A i \in DOMAIN s : s[i] \in Charged => s[i] \in Batches
    BY <2>1 DEF Charged, Batches, Settled
  <2>5. Count(s, Batches) \in Nat /\ Count(s, Charged) \in Nat
        /\ Count(s, Charged) <= Count(s, Batches)
    BY <2>4, CountType
  <2> QED
    BY <2>2, <2>3, <2>5
<1> QED
  BY <1>1, <1>2, <1>3

(* An item more, an item less.                                              *)
LEMMA BudgetMoves ==
  ASSUME NEW s \in Seq(Settled)
  PROVE  /\ Queued(<<>>) = 0 /\ Reserved(<<>>) = 0
         /\ \A t \in Settled :
               /\ Append(s, t) \in Seq(Settled)
               /\ Queued(Append(s, t)) = Queued(s) + (IF Terminal(t) THEN 0 ELSE 1)
               /\ Reserved(Append(s, t)) = Reserved(s) + t.gpu
         /\ s # <<>> =>
               /\ Head(s) \in Settled /\ Tail(s) \in Seq(Settled)
               /\ Queued(s) = Queued(Tail(s)) + (IF Terminal(Head(s)) THEN 0 ELSE 1)
               /\ Reserved(s) = Reserved(Tail(s)) + Head(s).gpu
<1>1. /\ <<>> \in Seq(Settled)
      /\ Count(<<>>, Batches) = 0 /\ Count(<<>>, Charged) = 0
  BY CountType
<1>2. \A t \in Settled : /\ (t \in Batches <=> ~Terminal(t))
                         /\ t.gpu = IF t \in Charged THEN 1 ELSE 0
  BY DEF Batches, Charged, Terminal, Settled, Tasks
<1>3. ASSUME NEW t \in Settled
      PROVE  /\ Append(s, t) \in Seq(Settled)
             /\ Queued(Append(s, t)) = Queued(s) + (IF Terminal(t) THEN 0 ELSE 1)
             /\ Reserved(Append(s, t)) = Reserved(s) + t.gpu
  <2>1. Append(s, t) \in Seq(Settled)
    BY RangeOfAppend
  <2>2. /\ Count(Append(s, t), Batches)
             = Count(s, Batches) + (IF t \in Batches THEN 1 ELSE 0)
        /\ Count(Append(s, t), Charged)
             = Count(s, Charged) + (IF t \in Charged THEN 1 ELSE 0)
    BY CountAppend
  <2>3. /\ Queued(Append(s, t)) = Count(Append(s, t), Batches)
        /\ Reserved(Append(s, t)) = Count(Append(s, t), Charged)
        /\ Queued(s) = Count(s, Batches) /\ Reserved(s) = Count(s, Charged)
    BY <2>1, BudgetCounts
  <2>4. (t \in Batches <=> ~Terminal(t)) /\ t.gpu = IF t \in Charged THEN 1 ELSE 0
    BY <1>2
  <2> QED
    BY <2>1, <2>2, <2>3, <2>4
<1>4. ASSUME s # <<>>
      PROVE  /\ Head(s) \in Settled /\ Tail(s) \in Seq(Settled)
             /\ Queued(s) = Queued(Tail(s)) + (IF Terminal(Head(s)) THEN 0 ELSE 1)
             /\ Reserved(s) = Reserved(Tail(s)) + Head(s).gpu
  <2>1. Head(s) \in Settled /\ Tail(s) \in Seq(Settled)
    BY <1>4, HeadTailProperties
  <2>2. /\ Count(s, Batches)
             = Count(Tail(s), Batches) + (IF Head(s) \in Batches THEN 1 ELSE 0)
        /\ Count(s, Charged)
             = Count(Tail(s), Charged) + (IF Head(s) \in Charged THEN 1 ELSE 0)
    BY <1>4, CountTail
  <2>3. /\ Queued(Tail(s)) = Count(Tail(s), Batches)
        /\ Reserved(Tail(s)) = Count(Tail(s), Charged)
        /\ Queued(s) = Count(s, Batches) /\ Reserved(s) = Count(s, Charged)
    BY <2>1, BudgetCounts
  <2>4. /\ Head(s) \in Batches <=> ~Terminal(Head(s))
        /\ Head(s).gpu = IF Head(s) \in Charged THEN 1 ELSE 0
    BY <1>2, <2>1
  <2> QED
    BY <2>1, <2>2, <2>3, <2>4
<1> QED
  BY <1>1, <1>3, <1>4, BudgetCounts

(* What the upload thread holds, without the comparison with NoItem.         *)
LEMMA HeldIs == Held = IF Terminal(task) THEN 0 ELSE 1
  BY DEF Held, Terminal, NoItem, Item

(* CancelUploads leaves charged exactly what the upload thread holds.        *)
LEMMA EmptiedBudget ==
  ASSUME Budgets, ServesNewest, UNCHANGED <<task, upc>>,
         \/ inbox' = Emptied(inbox)
         \/ inbox' = [Emptied(inbox) EXCEPT !.stopped = TRUE],
         rpc' = "rebuild" => rpc = "rebuild"
  PROVE  Budgets'
<1>1. /\ inbox'.tasks = <<>> /\ inbox'.publications = <<>>
      /\ inbox'.count = inbox.count - Queued(inbox.tasks) - Queued(inbox.publications)
      /\ inbox'.gpuPending = inbox.gpuPending - Reserved(inbox.publications)
  BY DEF Emptied, PendingAfterCancel, ServesNewest, InboxFields
<1>2. /\ Queued(inbox.tasks) \in Nat /\ Queued(inbox.publications) \in Nat
      /\ Reserved(inbox.publications) \in Nat
      /\ Held \in {0, 1} /\ task.gpu \in {0, 1}
  BY BudgetCounts, HeldIs DEF Budgets, Settled, Tasks
<1>3. Queued(<<>>) = 0 /\ Reserved(<<>>) = 0
  BY BudgetMoves DEF Budgets
<1>4. /\ inbox'.count = Held /\ inbox'.gpuPending = task.gpu
  BY <1>1, <1>2 DEF Budgets, BudgetsBalance
<1>5. Held' = Held
  BY DEF Held
<1>6. BudgetsBalance'
  BY <1>1, <1>2, <1>3, <1>4, <1>5 DEF BudgetsBalance
<1>7. inbox'.count \in 0 .. CountCap
  BY <1>2, <1>4, PipelineAssumption
<1> QED
  BY <1>1, <1>6, <1>7 DEF Budgets

(* What touches neither the queues nor the counts keeps them.                *)
LEMMA SameBudget ==
  ASSUME Budgets, UNCHANGED <<task, upc>>,
         inbox'.tasks = inbox.tasks, inbox'.publications = inbox.publications,
         inbox'.count = inbox.count, inbox'.gpuPending = inbox.gpuPending,
         rpc' = "rebuild" => rpc = "rebuild"
  PROVE  Budgets'
  BY DEF Budgets, BudgetsBalance, Held

(* The terminal marker takes no place in the queue.                          *)
LEMMA MarkerBudget ==
  ASSUME Budgets, ServesNewest, FinishImport(generation),
         UNCHANGED <<task, upc, rpc>>
  PROVE  Budgets'
<1>1. CASE UNCHANGED inbox
  BY <1>1, SameBudget
<1>2. CASE inbox' = [inbox EXCEPT !.tasks = Append(@, Item(generation, 0))]
  <2> DEFINE t == Item(generation, 0)
  <2>1. /\ inbox'.tasks = Append(inbox.tasks, t)
        /\ inbox'.publications = inbox.publications
        /\ inbox'.count = inbox.count /\ inbox'.gpuPending = inbox.gpuPending
    BY <1>2 DEF ServesNewest, InboxFields
  <2>2. t \in Fresh /\ t \in Settled /\ Terminal(t)
    <3>1. t \in Tasks
      BY ItemsAreTasks DEF ServesNewest
    <3> QED
      BY <3>1 DEF Fresh, Settled, Terminal, Item
  <2> HIDE DEF t
  <2>3. Append(inbox.tasks, t) \in Seq(Fresh)
    BY <2>2, RangeOfAppend DEF Budgets
  <2>4. Queued(Append(inbox.tasks, t)) = Queued(inbox.tasks)
        /\ Queued(inbox.tasks) \in Nat
    <3>1. inbox.tasks \in Seq(Settled)
      BY BudgetCounts DEF Budgets
    <3>2. Queued(Append(inbox.tasks, t)) = Queued(inbox.tasks) + 0
      BY <2>2, <3>1, BudgetMoves
    <3> QED
      BY <3>1, <3>2, BudgetCounts
  <2>5. Held' = Held
    BY DEF Held
  <2> QED
    BY <2>1, <2>3, <2>4, <2>5 DEF Budgets, BudgetsBalance
<1> QED
  BY <1>1, <1>2 DEF FinishImport

(* The sink queues a batch only while there is room for it.                  *)
LEMMA PushBudget ==
  ASSUME Budgets, ServesNewest, QueuesHoldTasks, Imports,
         NEW g \in Generations, ImportStep(g)
  PROVE  Budgets'
<1>1. UNCHANGED <<task, upc, rpc>>
  BY DEF ImportStep, ProduceBatch, PushBatch, ImportEnds, uploadVars
<1>2. CASE UNCHANGED inbox
  BY <1>1, <1>2, SameBudget
<1>3. CASE /\ HasRoom
           /\ inbox' = [inbox EXCEPT !.tasks = Append(@, Item(g, produced[g])),
                                     !.count = @ + 1]
           /\ ipc[g] = "push"
  <2> DEFINE t == Item(g, produced[g])
  <2>1. /\ inbox'.tasks = Append(inbox.tasks, t)
        /\ inbox'.publications = inbox.publications
        /\ inbox'.count = inbox.count + 1 /\ inbox'.gpuPending = inbox.gpuPending
    BY <1>3 DEF ServesNewest, InboxFields
  <2>2. t \in Fresh /\ t \in Settled
    <3>1. t \in Tasks
      BY ItemsAreTasks DEF QueuesHoldTasks
    <3> QED
      BY <3>1 DEF Fresh, Settled, Item
  <2>3. ~Terminal(t)
    BY <1>3 DEF Terminal, Item, Imports
  <2> HIDE DEF t
  <2>4. Append(inbox.tasks, t) \in Seq(Fresh)
    BY <2>2, RangeOfAppend DEF Budgets
  <2>5. /\ Queued(Append(inbox.tasks, t)) = Queued(inbox.tasks) + 1
        /\ Queued(inbox.tasks) \in Nat /\ Queued(inbox.publications) \in Nat
    <3>1. inbox.tasks \in Seq(Settled) /\ inbox.publications \in Seq(Settled)
      BY BudgetCounts DEF Budgets
    <3>2. Queued(Append(inbox.tasks, t)) = Queued(inbox.tasks) + 1
      BY <2>2, <2>3, <3>1, BudgetMoves
    <3> QED
      BY <3>1, <3>2, BudgetCounts
  <2>6. Held' = Held /\ Held \in Nat
    BY <1>1, HeldIs DEF Held
  <2>7. inbox'.count \in 0 .. CountCap
    BY <1>3, <2>1, PipelineAssumption DEF HasRoom, Budgets
  <2>8. BudgetsBalance'
    BY <1>1, <2>1, <2>5, <2>6 DEF Budgets, BudgetsBalance
  <2> QED
    BY <1>1, <2>1, <2>4, <2>7, <2>8 DEF Budgets
<1> QED
  BY <1>2, <1>3 DEF ImportStep, ProduceBatch, PushBatch, ImportEnds

(* What an import thread has produced it pushes or drops.                    *)
LEMMA ImportsStep ==
  ASSUME Imports, [Next]_vars
  PROVE  Imports'
<1>1. CASE ArmImport
  BY <1>1 DEF ArmImport, Imports
<1>2. CASE \E g \in Generations : ImportStep(g)
  <2>1. PICK g \in Generations : ImportStep(g)
    BY <1>2
  <2>2. CASE ProduceBatch(g)
    <3>1. /\ produced' = [produced EXCEPT ![g] = @ + 1]
          /\ ipc' = [ipc EXCEPT ![g] = "push"]
          /\ produced[g] < MaxBatches /\ produced[g] \in Nat /\ MaxBatches \in Nat
      BY <2>2, PipelineAssumption DEF ProduceBatch, Imports
    <3>2. produced[g] + 1 \in 0 .. MaxBatches /\ produced[g] + 1 # 0
      BY <3>1
    <3>3. produced' \in [Generations -> 0 .. MaxBatches]
      BY <3>1, <3>2 DEF Imports
    <3>4. \A h \in Generations : ipc'[h] = "push" => produced'[h] # 0
      BY <3>1, <3>2 DEF Imports
    <3>5. ipc' \in [Generations -> {"none", "run", "push", "done"}]
      BY <3>1 DEF Imports
    <3> QED
      BY <3>3, <3>4, <3>5 DEF Imports
  <2>3. CASE PushBatch(g)
    BY <2>3 DEF PushBatch, Imports
  <2>4. CASE ImportEnds(g)
    BY <2>4 DEF ImportEnds, Imports
  <2> QED
    BY <2>1, <2>2, <2>3, <2>4 DEF ImportStep
<1>3. CASE UNCHANGED <<ipc, produced>>
  BY <1>3 DEF Imports
<1>4. CASE \/ UserOpens \/ UserCancels \/ CloseWindow \/ HandleMessage
           \/ UploadStep \/ RenderStep \/ DeviceRemoved \/ UNCHANGED vars
  <2>1. UNCHANGED <<ipc, produced>>
    BY <1>4 DEF UserOpens, UserCancels, CloseWindow, HandleMessage, UploadStep,
       TakeTask, Reserve, Copy, Publish, RenderStep, PumpUploads, FrameFindsLoss, ResizeFindsLoss,
       AnswerRequest, ResetDevice, RebuildDevice, LeaveLoop, JoinUpload,
       DeviceRemoved, vars, importVars
  <2> QED
    BY <1>3, <2>1
<1> QED
  BY <1>1, <1>2, <1>4 DEF Next, UiStep

(* Taking a task moves its charge from the queue to the upload thread.       *)
LEMMA TakeBudget ==
  ASSUME Budgets, ServesNewest, TakeTask
  PROVE  Budgets'
<1>1. /\ upc = "wait" /\ task = NoItem /\ UNCHANGED rpc
  BY DEF TakeTask, Budgets
<1>2. CASE upc' = "ended" /\ UNCHANGED <<task, inbox>>
  BY <1>1, <1>2 DEF Budgets, BudgetsBalance, Held
<1>3. CASE /\ inbox.tasks # <<>> /\ task' = Head(inbox.tasks)
           /\ inbox' = [inbox EXCEPT !.tasks = Tail(@)]
           /\ upc' = IF Terminal(Head(inbox.tasks)) THEN "publish" ELSE "reserve"
  <2>1. /\ inbox'.tasks = Tail(inbox.tasks)
        /\ inbox'.publications = inbox.publications
        /\ inbox'.count = inbox.count /\ inbox'.gpuPending = inbox.gpuPending
    BY <1>3 DEF ServesNewest, InboxFields
  <2>2. Head(inbox.tasks) \in Fresh /\ Tail(inbox.tasks) \in Seq(Fresh)
    BY <1>3, HeadTailProperties DEF Budgets
  <2>3. task' \in Settled /\ task'.gpu = 0
    BY <1>3, <2>2 DEF Fresh, Settled
  <2>4. inbox.tasks \in Seq(Settled) /\ inbox.publications \in Seq(Settled)
    BY BudgetCounts DEF Budgets
  <2>5. /\ Queued(inbox.tasks)
             = Queued(Tail(inbox.tasks)) + (IF Terminal(task') THEN 0 ELSE 1)
        /\ Queued(inbox.tasks) \in Nat /\ Queued(Tail(inbox.tasks)) \in Nat
        /\ Queued(inbox.publications) \in Nat
    <3>1. Tail(inbox.tasks) \in Seq(Settled)
      BY <1>3, <2>4, BudgetMoves
    <3> QED
      BY <1>3, <2>4, <3>1, BudgetMoves, BudgetCounts
  <2>6. Held = 0 /\ Held' = IF Terminal(task') THEN 0 ELSE 1
    BY <1>1 DEF Held, Terminal, NoItem, Item
  <2>7. task.gpu = 0
    BY <1>1 DEF NoItem, Item
  <2>8. BudgetsBalance'
    BY <2>1, <2>3, <2>5, <2>6, <2>7 DEF Budgets, BudgetsBalance
  <2>9. ~Terminal(task') => task'.batch # 0
    BY DEF Terminal
  <2> QED
    BY <1>1, <1>3, <2>1, <2>2, <2>3, <2>8, <2>9 DEF Budgets
<1> QED
  BY <1>2, <1>3 DEF TakeTask

(* A reservation is charged with the task that holds it.                     *)
LEMMA ReserveBudget ==
  ASSUME Budgets, ServesNewest, Reserve \/ Copy
  PROVE  Budgets'
<1>0. /\ task \in Settled /\ task.batch # 0 /\ UNCHANGED rpc
      /\ DOMAIN task = {"gen", "batch", "gpu", "ok"}
  BY DEF Reserve, Copy, Budgets, Settled, Tasks
<1>1. CASE UNCHANGED <<inbox>> /\ upc' = "publish"
           /\ task' \in {task, [task EXCEPT !.ok = FALSE]}
  <2>1. /\ task' \in Settled /\ task'.batch = task.batch /\ task'.gpu = task.gpu
    BY <1>0, <1>1 DEF Settled, Tasks
  <2>2. Held' = Held
    BY <1>0, <2>1, HeldIs DEF Held, Terminal, NoItem, Item
  <2>3. BudgetsBalance'
    BY <1>1, <2>1, <2>2 DEF Budgets, BudgetsBalance
  <2>4. rpc' # "rebuild"
    BY <1>0 DEF Budgets, Reserve, Copy
  <2> QED
    BY <1>0, <1>1, <2>1, <2>3, <2>4 DEF Budgets
<1>2. CASE /\ upc = "reserve" /\ upc' = "copy" /\ task' = [task EXCEPT !.gpu = 1]
           /\ inbox' = [inbox EXCEPT !.gpuPending = @ + 1]
  <2>1. /\ task' \in Settled /\ task'.batch = task.batch /\ task'.gpu = 1
        /\ task.gpu = 0
    BY <1>0, <1>2 DEF Settled, Tasks, Budgets
  <2>2. /\ inbox'.tasks = inbox.tasks /\ inbox'.publications = inbox.publications
        /\ inbox'.count = inbox.count /\ inbox'.gpuPending = inbox.gpuPending + 1
    BY <1>2 DEF ServesNewest, InboxFields
  <2>3. Held' = Held
    BY <1>0, <2>1, HeldIs DEF Held, Terminal, NoItem, Item
  <2>4. Reserved(inbox.publications) \in Nat
    BY BudgetCounts DEF Budgets
  <2>5. BudgetsBalance'
    BY <2>1, <2>2, <2>3, <2>4 DEF Budgets, BudgetsBalance
  <2>6. rpc' # "rebuild"
    BY <1>0 DEF Budgets, Reserve, Copy
  <2> QED
    BY <1>0, <1>2, <2>1, <2>2, <2>5, <2>6 DEF Budgets
<1> QED
  BY <1>1, <1>2 DEF Reserve, Copy

(* Giving back what an item is charged with.                                 *)
LEMMA UnchargedFields ==
  ASSUME NEW i, DOMAIN i = InboxFields, NEW t \in Settled
  PROVE  LET j == Uncharge(i, t) IN
         /\ j.tasks = i.tasks /\ j.publications = i.publications
         /\ t.batch = 0 => j.count = i.count /\ j.gpuPending = i.gpuPending
         /\ t.batch # 0 => j.count = i.count - 1
                           /\ j.gpuPending = i.gpuPending - t.gpu
  BY DEF Uncharge, Terminal, InboxFields

(* Publishing passes the charge on; a stale task gives it back.              *)
LEMMA PublishBudget ==
  ASSUME Budgets, ServesNewest, Publish
  PROVE  Budgets'
<1>1. /\ upc' = "wait" /\ task' = NoItem /\ UNCHANGED rpc /\ upc = "publish"
      /\ task \in Settled /\ task.gpu \in {0, 1} /\ task'.gpu = 0
      /\ task.batch = 0 => task.gpu = 0
  BY DEF Publish, Budgets, Settled, Tasks, NoItem, Item
<1>2. Held = IF task.batch = 0 THEN 0 ELSE 1
  BY HeldIs DEF Terminal
<1>3. Held' = 0
  BY <1>1 DEF Held
<1>4. /\ Queued(inbox.tasks) \in Nat /\ Queued(inbox.publications) \in Nat
      /\ Reserved(inbox.publications) \in Nat
      /\ inbox.publications \in Seq(Settled)
  BY BudgetCounts DEF Budgets
<1>t. NoItem \in Settled
  BY DEF NoItem, Item, Settled, Tasks
<1>5. CASE inbox' = [inbox EXCEPT !.publications = Append(@, task)]
  <2>1. /\ inbox'.tasks = inbox.tasks
        /\ inbox'.publications = Append(inbox.publications, task)
        /\ inbox'.count = inbox.count /\ inbox'.gpuPending = inbox.gpuPending
    BY <1>5 DEF ServesNewest, InboxFields
  <2>2. /\ Append(inbox.publications, task) \in Seq(Settled)
        /\ Queued(Append(inbox.publications, task))
             = Queued(inbox.publications) + Held
        /\ Reserved(Append(inbox.publications, task))
             = Reserved(inbox.publications) + task.gpu
    BY <1>1, <1>4, BudgetMoves, HeldIs
  <2>3. BudgetsBalance'
    BY <1>1, <1>2, <1>3, <1>4, <2>1, <2>2 DEF Budgets, BudgetsBalance
  <2> QED
    BY <1>1, <1>t, <2>1, <2>2, <2>3 DEF Budgets
<1>6. CASE inbox' = Uncharge(inbox, task)
  <2>1. /\ inbox'.tasks = inbox.tasks /\ inbox'.publications = inbox.publications
        /\ task.batch = 0 => /\ inbox'.count = inbox.count
                             /\ inbox'.gpuPending = inbox.gpuPending
        /\ task.batch # 0 => /\ inbox'.count = inbox.count - 1
                             /\ inbox'.gpuPending = inbox.gpuPending - task.gpu
    BY <1>1, <1>6, UnchargedFields DEF ServesNewest
  <2>2. BudgetsBalance'
    BY <1>1, <1>2, <1>3, <1>4, <2>1 DEF Budgets, BudgetsBalance
  <2>3. inbox'.count \in 0 .. CountCap
    BY <1>2, <1>4, <2>1, PipelineAssumption DEF Budgets, BudgetsBalance
  <2> QED
    BY <1>1, <1>t, <2>1, <2>2, <2>3 DEF Budgets
<1> QED
  BY <1>5, <1>6 DEF Publish

(* What is taken from the publications gives its charge back.                *)
LEMMA PumpBudget ==
  ASSUME Budgets, ServesNewest, PumpUploads
  PROVE  Budgets'
<1>1. UNCHANGED <<task, upc, rpc>> /\ Held' = Held
  BY DEF PumpUploads, uploadVars, Held
<1>2. CASE UNCHANGED inbox
  BY <1>1, <1>2, SameBudget
<1>3. CASE /\ inbox.publications # <<>>
           /\ inbox' = Uncharge([inbox EXCEPT !.publications = Tail(@)],
                                Head(inbox.publications))
  <2> DEFINE p == Head(inbox.publications)
             i == [inbox EXCEPT !.publications = Tail(@)]
  <2>1. /\ inbox.publications \in Seq(Settled)
        /\ p \in Settled /\ Tail(inbox.publications) \in Seq(Settled)
        /\ Queued(inbox.publications)
             = Queued(Tail(inbox.publications)) + (IF Terminal(p) THEN 0 ELSE 1)
        /\ Reserved(inbox.publications)
             = Reserved(Tail(inbox.publications)) + p.gpu
    BY <1>3, BudgetMoves DEF Budgets
  <2>2. /\ i.tasks = inbox.tasks /\ i.publications = Tail(inbox.publications)
        /\ i.count = inbox.count /\ i.gpuPending = inbox.gpuPending
        /\ DOMAIN i = InboxFields
    BY DEF ServesNewest, InboxFields
  <2>3. p.gpu \in {0, 1} /\ (p.batch = 0 => p.gpu = 0)
    BY <2>1 DEF Settled, Tasks
  <2>n. /\ Queued(inbox.tasks) \in Nat /\ Queued(Tail(inbox.publications)) \in Nat
        /\ Reserved(Tail(inbox.publications)) \in Nat
    BY <2>1, BudgetCounts DEF Budgets
  <2>t. task.gpu \in Nat
    BY DEF Budgets, Settled, Tasks
  <2>h. Held \in Nat
    BY HeldIs
  <2>e. inbox' = Uncharge(i, p)
    BY <1>3
  <2> HIDE DEF p, i
  <2>4. /\ inbox'.tasks = inbox.tasks
        /\ inbox'.publications = Tail(inbox.publications)
        /\ p.batch = 0 => /\ inbox'.count = inbox.count
                          /\ inbox'.gpuPending = inbox.gpuPending
        /\ p.batch # 0 => /\ inbox'.count = inbox.count - 1
                          /\ inbox'.gpuPending = inbox.gpuPending - p.gpu
    BY <2>1, <2>2, <2>e, UnchargedFields
  <2>b. /\ inbox.count = Queued(inbox.tasks) + Queued(inbox.publications) + Held
        /\ inbox.gpuPending = Reserved(inbox.publications) + task.gpu
        /\ inbox.count \in Nat /\ inbox.count <= CountCap
        /\ CountCap \in Nat
    BY PipelineAssumption DEF Budgets, BudgetsBalance
  <2>c. /\ inbox'.count = Queued(inbox.tasks)
                          + Queued(Tail(inbox.publications)) + Held
        /\ inbox'.gpuPending = Reserved(Tail(inbox.publications)) + task.gpu
    <3>1. CASE p.batch = 0
      BY <2>1, <2>3, <2>4, <2>n, <2>t, <2>h, <2>b, <3>1 DEF Terminal
    <3>2. CASE p.batch # 0
      <4>1. /\ Queued(inbox.publications)
                 = Queued(Tail(inbox.publications)) + 1
            /\ p.gpu \in Nat
        BY <2>1, <2>3, <3>2 DEF Terminal
      <4>2. /\ inbox'.count = inbox.count - 1
            /\ inbox'.gpuPending = inbox.gpuPending - p.gpu
        BY <2>4, <3>2
      <4>3. inbox'.count = Queued(inbox.tasks)
                           + Queued(Tail(inbox.publications)) + Held
        BY <2>b, <2>n, <2>h, <4>1, <4>2
      <4>4. inbox'.gpuPending = Reserved(Tail(inbox.publications)) + task.gpu
        BY <2>1, <2>b, <2>n, <2>t, <4>1, <4>2
      <4> QED
        BY <4>3, <4>4
    <3> QED
      BY <3>1, <3>2
  <2>5. BudgetsBalance'
    BY <1>1, <2>4, <2>c DEF BudgetsBalance
  <2>6. inbox'.count \in 0 .. CountCap
    <3>1. Queued(inbox.publications) \in Nat
          /\ Queued(Tail(inbox.publications)) <= Queued(inbox.publications)
      BY <2>1, <2>n DEF Terminal
    <3> QED
      BY <3>1, <2>c, <2>b, <2>n, <2>h
  <2> QED
    BY <1>1, <2>1, <2>4, <2>5, <2>6 DEF Budgets
<1> QED
  BY <1>2, <1>3 DEF PumpUploads

(* Recovery empties the inbox once and rebuilds with nothing held.           *)
LEMMA RecoveryBudget ==
  ASSUME Budgets, ServesNewest,
         \/ FrameFindsLoss \/ ResizeFindsLoss \/ AnswerRequest \/ ResetDevice \/ RebuildDevice
         \/ LeaveLoop \/ JoinUpload \/ DeviceRemoved
  PROVE  Budgets'
<1>1. CASE FrameFindsLoss \/ ResizeFindsLoss \/ AnswerRequest
  <2>1. /\ UNCHANGED <<task, upc>> /\ rpc' # "rebuild"
        /\ \E next \in {"join", "loop"} : StartRecovery(next)
    BY <1>1 DEF FrameFindsLoss, ResizeFindsLoss, AnswerRequest, StartRecovery, uploadVars
  <2>2. CASE UNCHANGED inbox
    BY <2>1, <2>2, SameBudget
  <2>3. CASE inbox' = [Emptied(inbox) EXCEPT !.stopped = TRUE]
    BY <2>1, <2>3, EmptiedBudget
  <2> QED
    BY <2>1, <2>2, <2>3 DEF StartRecovery
<1>2. CASE ResetDevice
  <2>1. /\ inbox'.tasks = inbox.tasks /\ inbox'.publications = inbox.publications
        /\ inbox'.count = inbox.count /\ inbox'.gpuPending = inbox.gpuPending
    BY <1>2 DEF ResetDevice, ServesNewest, InboxFields
  <2>2. upc = "ended" /\ upc' = "joined" /\ task' = task
    BY <1>2 DEF ResetDevice
  <2> QED
    BY <2>1, <2>2 DEF Budgets, BudgetsBalance, Held
<1>3. CASE RebuildDevice
  <2>1. UNCHANGED <<task, inbox>> /\ upc = "joined" /\ task = NoItem
        /\ upc' \in {"wait", "joined"} /\ rpc' # "rebuild"
    BY <1>3 DEF RebuildDevice, Budgets
  <2> QED
    BY <2>1 DEF Budgets, BudgetsBalance, Held
<1>4. CASE LeaveLoop \/ JoinUpload \/ DeviceRemoved
  <2>1. UNCHANGED <<task, upc, inbox>> /\ (rpc' = "rebuild" => rpc = "rebuild")
    BY <1>4 DEF LeaveLoop, JoinUpload, DeviceRemoved, uploadVars
  <2> QED
    BY <2>1, SameBudget
<1> QED
  BY <1>1, <1>2, <1>3, <1>4

(* What the window's thread does to the budgets.                             *)
LEMMA UiBudget ==
  ASSUME Budgets, ServesNewest, UserOpens \/ UserCancels \/ CloseWindow \/ UiStep
  PROVE  Budgets'
<1>1. UNCHANGED <<task, upc, rpc>>
  BY DEF UserOpens, UserCancels, CloseWindow, UiStep, ArmImport, HandleMessage,
         uploadVars
<1>2. CASE \/ inbox' = Emptied(inbox)
           \/ inbox' = [Emptied(inbox) EXCEPT !.stopped = TRUE]
  BY <1>1, <1>2, EmptiedBudget
<1>3. CASE UNCHANGED inbox
  BY <1>1, <1>3, SameBudget
<1>4. CASE UserOpens \/ UserCancels \/ CloseWindow
  BY <1>2, <1>3, <1>4 DEF UserOpens, BeginOpen, StartOpening, Fail, UserCancels,
     CancelOpen, CloseWindow
<1>5. CASE ArmImport
  <2>1. /\ inbox'.tasks = inbox.tasks /\ inbox'.publications = inbox.publications
        /\ inbox'.count = inbox.count /\ inbox'.gpuPending = inbox.gpuPending
    BY <1>5 DEF ArmImport, ServesNewest, InboxFields
  <2> QED
    BY <1>1, <2>1, SameBudget
<1>6. CASE HandleMessage
  <2>1. \/ inbox' = Emptied(inbox)
        \/ UNCHANGED inbox
        \/ FinishImport(generation)
    BY <1>6, MessageEffects DEF UiOpens
  <2> QED
    BY <1>1, <1>2, <1>3, <2>1, MarkerBudget
<1> QED
  BY <1>4, <1>5, <1>6 DEF UiStep

\* What the budgets rest on.
BudgetInv == Newest /\ Imports /\ Budgets

(* In every behaviour each charge has its item: what is queued, held or
   published accounts for both counts, through CancelUploads in the middle of
   a copy, failures, superseded generations and the recovery of the device.  *)
THEOREM BudgetsInvariant == Spec => []BudgetInv
<1>1. Init => Imports /\ Budgets
  <2> SUFFICES ASSUME Init PROVE Imports /\ Budgets
    OBVIOUS
  <2>1. MaxBatches \in Nat /\ CountCap \in Nat
    BY PipelineAssumption
  <2>2. Imports
    BY <2>1 DEF Init, Imports
  <2>3. /\ inbox.tasks = <<>> /\ inbox.publications = <<>>
        /\ inbox.count = 0 /\ inbox.gpuPending = 0
        /\ task = NoItem /\ upc = "wait" /\ rpc = "loop"
    BY DEF Init
  <2>4. Queued(<<>>) = 0 /\ Reserved(<<>>) = 0
    <3>1. <<>> \in Seq(Settled)
      OBVIOUS
    <3> QED
      BY <3>1, BudgetMoves
  <2>5. NoItem \in Settled /\ NoItem.gpu = 0
    BY DEF NoItem, Item, Settled, Tasks
  <2>6. Held = 0
    BY <2>3 DEF Held
  <2>7. BudgetsBalance
    BY <2>3, <2>4, <2>5, <2>6 DEF BudgetsBalance
  <2>8. Budgets
    BY <2>1, <2>3, <2>5, <2>7 DEF Budgets
  <2> QED
    BY <2>2, <2>8
<1>2. ASSUME Newest, Imports, Budgets, [Next]_vars
      PROVE  Budgets'
  <2>0. ServesNewest /\ QueuesHoldTasks
    BY <1>2 DEF Newest
  <2>1. CASE UNCHANGED vars
    BY <1>2, <2>1, SameBudget DEF vars, uploadVars
  <2>2. CASE UserOpens \/ UserCancels \/ CloseWindow \/ UiStep
    BY <1>2, <2>0, <2>2, UiBudget
  <2>3. CASE \E g \in Generations : ImportStep(g)
    BY <1>2, <2>0, <2>3, PushBudget
  <2>4. CASE UploadStep
    BY <1>2, <2>0, <2>4, TakeBudget, ReserveBudget, PublishBudget DEF UploadStep
  <2>5. CASE RenderStep \/ DeviceRemoved
    BY <1>2, <2>0, <2>5, PumpBudget, RecoveryBudget DEF RenderStep
  <2> QED
    BY <1>2, <2>1, <2>2, <2>3, <2>4, <2>5 DEF Next
<1>3. Imports /\ [Next]_vars => Imports'
  BY ImportsStep
<1>4. Imports /\ Budgets /\ Newest /\ [Next]_vars => Budgets'
  BY <1>2
<1> QED
  BY <1>1, <1>3, <1>4, NewestInvariant, PTL DEF Spec, BudgetInv

(* Nothing is given back twice and nothing stays charged.                    *)
THEOREM BudgetsAreBalanced == Spec => []BudgetsBalance
<1>1. BudgetInv => BudgetsBalance
  BY DEF BudgetInv, Budgets
<1> QED
  BY <1>1, BudgetsInvariant, PTL
-----------------------------------------------------------------------------
(* The way of an import's batches.                                          *)

\* Place k of the batches on the way: batch k, or after the n batches pushed
\* a marker of an import that has ended.
Slot(n, phase, k, t) ==
    IF k <= n THEN t.batch = k ELSE t.batch = 0 /\ phase = "done"

\* The batches 1 .. n of generation g, in order: first those that have arrived
\* (shown), then what is published (pubs), what the upload thread holds (hand
\* is 1 when it holds something of g), and what is queued.
InLine(g, shown, pubs, hand, held, queue, n, phase) ==
    LET a == Len(shown)
        p == Len(pubs)
    IN /\ a <= n /\ \A b \in 1 .. a : shown[b] = <<g, b>>
       /\ \A i \in 1 .. p : Slot(n, phase, a + i, pubs[i])
       /\ hand = 1 => Slot(n, phase, a + p + 1, held)
       /\ \A i \in 1 .. Len(queue) : Slot(n, phase, a + p + hand + i, queue[i])
       /\ a + p + hand + Len(queue) >= n

(* A batch pushed takes the next place.                                     *)
LEMMA LinePush ==
  ASSUME NEW g, NEW shown \in Seq(Nat \X Nat), NEW pubs \in Seq(Tasks),
         NEW hand \in {0, 1}, NEW held, NEW queue \in Seq(Tasks), NEW n \in Nat,
         NEW phase, InLine(g, shown, pubs, hand, held, queue, n, phase),
         NEW t \in Tasks, t.batch = n + 1, phase # "done", NEW ph
  PROVE  InLine(g, shown, pubs, hand, held, Append(queue, t), n + 1, ph)
<1> DEFINE a == Len(shown)
           p == Len(pubs)
           q == Len(queue)
<1>c. /\ a \in Nat /\ p \in Nat /\ q \in Nat
      /\ a <= n /\ \A b \in 1 .. a : shown[b] = <<g, b>>
      /\ \A i \in 1 .. p : Slot(n, phase, a + i, pubs[i])
      /\ hand = 1 => Slot(n, phase, a + p + 1, held)
      /\ \A i \in 1 .. q : Slot(n, phase, a + p + hand + i, queue[i])
      /\ a + p + hand + q >= n
  BY LenProperties DEF InLine
<1> DEFINE s == Append(queue, t)
<1>1. /\ Len(s) = q + 1 /\ s[q + 1] = t
      /\ \A i \in 1 .. q : s[i] = queue[i]
  BY AppendProperties
<1>h. hand \in {0, 1}
  OBVIOUS
<1>o. \A k \in Nat : \A x : Slot(n, phase, k, x) => k <= n /\ x.batch = k
  BY DEF Slot
<1> HIDE DEF s, a, p, q
<1>2. a + p + hand + q = n
  <2>1. CASE q # 0
    <3>0. /\ q \in 1 .. q
          /\ \A i \in 1 .. q : Slot(n, phase, a + p + hand + i, queue[i])
      BY <1>c, <2>1
    <3>1. Slot(n, phase, a + p + hand + q, queue[q])
      BY <3>0
    <3>2. a + p + hand + q \in Nat
      BY <1>c, <1>h
    <3>3. a + p + hand + q <= n
      BY <1>o, <3>1, <3>2
    <3>4. a + p + hand + q >= n
      BY <1>c
    <3> QED
      BY <3>2, <3>3, <3>4
  <2>2. CASE q = 0 /\ hand = 1
    <3>1. Slot(n, phase, a + p + 1, held) /\ a + p + 1 \in Nat
      BY <1>c, <2>2
    <3>2. a + p + 1 <= n
      BY <1>o, <3>1
    <3>3. a + p + hand + q >= n /\ a + p + hand + q = a + p + 1
      BY <1>c, <2>2
    <3> QED
      BY <3>1, <3>2, <3>3
  <2>3. CASE q = 0 /\ hand = 0 /\ p # 0
    <3>1. Slot(n, phase, a + p, pubs[p]) /\ a + p \in Nat
      BY <1>c, <2>3
    <3>2. a + p <= n
      BY <1>o, <3>1
    <3>3. a + p + hand + q >= n /\ a + p + hand + q = a + p
      BY <1>c, <2>3
    <3> QED
      BY <3>1, <3>2, <3>3
  <2>4. CASE q = 0 /\ hand = 0 /\ p = 0
    <3>1. a + p + hand + q >= n /\ a + p + hand + q = a /\ a <= n
      BY <1>c, <2>4
    <3> QED
      BY <1>c, <3>1
  <2> QED
    BY <1>h, <2>1, <2>2, <2>3, <2>4
<1>n. \A k \in Nat : \A x : k <= n /\ x.batch = k => Slot(n + 1, ph, k, x)
  BY DEF Slot
<1>3. \A i \in 1 .. p : Slot(n + 1, ph, a + i, pubs[i])
  <2> SUFFICES ASSUME NEW i \in 1 .. p
               PROVE  Slot(n + 1, ph, a + i, pubs[i])
    OBVIOUS
  <2>1. a + i \in Nat /\ Slot(n, phase, a + i, pubs[i])
    BY <1>c
  <2> QED
    BY <1>o, <1>n, <2>1
<1>4. hand = 1 => Slot(n + 1, ph, a + p + 1, held)
  <2>1. a + p + 1 \in Nat
    BY <1>c
  <2> QED
    BY <1>c, <1>o, <1>n, <2>1
<1>5. \A i \in 1 .. q + 1 : Slot(n + 1, ph, a + p + hand + i, s[i])
  <2> SUFFICES ASSUME NEW i \in 1 .. q + 1
               PROVE  Slot(n + 1, ph, a + p + hand + i, s[i])
    OBVIOUS
  <2>1. CASE i = q + 1
    <3>1. a + p + hand + i = n + 1 /\ s[i] = t
      BY <1>c, <1>h, <1>1, <1>2, <2>1
    <3>2. Slot(n + 1, ph, n + 1, t)
      BY DEF Slot
    <3> QED
      BY <3>1, <3>2
  <2>2. CASE i \in 1 .. q
    <3>1. /\ a + p + hand + i \in Nat /\ s[i] = queue[i]
          /\ Slot(n, phase, a + p + hand + i, queue[i])
      BY <1>c, <1>h, <1>1, <2>2
    <3> QED
      BY <1>o, <1>n, <3>1
  <2> QED
    BY <1>c, <2>1, <2>2
<1>6. a <= n + 1 /\ a + p + hand + (q + 1) >= n + 1
  BY <1>c, <1>h, <1>2
<1> QED
  BY <1>c, <1>1, <1>3, <1>4, <1>5, <1>6 DEF InLine, s, a, p, q

(* The marker comes last.                                                   *)
LEMMA LineMarker ==
  ASSUME NEW g, NEW shown \in Seq(Nat \X Nat), NEW pubs \in Seq(Tasks),
         NEW hand \in {0, 1}, NEW held, NEW queue \in Seq(Tasks), NEW n \in Nat,
         NEW phase, InLine(g, shown, pubs, hand, held, queue, n, phase),
         NEW t \in Tasks, t.batch = 0, phase = "done"
  PROVE  InLine(g, shown, pubs, hand, held, Append(queue, t), n, phase)
<1> DEFINE a == Len(shown)
           p == Len(pubs)
           q == Len(queue)
<1>c. /\ a \in Nat /\ p \in Nat /\ q \in Nat
      /\ a <= n /\ \A b \in 1 .. a : shown[b] = <<g, b>>
      /\ \A i \in 1 .. p : Slot(n, phase, a + i, pubs[i])
      /\ hand = 1 => Slot(n, phase, a + p + 1, held)
      /\ \A i \in 1 .. q : Slot(n, phase, a + p + hand + i, queue[i])
      /\ a + p + hand + q >= n
  BY LenProperties DEF InLine
<1> DEFINE s == Append(queue, t)
<1>1. /\ Len(s) = q + 1 /\ s[q + 1] = t
      /\ \A i \in 1 .. q : s[i] = queue[i]
  BY AppendProperties
<1> HIDE DEF s, a, p, q
<1>2. \A i \in 1 .. q + 1 : Slot(n, phase, a + p + hand + i, s[i])
  <2> SUFFICES ASSUME NEW i \in 1 .. q + 1
               PROVE  Slot(n, phase, a + p + hand + i, s[i])
    OBVIOUS
  <2>1. CASE i = q + 1
    <3>1. a + p + hand + i \in Nat /\ a + p + hand + i > n /\ s[i] = t
      BY <1>c, <1>1, <2>1
    <3> QED
      BY <3>1 DEF Slot
  <2>2. CASE i \in 1 .. q
    BY <1>c, <1>1, <2>2
  <2> QED
    BY <1>c, <2>1, <2>2
<1> QED
  BY <1>c, <1>1, <1>2 DEF InLine, s, a, p, q

(* The upload thread takes the head of the queue.                           *)
LEMMA LineTake ==
  ASSUME NEW g, NEW shown \in Seq(Nat \X Nat), NEW pubs \in Seq(Tasks),
         NEW hand \in {0, 1}, NEW held, NEW queue \in Seq(Tasks), NEW n \in Nat,
         NEW phase, InLine(g, shown, pubs, hand, held, queue, n, phase),
         hand = 0, queue # <<>>
  PROVE  InLine(g, shown, pubs, 1, Head(queue), Tail(queue), n, phase)
<1> DEFINE a == Len(shown)
           p == Len(pubs)
           q == Len(queue)
<1>c. /\ a \in Nat /\ p \in Nat /\ q \in Nat
      /\ a <= n /\ \A b \in 1 .. a : shown[b] = <<g, b>>
      /\ \A i \in 1 .. p : Slot(n, phase, a + i, pubs[i])
      /\ hand = 1 => Slot(n, phase, a + p + 1, held)
      /\ \A i \in 1 .. q : Slot(n, phase, a + p + hand + i, queue[i])
      /\ a + p + hand + q >= n
  BY LenProperties DEF InLine
<1> DEFINE s == Tail(queue)
           t == Head(queue)
<1>1. /\ Len(s) = q - 1 /\ q >= 1 /\ t = queue[1]
      /\ \A i \in 1 .. q - 1 : s[i] = queue[i + 1]
  BY <1>c, HeadTailProperties, LenProperties
<1> HIDE DEF s, t
<1>2. Slot(n, phase, a + p + 1, t)
  BY <1>c, <1>1
<1>3. \A i \in 1 .. q - 1 : Slot(n, phase, a + p + 1 + i, s[i])
  <2> SUFFICES ASSUME NEW i \in 1 .. q - 1
               PROVE  Slot(n, phase, a + p + 1 + i, s[i])
    OBVIOUS
  <2>1. i + 1 \in 1 .. q /\ a + p + hand + (i + 1) = a + p + 1 + i
    BY <1>c
  <2> QED
    BY <1>c, <1>1, <2>1
<1> QED
  BY <1>c, <1>1, <1>2, <1>3 DEF InLine, s, t

(* What it held is published.                                               *)
LEMMA LinePublish ==
  ASSUME NEW g, NEW shown \in Seq(Nat \X Nat), NEW pubs \in Seq(Tasks),
         NEW hand \in {0, 1}, NEW held, NEW queue \in Seq(Tasks), NEW n \in Nat,
         NEW phase, InLine(g, shown, pubs, hand, held, queue, n, phase),
         held \in Tasks, hand = 1, NEW t
  PROVE  InLine(g, shown, Append(pubs, held), 0, t, queue, n, phase)
<1> DEFINE a == Len(shown)
           p == Len(pubs)
           q == Len(queue)
<1>c. /\ a \in Nat /\ p \in Nat /\ q \in Nat
      /\ a <= n /\ \A b \in 1 .. a : shown[b] = <<g, b>>
      /\ \A i \in 1 .. p : Slot(n, phase, a + i, pubs[i])
      /\ hand = 1 => Slot(n, phase, a + p + 1, held)
      /\ \A i \in 1 .. q : Slot(n, phase, a + p + hand + i, queue[i])
      /\ a + p + hand + q >= n
  BY LenProperties DEF InLine
<1> DEFINE s == Append(pubs, held)
<1>1. /\ Len(s) = p + 1 /\ s[p + 1] = held
      /\ \A i \in 1 .. p : s[i] = pubs[i]
  BY AppendProperties
<1> HIDE DEF s
<1>2. \A i \in 1 .. p + 1 : Slot(n, phase, a + i, s[i])
  <2> SUFFICES ASSUME NEW i \in 1 .. p + 1
               PROVE  Slot(n, phase, a + i, s[i])
    OBVIOUS
  <2>1. CASE i = p + 1
    <3>1. a + i = a + p + 1
      BY <1>c, <2>1
    <3> QED
      BY <1>c, <1>1, <2>1, <3>1
  <2>2. CASE i \in 1 .. p
    BY <1>c, <1>1, <2>2
  <2> QED
    BY <1>c, <2>1, <2>2
<1>3. \A i \in 1 .. q : Slot(n, phase, a + (p + 1) + 0 + i, queue[i])
  <2> SUFFICES ASSUME NEW i \in 1 .. q
               PROVE  Slot(n, phase, a + (p + 1) + 0 + i, queue[i])
    OBVIOUS
  <2>1. a + (p + 1) + 0 + i = a + p + hand + i
    BY <1>c
  <2> QED
    BY <1>c, <2>1
<1>4. a + (p + 1) + 0 + q >= n
  BY <1>c
<1>5. /\ \A i \in 1 .. Len(s) : Slot(n, phase, a + i, s[i])
      /\ \A i \in 1 .. q : Slot(n, phase, a + Len(s) + 0 + i, queue[i])
      /\ a + Len(s) + 0 + q >= n
  BY <1>1, <1>2, <1>3, <1>4
<1>6. a <= n /\ \A b \in 1 .. a : shown[b] = <<g, b>>
  BY <1>c
<1> QED
  BY SMTT(30), <1>5, <1>6 DEF InLine, s

(* A batch taken from the publications is the next to be shown.             *)
LEMMA LineAccept ==
  ASSUME NEW g, NEW shown \in Seq(Nat \X Nat), NEW pubs \in Seq(Tasks),
         NEW hand \in {0, 1}, NEW held, NEW queue \in Seq(Tasks), NEW n \in Nat,
         NEW phase, InLine(g, shown, pubs, hand, held, queue, n, phase),
         pubs # <<>>, Head(pubs).batch # 0
  PROVE  InLine(g, Append(shown, <<g, Head(pubs).batch>>), Tail(pubs),
         hand, held, queue, n, phase)
<1> DEFINE a == Len(shown)
           p == Len(pubs)
           q == Len(queue)
<1>c. /\ a \in Nat /\ p \in Nat /\ q \in Nat
      /\ a <= n /\ \A b \in 1 .. a : shown[b] = <<g, b>>
      /\ \A i \in 1 .. p : Slot(n, phase, a + i, pubs[i])
      /\ hand = 1 => Slot(n, phase, a + p + 1, held)
      /\ \A i \in 1 .. q : Slot(n, phase, a + p + hand + i, queue[i])
      /\ a + p + hand + q >= n
  BY LenProperties DEF InLine
<1>d. /\ Len(Tail(pubs)) = p - 1 /\ p >= 1 /\ Head(pubs) = pubs[1]
      /\ \A i \in 1 .. p - 1 : Tail(pubs)[i] = pubs[i + 1]
      /\ Slot(n, phase, a + 1, Head(pubs))
  <2>1. /\ Len(Tail(pubs)) = p - 1 /\ p >= 1 /\ Head(pubs) = pubs[1]
        /\ \A i \in 1 .. p - 1 : Tail(pubs)[i] = pubs[i + 1]
    BY <1>c, HeadTailProperties, LenProperties
  <2> QED
    BY <1>c, <2>1
<1> DEFINE t == Head(pubs)
           s == Tail(pubs)
           A == Append(shown, <<g, t.batch>>)
<1>1. a + 1 <= n /\ t.batch = a + 1
  BY <1>c, <1>d DEF Slot
<1>2. /\ Len(A) = a + 1 /\ A[a + 1] = <<g, a + 1>>
      /\ \A b \in 1 .. a : A[b] = shown[b]
  BY <1>c, <1>1
<1>3. /\ Len(s) = p - 1 /\ p >= 1
      /\ \A i \in 1 .. p - 1 : s[i] = pubs[i + 1]
  BY <1>d
<1> HIDE DEF s, t, A
<1>4. \A b \in 1 .. a + 1 : A[b] = <<g, b>>
  <2> SUFFICES ASSUME NEW b \in 1 .. a + 1 PROVE A[b] = <<g, b>>
    OBVIOUS
  <2>1. b = a + 1 \/ b \in 1 .. a
    BY <1>c
  <2> QED
    BY <1>c, <1>2, <2>1
<1>5. \A i \in 1 .. p - 1 : Slot(n, phase, a + 1 + i, s[i])
  <2> SUFFICES ASSUME NEW i \in 1 .. p - 1
               PROVE  Slot(n, phase, a + 1 + i, s[i])
    OBVIOUS
  <2>1. i + 1 \in 1 .. p /\ a + (i + 1) = a + 1 + i
    BY <1>c
  <2> QED
    BY <1>c, <1>3, <2>1
<1>6. /\ hand = 1 => Slot(n, phase, a + 1 + (p - 1) + 1, held)
      /\ \A i \in 1 .. q : Slot(n, phase, a + 1 + (p - 1) + hand + i, queue[i])
      /\ a + 1 + (p - 1) + hand + q >= n
  <2>1. a + 1 + (p - 1) = a + p
    BY <1>c
  <2> QED
    BY <1>c, <2>1
<1> QED
  BY <1>c, <1>1, <1>2, <1>3, <1>4, <1>5, <1>6 DEF InLine, A, s, t

(* With the marker everything pushed has arrived.                           *)
LEMMA LineDone ==
  ASSUME NEW g, NEW shown \in Seq(Nat \X Nat), NEW pubs \in Seq(Tasks),
         NEW hand \in {0, 1}, NEW held, NEW queue \in Seq(Tasks), NEW n \in Nat,
         NEW phase, InLine(g, shown, pubs, hand, held, queue, n, phase),
         pubs # <<>>, Head(pubs).batch = 0
  PROVE  Len(shown) = n /\ phase = "done"
<1> DEFINE a == Len(shown)
           p == Len(pubs)
           q == Len(queue)
<1>c. /\ a \in Nat /\ p \in Nat /\ q \in Nat
      /\ a <= n /\ \A b \in 1 .. a : shown[b] = <<g, b>>
      /\ \A i \in 1 .. p : Slot(n, phase, a + i, pubs[i])
      /\ hand = 1 => Slot(n, phase, a + p + 1, held)
      /\ \A i \in 1 .. q : Slot(n, phase, a + p + hand + i, queue[i])
      /\ a + p + hand + q >= n
  BY LenProperties DEF InLine
<1>d. /\ Len(Tail(pubs)) = p - 1 /\ p >= 1 /\ Head(pubs) = pubs[1]
      /\ \A i \in 1 .. p - 1 : Tail(pubs)[i] = pubs[i + 1]
      /\ Slot(n, phase, a + 1, Head(pubs))
  <2>1. /\ Len(Tail(pubs)) = p - 1 /\ p >= 1 /\ Head(pubs) = pubs[1]
        /\ \A i \in 1 .. p - 1 : Tail(pubs)[i] = pubs[i + 1]
    BY <1>c, HeadTailProperties, LenProperties
  <2> QED
    BY <1>c, <2>1
<1> QED
  BY <1>c, <1>d DEF Slot

(* Behind the marker there are markers only.                                *)
LEMMA LineEnd ==
  ASSUME NEW g, NEW shown \in Seq(Nat \X Nat), NEW pubs \in Seq(Tasks),
         NEW hand \in {0, 1}, NEW held, NEW queue \in Seq(Tasks), NEW n \in Nat,
         NEW phase, InLine(g, shown, pubs, hand, held, queue, n, phase),
         pubs # <<>>, Head(pubs).batch = 0
  PROVE  InLine(g, shown, Tail(pubs), hand, held, queue, n, phase)
<1> DEFINE a == Len(shown)
           p == Len(pubs)
           q == Len(queue)
<1>c. /\ a \in Nat /\ p \in Nat /\ q \in Nat
      /\ a <= n /\ \A b \in 1 .. a : shown[b] = <<g, b>>
      /\ \A i \in 1 .. p : Slot(n, phase, a + i, pubs[i])
      /\ hand = 1 => Slot(n, phase, a + p + 1, held)
      /\ \A i \in 1 .. q : Slot(n, phase, a + p + hand + i, queue[i])
      /\ a + p + hand + q >= n
  BY LenProperties DEF InLine
<1>d. /\ Len(Tail(pubs)) = p - 1 /\ p >= 1 /\ Head(pubs) = pubs[1]
      /\ \A i \in 1 .. p - 1 : Tail(pubs)[i] = pubs[i + 1]
      /\ Slot(n, phase, a + 1, Head(pubs))
  <2>1. /\ Len(Tail(pubs)) = p - 1 /\ p >= 1 /\ Head(pubs) = pubs[1]
        /\ \A i \in 1 .. p - 1 : Tail(pubs)[i] = pubs[i + 1]
    BY <1>c, HeadTailProperties, LenProperties
  <2> QED
    BY <1>c, <2>1
<1> DEFINE s == Tail(pubs)
<1>1. a = n /\ phase = "done"
  BY <1>c, <1>d DEF Slot
<1>3. /\ Len(s) = p - 1 /\ p >= 1
      /\ \A i \in 1 .. p - 1 : s[i] = pubs[i + 1]
  BY <1>d
<1> HIDE DEF s
<1>4. \A i \in 1 .. p - 1 : Slot(n, phase, a + i, s[i])
  <2> SUFFICES ASSUME NEW i \in 1 .. p - 1
               PROVE  Slot(n, phase, a + i, s[i])
    OBVIOUS
  <2>1. i + 1 \in 1 .. p /\ ~(a + (i + 1) <= n) /\ ~(a + i <= n)
    BY <1>c, <1>1
  <2> QED
    BY SMTT(30), <1>c, <1>3, <2>1 DEF Slot
<1>5. hand = 1 => Slot(n, phase, a + (p - 1) + 1, held)
  <2>1. hand = 1 => ~(a + p + 1 <= n) /\ ~(a + (p - 1) + 1 <= n)
    BY <1>c, <1>1, <1>3
  <2> QED
    BY <1>c, <2>1 DEF Slot
<1>6. \A i \in 1 .. q : Slot(n, phase, a + (p - 1) + hand + i, queue[i])
  <2> SUFFICES ASSUME NEW i \in 1 .. q
               PROVE  Slot(n, phase, a + (p - 1) + hand + i, queue[i])
    OBVIOUS
  <2>1. ~(a + p + hand + i <= n) /\ ~(a + (p - 1) + hand + i <= n)
    BY SMTT(30), <1>c, <1>1, <1>3
  <2> QED
    BY <1>c, <2>1 DEF Slot
<1> QED
  BY <1>c, <1>1, <1>3, <1>4, <1>5, <1>6 DEF InLine, s

-----------------------------------------------------------------------------
(* Whom the inbox serves.                                                   *)

\* Items of generation g, none when nobody is served.
ItemsOf(g) == {t \in Tasks : t.gen = g /\ g \in Generations}

\* An import that has not started has left no trace.
NoTrace(g) ==
    /\ produced[g] = 0 /\ ~cancelled[g]
    /\ task.gen # g /\ staged.gen # g /\ scene.gen # g
    /\ inbox.gen # g /\ inbox.token # g

\* A generation is new until its import thread is started.
Freshness ==
    /\ cancelled \in [Generations -> BOOLEAN]
    /\ \A g \in Generations : ipc[g] = "none" => NoTrace(g)
    /\ \A g \in Generations : g > generation => ipc[g] = "none"
    /\ uipc = "open" =>
          /\ inbox.gen = 0 /\ generation # 0
          /\ generation \in Generations => ipc[generation] = "none"

\* What is queued and published is for the generation served, whose import is
\* not cancelled; a stopped inbox is empty.
Served ==
    /\ inbox.tasks \in Seq(ItemsOf(inbox.gen))
    /\ inbox.publications \in Seq(ItemsOf(inbox.gen))
    /\ upc \in {"reserve", "copy", "publish"} => task.gen \in Generations
    /\ inbox.stopped \in BOOLEAN
    /\ inbox.stopped => inbox.tasks = <<>> /\ inbox.publications = <<>>
    /\ rpc = "drain" => inbox.stopped
    /\ Closing => inbox.gen = 0
    /\ rpc = "join" /\ fatal = "no" => Closing
    /\ inbox.gen \in Generations => ~cancelled[inbox.gen]

\* CancelUploads, with or without the stop flag.
Empties ==
    /\ inbox'.tasks = <<>> /\ inbox'.publications = <<>> /\ inbox'.gen = 0
    /\ inbox'.token = inbox.token
    /\ inbox'.stopped \in {inbox.stopped, TRUE}

(* Nothing is queued for nobody.                                            *)
LEMMA NothingForNobody ==
  ASSUME Served
  PROVE  inbox.gen = 0 => inbox.tasks = <<>> /\ inbox.publications = <<>>
<1> SUFFICES ASSUME inbox.gen = 0
             PROVE  inbox.tasks = <<>> /\ inbox.publications = <<>>
  OBVIOUS
<1>1. ItemsOf(0) = {}
  BY PipelineAssumption DEF ItemsOf, Generations
<1>2. inbox.tasks \in Seq({}) /\ inbox.publications \in Seq({})
  BY <1>1 DEF Served
<1>3. \A s \in Seq({}) : s = <<>>
  <2> SUFFICES ASSUME NEW s \in Seq({}), s # <<>> PROVE FALSE
    OBVIOUS
  <2>1. Head(s) \in {}
    BY HeadTailProperties
  <2> QED
    BY <2>1
<1> QED
  BY <1>2, <1>3

(* CancelUploads and the stop flags empty the inbox.                        *)
LEMMA Emptying ==
  ASSUME ServesNewest,
         \/ inbox' = Emptied(inbox)
         \/ inbox' = [Emptied(inbox) EXCEPT !.stopped = TRUE]
  PROVE  Empties
<1>1. CASE inbox' = Emptied(inbox)
  BY <1>1 DEF Emptied, ServesNewest, InboxFields, Empties
<1>2. CASE inbox' = [Emptied(inbox) EXCEPT !.stopped = TRUE]
  BY <1>2 DEF Emptied, ServesNewest, InboxFields, Empties
<1> QED
  BY <1>1, <1>2

(* Emptying, with the tokens it fires.                                      *)
LEMMA EmptyingServes ==
  ASSUME Served, Freshness, Empties, UNCHANGED <<task, upc>>,
         rpc' \in {rpc, "drain"}, rpc' = "drain" /\ rpc # "drain" => inbox'.stopped,
         fatal' = fatal, rpc # "join" \/ rpc' = rpc,
         uipc = "closing" => uipc' = "closing"
  PROVE  Served'
<1>1. ItemsOf(inbox'.gen) = {}
  BY PipelineAssumption DEF Empties, ItemsOf, Generations
<1>2. inbox'.tasks \in Seq(ItemsOf(inbox'.gen))
      /\ inbox'.publications \in Seq(ItemsOf(inbox'.gen))
  BY <1>1 DEF Empties
<1>3. inbox'.stopped \in BOOLEAN /\ (inbox.stopped => inbox'.stopped)
  BY DEF Empties, Served
<1>4. inbox'.gen = 0 /\ 0 \notin Generations
  BY PipelineAssumption DEF Empties, Generations
<1>5. rpc' = "drain" => inbox'.stopped
  BY <1>3 DEF Served
<1>6. rpc' = "join" /\ fatal' = "no" => Closing'
  BY DEF Served, Closing
<1>7. upc' \in {"reserve", "copy", "publish"} => task'.gen \in Generations
  BY DEF Served
<1> QED
  BY <1>2, <1>3, <1>4, <1>5, <1>6, <1>7 DEF Served, Empties

(* What the rest of a sequence has, the sequence has.                       *)
LEMMA RangeOfTail ==
  ASSUME NEW S, NEW s \in Seq(S), s # <<>>
  PROVE  /\ Tail(s) \in Seq(S) /\ Range(Tail(s)) \subseteq Range(s)
         /\ Head(s) \in S /\ Head(s) \in Range(s)
<1>1. /\ Tail(s) \in Seq(S) /\ Head(s) \in S /\ Head(s) = s[1]
      /\ Len(Tail(s)) = Len(s) - 1 /\ Len(s) \in Nat /\ Len(s) # 0
      /\ \A i \in 1 .. Len(Tail(s)) : Tail(s)[i] = s[i + 1]
  BY HeadTailProperties, LenProperties, EmptySeq
<1>2. /\ DOMAIN s = 1 .. Len(s) /\ DOMAIN Tail(s) = 1 .. Len(Tail(s))
  BY <1>1, LenProperties
<1>3. 1 \in DOMAIN s /\ \A i \in DOMAIN Tail(s) : i + 1 \in DOMAIN s
  BY <1>1, <1>2
<1> QED
  BY <1>1, <1>2, <1>3 DEF Range

\* What is posted to the window.
Messages == [kind : {"imported", "failed", "cancelled", "uploaded", "recovered"},
             gen : Nat, ok : BOOLEAN, terminal : BOOLEAN]

\* An import reports itself when it has ended.
Reports ==
    /\ messages \in Seq(Messages)
    /\ snapshot \in Nat /\ notice \in Nat
    /\ \A m \in Range(messages) :
           m.kind = "imported" => m.gen \in Generations /\ ipc[m.gen] = "done"

Posted(m) == messages' \in {messages, Append(messages, m)}

(* A message posted, or not because the window closes.                      *)
LEMMA Posting ==
  ASSUME Reports, NEW m \in Messages, Post(m)
  PROVE  messages' \in Seq(Messages) /\ Posted(m)
<1>1. CASE messages' = messages
  BY <1>1 DEF Reports, Posted
<1>2. CASE messages' = Append(messages, m)
  BY <1>2, RangeOfAppend DEF Reports, Posted
<1> QED
  BY <1>1, <1>2 DEF Post

(* What a step does to the messages.                                        *)
LEMMA MessagesStep ==
  ASSUME Reports, Newest, [Next]_vars
  PROVE  /\ messages' \in Seq(Messages)
         /\ snapshot' \in Nat /\ notice' \in Nat
         /\ \/ messages' \in {messages, <<>>}
            \/ /\ HandleMessage /\ messages # <<>> /\ messages' = Tail(messages)
            \/ \E g \in Generations, m \in Messages :
                  /\ ImportEnds(g) /\ m.kind # "uploaded" /\ m.gen = g
                  /\ Posted(m)
            \/ \E m \in Messages :
                  /\ PumpUploads /\ inbox.publications # <<>> /\ m.kind = "uploaded"
                  /\ m.gen = Head(inbox.publications).gen /\ m.gen = inbox.gen
                  /\ m.terminal <=> Terminal(Head(inbox.publications))
                  /\ m.terminal => AcceptTerminal(Head(inbox.publications))
                  /\ m.terminal /\ m.ok =>
                        Whole(StageFor(m.gen), m.gen) /\ Terminal(Head(inbox.publications))
                  /\ Posted(m)
            \/ \E m \in Messages :
                  /\ m.kind = "recovered" /\ m.gen \in {snapshot, notice}
                  /\ m.ok => RebuildDevice /\ rpc' = "loop"
                  /\ Posted(m)
<1>0. messages \in Seq(Messages) /\ snapshot \in Nat /\ notice \in Nat
  BY DEF Reports
<1>1. CASE UNCHANGED <<messages, snapshot, notice>>
  BY <1>0, <1>1
<1>2. CASE \/ UNCHANGED vars \/ UserOpens \/ UserCancels \/ ArmImport
           \/ UploadStep \/ LeaveLoop \/ JoinUpload \/ DeviceRemoved
  <2>1. UNCHANGED <<messages, snapshot, notice>>
    BY <1>2 DEF vars, UserOpens, UserCancels, ArmImport, UploadStep, TakeTask,
       Reserve, Copy, Publish, LeaveLoop, JoinUpload, DeviceRemoved, sceneVars,
       deviceVars
  <2> QED
    BY <1>1, <2>1
<1>3. CASE CloseWindow
  <2>1. messages' = <<>> /\ UNCHANGED <<snapshot, notice>>
    BY <1>3 DEF CloseWindow, sceneVars, deviceVars
  <2> QED
    BY <1>0, <2>1
<1>4. CASE HandleMessage
  <2>1. messages # <<>> /\ messages' = Tail(messages) /\ UNCHANGED <<snapshot, notice>>
    BY <1>4 DEF HandleMessage, sceneVars, deviceVars
  <2> QED
    BY <1>0, <1>4, <2>1, RangeOfTail
<1>5. CASE \E g \in Generations : ImportStep(g)
  <2>1. PICK g \in Generations : ImportStep(g)
    BY <1>5
  <2>2. CASE ProduceBatch(g) \/ PushBatch(g)
    <3>1. UNCHANGED <<messages, snapshot, notice>>
      BY <2>2 DEF ProduceBatch, PushBatch, sceneVars, deviceVars
    <3> QED
      BY <1>1, <3>1
  <2>3. CASE ImportEnds(g)
    <3>1. UNCHANGED <<snapshot, notice>>
      BY <2>3 DEF ImportEnds, sceneVars, deviceVars
    <3>2. PICK kind \in {"imported", "failed", "cancelled"} :
              Post(Message(kind, g, TRUE, TRUE))
      BY <2>3 DEF ImportEnds
    <3> DEFINE m == Message(kind, g, TRUE, TRUE)
    <3>3. m \in Messages /\ m.kind # "uploaded" /\ m.gen = g
      BY PipelineAssumption DEF Message, Messages, Generations
    <3> HIDE DEF m
    <3>4. /\ messages' \in Seq(Messages)
          /\ Posted(m)
      BY <3>2, <3>3, Posting DEF m
    <3> QED
      BY <1>0, <2>3, <3>1, <3>3, <3>4
  <2> QED
    BY <2>1, <2>2, <2>3 DEF ImportStep
<1>6. CASE PumpUploads
  <2>1. notice' = notice
    BY <1>6 DEF PumpUploads, deviceVars
  <2>2. CASE UNCHANGED <<messages, snapshot>>
    BY <1>1, <2>1, <2>2
  <2>3. CASE inbox.publications # <<>> /\ Accepts(Head(inbox.publications))
    <3> DEFINE p == Head(inbox.publications)
    <3>1. p \in Tasks /\ p.gen \in Nat
      BY <2>3 DEF Newest, QueuesHoldTasks, Tasks
    <3>2. \/ AcceptTerminal(p) /\ Terminal(p)
          \/ ~Terminal(p) /\ AcceptBatch(p)
          \/ ~Terminal(p) /\ AcceptFailure(p)
      BY <1>6, <2>3 DEF PumpUploads
    <3>3. snapshot' \in {p.gen, snapshot}
      <4>1. CASE AcceptTerminal(p)
        BY <4>1 DEF AcceptTerminal
      <4>2. CASE AcceptBatch(p)
        BY <4>2 DEF AcceptBatch
      <4>3. CASE AcceptFailure(p)
        BY <4>3 DEF AcceptFailure
      <4> QED
        BY <3>2, <4>1, <4>2, <4>3
    <3>4. p.gen = inbox.gen
      BY <2>3 DEF Accepts
    <3> HIDE DEF p
    <3>5. CASE AcceptTerminal(p) /\ Terminal(p)
      <4> DEFINE m == Message("uploaded", p.gen, Whole(StageFor(p.gen), p.gen), TRUE)
      <4>1. Post(m)
        BY <3>5 DEF AcceptTerminal
      <4>2. Whole(StageFor(p.gen), p.gen) \in BOOLEAN
        BY DEF Whole
      <4>3. /\ m \in Messages /\ m.kind = "uploaded" /\ m.gen = p.gen /\ m.terminal
            /\ m.ok = Whole(StageFor(p.gen), p.gen)
        BY <3>1, <4>2 DEF Message, Messages
      <4> HIDE DEF m
      <4>4. /\ messages' \in Seq(Messages)
            /\ Posted(m)
        BY <4>1, <4>3, Posting
      <4>5. m.terminal /\ m.ok => Whole(StageFor(m.gen), m.gen) /\ Terminal(p)
        BY <3>5, <4>3
      <4> QED
        BY <1>0, <1>6, <2>1, <2>3, <3>1, <3>3, <3>4, <3>5, <4>3, <4>4, <4>5 DEF p
    <3>6. CASE ~Terminal(p) /\ (AcceptBatch(p) \/ AcceptFailure(p))
      <4>1. messages' = messages \/ \E ok \in BOOLEAN : Post(Message("uploaded", p.gen, ok, FALSE))
        BY <3>6 DEF AcceptBatch, AcceptFailure
      <4>2. CASE messages' = messages
        BY <1>0, <2>1, <3>1, <3>3, <4>2
      <4>3. CASE \E ok \in BOOLEAN : Post(Message("uploaded", p.gen, ok, FALSE))
        <5>1. PICK ok \in BOOLEAN : Post(Message("uploaded", p.gen, ok, FALSE))
          BY <4>3
        <5> DEFINE m == Message("uploaded", p.gen, ok, FALSE)
        <5>2. m \in Messages /\ m.kind = "uploaded" /\ m.gen = p.gen /\ ~m.terminal
          BY <3>1 DEF Message, Messages
        <5>3. Post(m)
          BY <5>1
        <5> HIDE DEF m
        <5>4. /\ messages' \in Seq(Messages)
              /\ Posted(m)
          BY <5>2, <5>3, Posting
        <5> QED
          BY <1>0, <1>6, <2>1, <2>3, <3>1, <3>3, <3>4, <3>6, <5>2, <5>4 DEF p
      <4> QED
        BY <4>1, <4>2, <4>3
    <3> QED
      BY <3>2, <3>5, <3>6
  <2> QED
    BY <1>6, <2>2, <2>3 DEF PumpUploads
<1>7. CASE FrameFindsLoss \/ ResizeFindsLoss \/ AnswerRequest \/ ResetDevice \/ RebuildDevice
  <2>1. snapshot' \in Nat /\ notice' \in Nat
    <3>1. CASE FrameFindsLoss \/ ResizeFindsLoss \/ AnswerRequest
      <4>1. snapshot' = snapshot /\ notice' \in {notice, snapshot}
        BY <3>1 DEF FrameFindsLoss, ResizeFindsLoss, AnswerRequest, StartRecovery, sceneVars
      <4> QED
        BY <1>0, <4>1
    <3>2. CASE ResetDevice
      BY <1>0, <3>2 DEF ResetDevice, deviceVars
    <3>3. CASE RebuildDevice
      BY <1>0, <3>3 DEF RebuildDevice, sceneVars
    <3> QED
      BY <1>7, <3>1, <3>2, <3>3
  <2>2. \/ messages' = messages
        \/ \E g \in {snapshot, notice}, ok \in BOOLEAN :
              /\ Post(Message("recovered", g, ok, TRUE))
              /\ ok => RebuildDevice /\ rpc' = "loop"
    BY <1>7 DEF FrameFindsLoss, ResizeFindsLoss, AnswerRequest, ResetDevice, RebuildDevice,
       StartRecovery
  <2>3. CASE messages' = messages
    BY <1>0, <2>1, <2>3
  <2>4. ASSUME NEW g \in {snapshot, notice}, NEW ok \in BOOLEAN,
               Post(Message("recovered", g, ok, TRUE)),
               ok => RebuildDevice /\ rpc' = "loop"
        PROVE  /\ messages' \in Seq(Messages)
               /\ \E m \in Messages :
                  /\ m.kind = "recovered" /\ m.gen \in {snapshot, notice}
                  /\ m.ok => RebuildDevice /\ rpc' = "loop"
                  /\ Posted(m)
    <3> DEFINE m == Message("recovered", g, ok, TRUE)
    <3>1. m \in Messages /\ m.kind = "recovered" /\ m.gen = g /\ m.ok = ok
      BY <1>0 DEF Message, Messages
    <3>2. Post(m)
      BY <2>4
    <3> HIDE DEF m
    <3>3. /\ messages' \in Seq(Messages)
          /\ Posted(m)
      BY <3>1, <3>2, Posting
    <3> QED
      BY <2>4, <3>1, <3>3
  <2> QED
    BY <2>1, <2>2, <2>3, <2>4
<1> QED
  BY <1>2, <1>3, <1>4, <1>5, <1>6, <1>7 DEF Next, UiStep, RenderStep

(* Import threads start once and end for good.                              *)
LEMMA ImportPhases ==
  ASSUME Imports, Freshness, [Next]_vars
  PROVE  /\ \/ ArmImport
            \/ \E g \in Generations : ImportStep(g)
            \/ UNCHANGED <<ipc, produced>>
         /\ \A g \in Generations :
            /\ ipc[g] = "done" => ipc'[g] = "done" /\ produced'[g] = produced[g]
            /\ ipc'[g] = "none" => ipc[g] = "none" /\ produced'[g] = produced[g]
<1>1. CASE ArmImport
  <2>1. produced' = produced /\ ipc' = [ipc EXCEPT ![generation] = "run"]
        /\ uipc = "open"
    BY <1>1 DEF ArmImport
  <2>2. \A g \in Generations : ipc[g] = "done" => g # generation
    BY <2>1 DEF Freshness
  <2> QED
    BY <1>1, <2>1, <2>2 DEF Imports
<1>2. CASE \E g \in Generations : ImportStep(g)
  <2>1. PICK h \in Generations : ImportStep(h)
    BY <1>2
  <2>2. /\ ipc[h] # "none" /\ ipc[h] # "done"
        /\ \E x \in {"push", "run", "done"} : ipc' = [ipc EXCEPT ![h] = x]
        /\ \/ produced' = produced
           \/ produced' = [produced EXCEPT ![h] = @ + 1]
    BY <2>1 DEF ImportStep, ProduceBatch, PushBatch, ImportEnds
  <2>3. \A g \in Generations : g # h => ipc'[g] = ipc[g] /\ produced'[g] = produced[g]
    BY <2>2 DEF Imports
  <2>4. ipc'[h] # "none"
    BY <2>2 DEF Imports
  <2> QED
    BY <1>2, <2>2, <2>3, <2>4
<1>3. CASE UNCHANGED <<ipc, produced>>
  BY <1>3
<1>4. CASE \/ UserOpens \/ UserCancels \/ CloseWindow \/ HandleMessage
           \/ UploadStep \/ RenderStep \/ DeviceRemoved \/ UNCHANGED vars
  <2>1. UNCHANGED <<ipc, produced>>
    BY <1>4 DEF UserOpens, UserCancels, CloseWindow, HandleMessage, UploadStep,
       TakeTask, Reserve, Copy, Publish, RenderStep, PumpUploads, FrameFindsLoss, ResizeFindsLoss,
       AnswerRequest, ResetDevice, RebuildDevice, LeaveLoop, JoinUpload,
       DeviceRemoved, vars, importVars
  <2> QED
    BY <1>3, <2>1
<1> QED
  BY <1>1, <1>2, <1>4 DEF Next, UiStep

(* The messages stay reports of imports that have ended.                    *)
LEMMA ReportsStep ==
  ASSUME Reports, Newest, Imports, Freshness, [Next]_vars
  PROVE  Reports'
<1>1. /\ messages' \in Seq(Messages) /\ snapshot' \in Nat /\ notice' \in Nat
      /\ messages \in Seq(Messages)
  BY MessagesStep DEF Reports
<1>2. \A m \in Range(messages) : m.kind = "imported" =>
          m.gen \in Generations /\ ipc'[m.gen] = "done"
  BY ImportPhases DEF Reports
<1>3. CASE Range(messages') \subseteq Range(messages)
  BY <1>1, <1>2, <1>3 DEF Reports
<1>4. CASE \E m \in Messages : Posted(m) /\ (m.kind = "imported" =>
              m.gen \in Generations /\ ipc'[m.gen] = "done")
  <2>1. PICK m \in Messages : Posted(m) /\ (m.kind = "imported" =>
              m.gen \in Generations /\ ipc'[m.gen] = "done")
    BY <1>4
  <2>2. Range(messages') \subseteq Range(messages) \cup {m}
    BY ZenonT(60), <1>1, <2>1, RangeOfAppend DEF Posted
  <2> QED
    BY <1>1, <1>2, <2>1, <2>2 DEF Reports
<1>5. CASE messages' \in {messages, <<>>}
  <2>1. Range(<<>>) = {}
    BY DEF Range
  <2> QED
    BY <1>3, <1>5, <2>1
<1>6. CASE HandleMessage /\ messages # <<>> /\ messages' = Tail(messages)
  BY <1>1, <1>3, <1>6, RangeOfTail
<1>7. ASSUME NEW g \in Generations, ImportEnds(g) PROVE ipc'[g] = "done"
  BY <1>7 DEF ImportEnds, Imports
<1> QED
  BY <1>4, <1>5, <1>6, <1>7, MessagesStep

(* Handling a message, as it concerns the inbox.                            *)
LEMMA Handling ==
  ASSUME HandleMessage, ServesNewest
  PROVE  LET m == Head(messages) IN
         \/ /\ Empties /\ CancelBoth
            /\ \/ /\ uipc' = "open" /\ generation' = generation + 1
                  /\ state' = "Loading"
               \/ /\ uipc' = uipc
                  /\ \/ generation' = generation + 1 /\ state' \in {"Rest", "Failed"}
                     \/ generation' = generation /\ state' = "Failed"
         \/ UNCHANGED <<uipc, generation, state, cancelled, inbox>>
         \/ /\ m.kind = "imported" /\ m.gen = generation /\ FinishImport(generation)
            /\ UNCHANGED <<uipc, generation, state, cancelled>>
         \/ /\ m.kind = "uploaded" /\ m.gen = generation /\ m.ok
            /\ state # "Failed"
            /\ state' = IF m.terminal THEN "Ready" ELSE "Loading"
            /\ UNCHANGED <<uipc, generation, cancelled, inbox>>
<1> DEFINE m == Head(messages)
<1>1. \/ m.kind = "uploaded" /\ HandleUploadComplete(m)
      \/ HandleRecovery(m)
      \/ HandleImportComplete(m)
  BY DEF HandleMessage
<1>2. inbox' = Emptied(inbox) => Empties
  BY Emptying
<1>3. CASE m.kind = "uploaded" /\ HandleUploadComplete(m)
  BY <1>2, <1>3 DEF HandleUploadComplete, Fail, Ignored
<1>4. CASE HandleRecovery(m)
  BY <1>2, <1>4 DEF HandleRecovery, BeginOpen, StartOpening, Fail
<1>5. CASE HandleImportComplete(m)
  BY <1>2, <1>5 DEF HandleImportComplete, CancelOpen, Fail, Ignored
<1> QED
  BY <1>1, <1>3, <1>4, <1>5

(* The window's events, as they concern the inbox.                          *)
LEMMA Events ==
  ASSUME UserOpens \/ UserCancels \/ CloseWindow, ServesNewest
  PROVE  /\ Empties /\ CancelBoth
         /\ UNCHANGED <<task, upc, rpc, fatal, staged, scene, hasModel, ipc, produced>>
         /\ uipc = "run"
         /\ \/ uipc' = "open" /\ generation' = generation + 1 /\ state' = "Loading"
            \/ /\ uipc' = "run" /\ generation' = generation + 1
               /\ state' \in {"Rest", "Failed"}
            \/ /\ uipc' = "closing" /\ messages' = <<>> /\ inbox'.stopped
               /\ UNCHANGED <<generation, state>>
<1>1. CASE UserOpens
  <2>1. inbox' = Emptied(inbox) /\ CancelBoth
    BY <1>1 DEF UserOpens, BeginOpen, StartOpening, Fail
  <2> QED
    BY <1>1, <2>1, Emptying DEF UserOpens, BeginOpen, StartOpening, Fail,
       uploadVars, sceneVars, deviceVars
<1>2. CASE UserCancels
  BY <1>2, Emptying DEF UserCancels, CancelOpen, uploadVars, sceneVars, deviceVars
<1>3. CASE CloseWindow
  <2>1. Empties
    BY <1>3, Emptying DEF CloseWindow
  <2>2. inbox'.stopped
    BY <1>3 DEF CloseWindow, Emptied, ServesNewest, InboxFields
  <2> QED
    BY <1>3, <2>1, <2>2 DEF CloseWindow, uploadVars, sceneVars, deviceVars
<1> QED
  BY <1>1, <1>2, <1>3

(* What accepting a batch leaves on screen and on the stage.                *)
LEMMA Accepting ==
  ASSUME StageIsOfOne, NEW p \in Tasks, AcceptBatch(p)
  PROVE  LET st == StageFor(p.gen)
             b == <<p.gen, p.batch>>
         IN /\ staged'.gen = p.gen /\ (st.failed => staged'.failed)
            /\ \/ /\ scene.gen = p.gen /\ scene'.gen = p.gen
                  /\ scene'.batches = Append(scene.batches, b)
               \/ /\ scene.gen # p.gen /\ scene'.gen = p.gen
                  /\ scene'.batches = Append(st.batches, b)
               \/ /\ scene.gen # p.gen /\ UNCHANGED <<scene, hasModel>>
                  /\ staged'.batches = Append(st.batches, b)
<1> DEFINE st == StageFor(p.gen)
           b == <<p.gen, p.batch>>
           all == Append(st.batches, b)
<1>1. /\ DOMAIN st = {"gen", "batches", "failed"} /\ st.gen = p.gen
      /\ DOMAIN scene = {"gen", "batches"}
  BY StageForOne DEF StageIsOfOne, Tasks
<1>2. PICK ready \in BOOLEAN, drawable \in BOOLEAN, faulty \in BOOLEAN :
        IF scene.gen = p.gen
        THEN /\ scene' = [scene EXCEPT !.batches = Append(@, b)]
             /\ staged' = [st EXCEPT !.failed = @ \/ faulty]
        ELSE IF ready /\ drawable
        THEN /\ scene' = [gen |-> p.gen,
                          batches |-> [st EXCEPT !.batches = all].batches]
             /\ staged' = [st EXCEPT !.batches = <<>>, !.failed = @ \/ faulty]
        ELSE /\ staged' = [[st EXCEPT !.batches = all] EXCEPT !.failed = @ \/ faulty]
             /\ UNCHANGED <<scene, hasModel>>
  BY DEF AcceptBatch, Show
<1> HIDE DEF st, b, all
<1>3. CASE scene.gen = p.gen
  <2>1. /\ scene' = [scene EXCEPT !.batches = Append(@, b)]
        /\ staged' = [st EXCEPT !.failed = @ \/ faulty]
    BY <1>2, <1>3
  <2>2. staged'.gen = p.gen /\ (st.failed => staged'.failed)
    BY <1>1, <2>1
  <2>3. scene'.gen = p.gen /\ scene'.batches = Append(scene.batches, b)
    BY <1>1, <1>3, <2>1
  <2> QED
    BY <1>3, <2>2, <2>3 DEF st, b
<1>4. CASE scene.gen # p.gen /\ ready /\ drawable
  <2>1. /\ scene' = [gen |-> p.gen, batches |-> [st EXCEPT !.batches = all].batches]
        /\ staged' = [st EXCEPT !.batches = <<>>, !.failed = @ \/ faulty]
    BY <1>2, <1>4
  <2>2. staged'.gen = p.gen /\ (st.failed => staged'.failed)
    BY <1>1, <2>1
  <2>3. scene'.gen = p.gen /\ scene'.batches = all
    BY <1>1, <2>1
  <2> QED
    BY <1>4, <2>2, <2>3 DEF st, b, all
<1>5. CASE scene.gen # p.gen /\ ~(ready /\ drawable)
  <2>1. /\ staged' = [[st EXCEPT !.batches = all] EXCEPT !.failed = @ \/ faulty]
        /\ UNCHANGED <<scene, hasModel>>
    BY <1>2, <1>5
  <2>2. staged'.gen = p.gen /\ (st.failed => staged'.failed) /\ staged'.batches = all
    BY <1>1, <2>1
  <2> QED
    BY <1>5, <2>1, <2>2 DEF st, b, all
<1> QED
  BY <1>3, <1>4, <1>5

(* Whose work the threads take up: that of the generation served.           *)
LEMMA TracesStep ==
  ASSUME Newest, Served, [Next]_vars
  PROVE  /\ task'.gen \in {task.gen, 0, inbox.gen}
         /\ staged'.gen \in {staged.gen, 0, inbox.gen}
         /\ scene'.gen \in {scene.gen, inbox.gen}
<1>1. task'.gen \in {task.gen, 0, inbox.gen}
  <2>1. CASE task' = task
    BY <2>1
  <2>2. CASE TakeTask
    <3>1. CASE inbox.tasks # <<>> /\ task' = Head(inbox.tasks)
      <4>1. Head(inbox.tasks) \in ItemsOf(inbox.gen)
        BY <3>1, RangeOfTail DEF Served
      <4> QED
        BY <3>1, <4>1 DEF ItemsOf
    <3> QED
      BY <2>1, <2>2, <3>1 DEF TakeTask
  <2>3. CASE Reserve \/ Copy
    <3>1. task \in Tasks
      BY DEF Newest, QueuesHoldTasks
    <3>2. task' \in {task, [task EXCEPT !.ok = FALSE], [task EXCEPT !.gpu = 1]}
      BY <2>3 DEF Reserve, Copy
    <3> QED
      BY <3>1, <3>2 DEF Tasks
  <2>4. CASE Publish
    BY <2>4 DEF Publish, NoItem, Item
  <2>5. CASE \/ UserOpens \/ UserCancels \/ CloseWindow \/ UiStep \/ RenderStep
             \/ (\E g \in Generations : ImportStep(g)) \/ DeviceRemoved
             \/ UNCHANGED vars
    <3>1. task' = task
      BY <2>5 DEF UserOpens, UserCancels, CloseWindow, HandleMessage, ArmImport,
         UiStep, ImportStep, ProduceBatch, PushBatch, ImportEnds, RenderStep,
         PumpUploads, FrameFindsLoss, ResizeFindsLoss, AnswerRequest, ResetDevice, RebuildDevice,
         LeaveLoop, JoinUpload, DeviceRemoved, vars, uploadVars
    <3> QED
      BY <3>1
  <2> QED
    BY <2>2, <2>3, <2>4, <2>5 DEF Next, UploadStep
<1>2. staged'.gen \in {staged.gen, 0, inbox.gen} /\ scene'.gen \in {scene.gen, inbox.gen}
  <2>1. CASE ~PumpUploads
    <3>1. staged' = staged /\ (scene' = scene \/ scene' = [scene EXCEPT !.batches = <<>>])
      BY <2>1, SceneUntouched
    <3>2. DOMAIN scene = {"gen", "batches"}
      BY DEF Newest, StageIsOfOne
    <3>3. scene'.gen = scene.gen
      BY <3>1, <3>2
    <3> QED
      BY <3>1, <3>3
  <2>2. StageNow.gen \in {staged.gen, 0}
    BY DEF StageNow, EmptyStage
  <2>3. CASE PumpUploads /\ staged' = StageNow /\ scene' = scene
    BY <2>2, <2>3
  <2>4. CASE PumpUploads /\ inbox.publications # <<>> /\ Accepts(Head(inbox.publications))
    <3> DEFINE p == Head(inbox.publications)
    <3>1. p.gen = inbox.gen /\ p.gen \in Nat
      BY <2>4 DEF Accepts, Newest, QueuesHoldTasks, Tasks
    <3>2. AcceptTerminal(p) \/ AcceptBatch(p) \/ AcceptFailure(p)
      BY <2>4 DEF PumpUploads
    <3>3. /\ DOMAIN StageFor(p.gen) = {"gen", "batches", "failed"}
          /\ StageFor(p.gen).gen = p.gen
      BY <3>1, StageForOne DEF Newest
    <3>4. DOMAIN scene = {"gen", "batches"}
      BY DEF Newest, StageIsOfOne
    <3> HIDE DEF p
    <3>5. CASE AcceptTerminal(p)
      BY <3>1, <3>3, <3>5 DEF AcceptTerminal
    <3>6. CASE AcceptFailure(p)
      BY <3>1, <3>3, <3>6 DEF AcceptFailure
    <3>7. CASE AcceptBatch(p)
      <4>1. p \in Tasks
        BY <2>4 DEF p, Newest, QueuesHoldTasks
      <4>2. staged'.gen = p.gen /\ scene'.gen \in {scene.gen, p.gen}
        BY <3>7, <4>1, Accepting DEF Newest
      <4> QED
        BY <3>1, <4>2
    <3> QED
      BY <3>2, <3>5, <3>6, <3>7
  <2>5. PumpUploads => \/ staged' = StageNow /\ scene' = scene
                       \/ /\ inbox.publications # <<>>
                          /\ Accepts(Head(inbox.publications))
    <3> SUFFICES ASSUME PumpUploads
                 PROVE  \/ staged' = StageNow /\ scene' = scene
                        \/ /\ inbox.publications # <<>>
                           /\ Accepts(Head(inbox.publications))
      OBVIOUS
    <3>1. CASE inbox.publications = <<>>
      BY <3>1 DEF PumpUploads
    <3>2. CASE inbox.publications # <<>> /\ ~Accepts(Head(inbox.publications))
      BY <3>2 DEF PumpUploads
    <3> QED
      BY <3>1, <3>2
  <2> QED
    BY <2>1, <2>3, <2>4, <2>5
<1> QED
  BY <1>1, <1>2

(* Whom a step lets the inbox serve, and whose token it fires.              *)
LEMMA TokensStep ==
  ASSUME Newest, Freshness, Reports, [Next]_vars
  PROVE  /\ generation' \in {generation, generation + 1}
         /\ \/ inbox'.gen \in {inbox.gen, 0} /\ inbox'.token \in {inbox.token, 0}
            \/ ArmImport /\ inbox'.gen = generation /\ inbox'.token = generation
         /\ uipc' = "open" =>
               \/ /\ uipc = "open" /\ generation' = generation
                  /\ inbox'.gen \in {inbox.gen, 0}
               \/ inbox'.gen = 0 /\ generation' = generation + 1
         /\ \/ cancelled' = cancelled
            \/ Empties /\ (CancelBoth \/ CancelInbox)
<1>0. ServesNewest
  BY DEF Newest
<1>1. CASE UNCHANGED <<uipc, generation, inbox, cancelled>>
  BY <1>1
<1>2. CASE UserOpens \/ UserCancels \/ CloseWindow
  BY <1>0, <1>2, Events DEF Empties
<1>3. CASE HandleMessage
  <2>1. uipc = "run"
    BY <1>3 DEF HandleMessage
  <2>2. CASE Empties /\ CancelBoth
    BY <1>0, <1>3, <2>1, <2>2, Handling DEF Empties
  <2>3. CASE UNCHANGED <<uipc, generation, cancelled>> /\ FinishImport(generation)
    <3>1. inbox'.gen = inbox.gen /\ inbox'.token = inbox.token
      BY <1>0, <2>3 DEF FinishImport, ServesNewest, InboxFields
    <3> QED
      BY <2>1, <2>3, <3>1
  <2> QED
    BY <1>0, <1>1, <1>3, <2>2, <2>3, Handling
<1>4. CASE ArmImport
  <2>1. inbox'.gen = generation /\ inbox'.token = generation
    BY <1>0, <1>4 DEF ArmImport, ServesNewest, InboxFields
  <2>2. UNCHANGED <<generation, cancelled>> /\ uipc' = "run"
    BY <1>4 DEF ArmImport
  <2> QED
    BY <1>4, <2>1, <2>2
<1>5. CASE (\E g \in Generations : ImportStep(g)) \/ UploadStep \/ PumpUploads
  <2>1. UNCHANGED <<uipc, generation, cancelled>>
    BY <1>5 DEF ImportStep, ProduceBatch, PushBatch, ImportEnds, UploadStep,
       TakeTask, Reserve, Copy, Publish, PumpUploads, uiVars, importVars
  <2>2. inbox'.gen = inbox.gen /\ inbox'.token = inbox.token
    <3>1. CASE \E g \in Generations : ImportStep(g)
      BY <1>0, <3>1 DEF ImportStep, ProduceBatch, PushBatch, ImportEnds,
         ServesNewest, InboxFields
    <3>2. CASE TakeTask \/ Reserve \/ Copy
      BY <1>0, <3>2 DEF TakeTask, Reserve, Copy, ServesNewest, InboxFields
    <3>3. CASE Publish
      BY <1>0, <3>3 DEF Publish, Uncharge, ServesNewest, InboxFields
    <3>4. CASE PumpUploads
      BY <1>0, <3>4 DEF PumpUploads, Uncharge, ServesNewest, InboxFields
    <3> QED
      BY <1>5, <3>1, <3>2, <3>3, <3>4 DEF UploadStep
  <2> QED
    BY <2>1, <2>2
<1>6. CASE FrameFindsLoss \/ ResizeFindsLoss \/ AnswerRequest
  <2>1. /\ UNCHANGED <<uipc, generation>>
        /\ \E next \in {"join", "loop"} : StartRecovery(next)
    BY <1>6 DEF FrameFindsLoss, ResizeFindsLoss, AnswerRequest, uiVars
  <2>2. CASE Empties /\ CancelInbox
    BY <2>1, <2>2 DEF Empties
  <2> QED
    BY <1>0, <1>1, <2>1, <2>2, Emptying DEF StartRecovery
<1>7. CASE ResetDevice
  <2>1. inbox'.gen = 0 /\ inbox'.token = 0
    BY <1>0, <1>7 DEF ResetDevice, ServesNewest, InboxFields
  <2>2. UNCHANGED <<uipc, generation, cancelled>>
    BY <1>7 DEF ResetDevice, uiVars, importVars
  <2> QED
    BY <2>1, <2>2
<1>8. CASE RebuildDevice \/ LeaveLoop \/ JoinUpload \/ DeviceRemoved \/ UNCHANGED vars
  <2>1. UNCHANGED <<uipc, generation, inbox, cancelled>>
    BY <1>8 DEF RebuildDevice, LeaveLoop, JoinUpload, DeviceRemoved, vars, uiVars,
       importVars
  <2> QED
    BY <1>1, <2>1
<1> QED
  BY <1>2, <1>3, <1>4, <1>5, <1>6, <1>7, <1>8 DEF Next, UiStep, UploadStep,
     RenderStep

(* A generation stays new until its import thread is started.               *)
LEMMA FreshnessStep ==
  ASSUME Newest, Freshness, Reports, Served, Imports, [Next]_vars
  PROVE  Freshness'
<1>0. /\ \A g \in Generations : g \in Nat /\ g # 0
      /\ generation \in Nat
  BY PipelineAssumption DEF Generations, Newest, ServesNewest
<1>1. cancelled' \in [Generations -> BOOLEAN]
      /\ \A g \in Generations : cancelled'[g] =>
            cancelled[g] \/ g = inbox.token \/ (g = generation /\ ipc[g] # "none")
  <2>1. cancelled \in [Generations -> BOOLEAN]
    BY DEF Freshness
  <2>2. CASE cancelled' = cancelled
    BY <2>1, <2>2
  <2>3. CASE CancelBoth
    BY <2>1, <2>3 DEF CancelBoth
  <2>4. CASE CancelInbox
    BY <2>1, <2>4 DEF CancelInbox
  <2> QED
    BY <2>2, <2>3, <2>4, TokensStep
<1>2. ASSUME NEW g \in Generations, ipc'[g] = "none"
      PROVE  NoTrace(g)'
  <2>1. ipc[g] = "none" /\ produced'[g] = produced[g] /\ NoTrace(g)
    BY <1>2, ImportPhases DEF Freshness
  <2>2. /\ task'.gen # g /\ staged'.gen # g /\ scene'.gen # g
    BY <1>0, <2>1, TracesStep DEF NoTrace
  <2>3. ~(ArmImport /\ g = generation)
    BY <1>2 DEF ArmImport, Imports
  <2>4. inbox'.gen # g /\ inbox'.token # g
    BY <1>0, <2>1, <2>3, TokensStep DEF NoTrace
  <2>5. ~cancelled'[g]
    BY <1>1, <2>1 DEF NoTrace
  <2> QED
    BY <2>1, <2>2, <2>4, <2>5 DEF NoTrace
<1>3. ASSUME NEW g \in Generations, g > generation'
      PROVE  ipc'[g] = "none"
  <2>1. g > generation /\ ipc[g] = "none"
    BY <1>0, <1>3, TokensStep DEF Freshness
  <2>2. CASE ArmImport
    BY <1>0, <2>1, <2>2 DEF ArmImport, Imports
  <2>3. CASE \E h \in Generations : ImportStep(h)
    <3>1. PICK h \in Generations : ImportStep(h)
      BY <2>3
    <3>2. ipc[h] # "none" /\ \E x : ipc' = [ipc EXCEPT ![h] = x]
      BY <3>1 DEF ImportStep, ProduceBatch, PushBatch, ImportEnds
    <3> QED
      BY <2>1, <3>2 DEF Imports
  <2> QED
    BY <2>1, <2>2, <2>3, ImportPhases
<1>4. ASSUME uipc' = "open"
      PROVE  /\ inbox'.gen = 0 /\ generation' # 0
             /\ generation' \in Generations => ipc'[generation'] = "none"
  <2>1. CASE inbox'.gen = 0 /\ generation' = generation + 1
    <3>1. generation' \in Generations => ipc[generation'] = "none"
      BY <1>0, <2>1 DEF Freshness
    <3>2. ~ArmImport
      BY <1>4 DEF ArmImport
    <3>3. \A h \in Generations : ~ImportStep(h)
      <4> SUFFICES ASSUME NEW h \in Generations, ImportStep(h) PROVE FALSE
        OBVIOUS
      <4>1. generation' = generation
        BY DEF ImportStep, ProduceBatch, PushBatch, ImportEnds, uiVars
      <4> QED
        BY <1>0, <2>1, <4>1
    <3> QED
      BY <1>0, <2>1, <3>1, <3>2, <3>3, ImportPhases
  <2>2. CASE uipc = "open" /\ generation' = generation /\ inbox'.gen \in {inbox.gen, 0}
    <3>1. /\ inbox'.gen = 0 /\ generation' # 0
          /\ generation' \in Generations => ipc[generation'] = "none"
      BY <2>2 DEF Freshness
    <3>2. ~ArmImport
      BY <1>4 DEF ArmImport
    <3>3. CASE \E h \in Generations : ImportStep(h)
      <4>1. PICK h \in Generations : ImportStep(h)
        BY <3>3
      <4>2. ipc[h] # "none" /\ \E x : ipc' = [ipc EXCEPT ![h] = x]
        BY <4>1 DEF ImportStep, ProduceBatch, PushBatch, ImportEnds
      <4> QED
        BY <3>1, <4>2 DEF Imports
    <3> QED
      BY <3>1, <3>2, <3>3, ImportPhases
  <2> QED
    BY <1>4, <2>1, <2>2, TokensStep
<1> QED
  BY <1>1, <1>2, <1>3, <1>4 DEF Freshness

(* What serves the same generation goes on serving it.                      *)
LEMMA ServingOn ==
  ASSUME Served, inbox'.gen = inbox.gen, inbox'.stopped = inbox.stopped,
         inbox'.tasks \in Seq(ItemsOf(inbox.gen)),
         inbox'.publications \in Seq(ItemsOf(inbox.gen)),
         inbox.stopped => inbox'.tasks = <<>> /\ inbox'.publications = <<>>,
         upc' \in {"reserve", "copy", "publish"} => task'.gen \in Generations,
         UNCHANGED <<cancelled, uipc, rpc, fatal>>
  PROVE  Served'
  BY DEF Served, Closing

(* The marker joins the queue of the generation served.                     *)
LEMMA MarkerServes ==
  ASSUME Newest, Served, Reports, HandleMessage, FinishImport(generation),
         Head(messages).kind = "imported", Head(messages).gen = generation,
         UNCHANGED <<cancelled, uipc>>
  PROVE  Served'
<1>1. generation \in Generations /\ generation # 0 /\ generation \in Nat
  <2>1. Head(messages) \in Range(messages)
    BY RangeOfTail DEF Reports, HandleMessage
  <2> QED
    BY <2>1, PipelineAssumption DEF Reports, Generations
<1>2. UNCHANGED <<task, upc, rpc, fatal>>
  BY DEF HandleMessage, uploadVars, deviceVars
<1>3. CASE UNCHANGED inbox
  BY <1>2, <1>3, ServingOn DEF Served
<1>4. CASE /\ ~inbox.stopped /\ inbox.gen = generation
           /\ inbox' = [inbox EXCEPT !.tasks = Append(@, Item(generation, 0))]
  <2>1. /\ inbox'.tasks = Append(inbox.tasks, Item(generation, 0))
        /\ inbox'.publications = inbox.publications
        /\ inbox'.gen = inbox.gen /\ inbox'.stopped = inbox.stopped
    BY <1>4 DEF Newest, ServesNewest, InboxFields
  <2>2. Item(generation, 0) \in ItemsOf(inbox.gen)
    <3>1. Item(generation, 0) \in Tasks
      BY <1>1, ItemsAreTasks
    <3> QED
      BY <1>1, <1>4, <3>1 DEF ItemsOf, Item
  <2>3. Append(inbox.tasks, Item(generation, 0)) \in Seq(ItemsOf(inbox.gen))
    BY <2>2, RangeOfAppend DEF Served
  <2> QED
    BY <1>2, <1>4, <2>1, <2>3, ServingOn DEF Served
<1> QED
  BY <1>3, <1>4 DEF FinishImport

(* A batch pushed joins the queue of the generation served.                 *)
LEMMA PushServes ==
  ASSUME Newest, Served, NEW g \in Generations, ImportStep(g)
  PROVE  Served'
<1>1. UNCHANGED <<task, upc, rpc, fatal, cancelled, uipc>>
  BY DEF ImportStep, ProduceBatch, PushBatch, ImportEnds, uploadVars, deviceVars,
         uiVars
<1>3. CASE UNCHANGED inbox
  BY <1>1, <1>3, ServingOn DEF Served
<1>4. CASE /\ ~Abandoned(g)
           /\ inbox' = [inbox EXCEPT !.tasks = Append(@, Item(g, produced[g])),
                                     !.count = @ + 1]
  <2>1. /\ inbox'.tasks = Append(inbox.tasks, Item(g, produced[g]))
        /\ inbox'.publications = inbox.publications
        /\ inbox'.gen = inbox.gen /\ inbox'.stopped = inbox.stopped
    BY <1>4 DEF Newest, ServesNewest, InboxFields
  <2>2. Item(g, produced[g]) \in ItemsOf(inbox.gen)
    <3>1. Item(g, produced[g]) \in Tasks
      BY ItemsAreTasks DEF Newest, QueuesHoldTasks
    <3>2. inbox.gen = g /\ g # 0
      BY <1>4, PipelineAssumption DEF Abandoned, Generations
    <3> QED
      BY <3>1, <3>2 DEF ItemsOf, Item
  <2>3. Append(inbox.tasks, Item(g, produced[g])) \in Seq(ItemsOf(inbox.gen))
    BY <2>2, RangeOfAppend DEF Served
  <2> QED
    BY <1>1, <1>4, <2>1, <2>3, ServingOn DEF Served, Abandoned
<1> QED
  BY <1>3, <1>4 DEF ImportStep, ProduceBatch, PushBatch, ImportEnds

(* The upload thread takes and publishes items of the generation served.    *)
LEMMA UploadServes ==
  ASSUME Newest, Served, Budgets, UploadStep
  PROVE  Served'
<1>1. UNCHANGED <<rpc, fatal, cancelled, uipc>>
  BY DEF UploadStep, TakeTask, Reserve, Copy, Publish, deviceVars, uiVars,
         importVars
<1>2. CASE TakeTask
  <2>1. CASE UNCHANGED <<task, inbox>> /\ upc' = "ended"
    BY <1>1, <2>1, ServingOn DEF Served
  <2>2. CASE /\ ~inbox.stopped /\ inbox.tasks # <<>> /\ task' = Head(inbox.tasks)
             /\ inbox' = [inbox EXCEPT !.tasks = Tail(@)]
    <3>1. /\ inbox'.tasks = Tail(inbox.tasks)
          /\ inbox'.publications = inbox.publications
          /\ inbox'.gen = inbox.gen /\ inbox'.stopped = inbox.stopped
      BY <2>2 DEF Newest, ServesNewest, InboxFields
    <3>2. Tail(inbox.tasks) \in Seq(ItemsOf(inbox.gen))
          /\ Head(inbox.tasks) \in ItemsOf(inbox.gen)
      BY <2>2, RangeOfTail DEF Served
    <3>3. task'.gen \in Generations
      BY <2>2, <3>2 DEF ItemsOf
    <3> QED
      BY <1>1, <2>2, <3>1, <3>2, <3>3, ServingOn DEF Served
  <2> QED
    BY <1>2, <2>1, <2>2 DEF TakeTask
<1>3. CASE Reserve \/ Copy
  <2>1. task \in Tasks /\ task.gen \in Generations
    BY <1>3 DEF Newest, QueuesHoldTasks, Served, Reserve, Copy
  <2>2. task' \in {task, [task EXCEPT !.ok = FALSE], [task EXCEPT !.gpu = 1]}
    BY <1>3 DEF Reserve, Copy
  <2>3. task'.gen \in Generations
    BY <2>1, <2>2 DEF Tasks
  <2>4. /\ inbox'.tasks = inbox.tasks /\ inbox'.publications = inbox.publications
        /\ inbox'.gen = inbox.gen /\ inbox'.stopped = inbox.stopped
    BY <1>3 DEF Reserve, Copy, Newest, ServesNewest, InboxFields
  <2> QED
    BY <1>1, <2>3, <2>4, ServingOn DEF Served
<1>4. CASE Publish
  <2>1. upc = "publish" /\ upc' = "wait" /\ task \in Tasks /\ task.gen \in Generations
    BY <1>4 DEF Publish, Newest, QueuesHoldTasks, Served
  <2>2. /\ inbox'.tasks = inbox.tasks
        /\ inbox'.gen = inbox.gen /\ inbox'.stopped = inbox.stopped
    BY <1>4 DEF Publish, Uncharge, Newest, ServesNewest, InboxFields
  <2>3. CASE Current(task)
    <3>1. inbox'.publications = Append(inbox.publications, task)
      BY <1>4, <2>3 DEF Publish, Newest, ServesNewest, InboxFields
    <3>2. task \in ItemsOf(inbox.gen) /\ ~inbox.stopped
      BY <2>1, <2>3 DEF Current, ItemsOf
    <3>3. Append(inbox.publications, task) \in Seq(ItemsOf(inbox.gen))
      BY <3>2, RangeOfAppend DEF Served
    <3> QED
      BY <1>1, <2>1, <2>2, <3>1, <3>2, <3>3, ServingOn DEF Served
  <2>4. CASE ~Current(task)
    <3>1. inbox'.publications = inbox.publications
      BY <1>4, <2>4 DEF Publish, Uncharge, Newest, ServesNewest, InboxFields
    <3> QED
      BY <1>1, <2>1, <2>2, <3>1, ServingOn DEF Served
  <2> QED
    BY <2>3, <2>4
<1> QED
  BY <1>2, <1>3, <1>4 DEF UploadStep

(* The render thread takes publications, empties and resets the inbox.      *)
LEMMA RenderServes ==
  ASSUME Newest, Served, Freshness, Budgets, RenderStep \/ DeviceRemoved
  PROVE  Served'
<1>0. ServesNewest
  BY DEF Newest
<1>1. CASE PumpUploads
  <2>1. UNCHANGED <<task, upc, rpc, fatal, cancelled, uipc>>
    BY <1>1 DEF PumpUploads, uploadVars, deviceVars, uiVars, importVars
  <2>2. CASE UNCHANGED inbox
    BY <2>1, <2>2, ServingOn DEF Served
  <2>3. CASE /\ inbox.publications # <<>>
             /\ inbox' = Uncharge([inbox EXCEPT !.publications = Tail(@)],
                                  Head(inbox.publications))
    <3>1. /\ inbox'.tasks = inbox.tasks
          /\ inbox'.publications = Tail(inbox.publications)
          /\ inbox'.gen = inbox.gen /\ inbox'.stopped = inbox.stopped
      BY <1>0, <2>3 DEF Uncharge, ServesNewest, InboxFields
    <3>2. Tail(inbox.publications) \in Seq(ItemsOf(inbox.gen))
      BY <2>3, RangeOfTail DEF Served
    <3> QED
      BY <2>1, <2>3, <3>1, <3>2, ServingOn DEF Served
  <2> QED
    BY <1>1, <2>2, <2>3 DEF PumpUploads
<1>2. CASE FrameFindsLoss \/ ResizeFindsLoss \/ AnswerRequest
  <2>1. /\ UNCHANGED <<task, upc, uipc>> /\ rpc = "loop"
        /\ \E next \in {"join", "loop"} : StartRecovery(next)
    BY <1>2 DEF FrameFindsLoss, ResizeFindsLoss, AnswerRequest, uploadVars, uiVars
  <2>2. CASE /\ inbox' = [Emptied(inbox) EXCEPT !.stopped = TRUE]
             /\ rpc' = "drain" /\ fatal' = fatal
    <3>1. Empties
      BY <1>0, <2>2, Emptying
    <3>2. inbox'.stopped
      BY <1>0, <2>2 DEF Emptied, ServesNewest, InboxFields
    <3> QED
      BY <2>1, <2>2, <3>1, <3>2, EmptyingServes
  <2>3. CASE /\ rpc' \in {"join", "loop"} /\ fatal' = "again"
             /\ UNCHANGED <<cancelled, inbox>>
    BY <2>1, <2>3 DEF Served, Closing
  <2> QED
    BY <2>1, <2>2, <2>3 DEF StartRecovery
<1>3. CASE ResetDevice
  <2>1. /\ inbox'.tasks = inbox.tasks /\ inbox'.publications = inbox.publications
        /\ inbox'.gen = 0 /\ ~inbox'.stopped /\ inbox'.stopped \in BOOLEAN
    BY <1>0, <1>3 DEF ResetDevice, ServesNewest, InboxFields
  <2>2. inbox.tasks = <<>> /\ inbox.publications = <<>> /\ rpc' = "rebuild"
        /\ upc' = "joined" /\ UNCHANGED <<cancelled, uipc>>
    BY <1>3 DEF ResetDevice, Served, uiVars, importVars
  <2>3. 0 \notin Generations
    BY PipelineAssumption DEF Generations
  <2>4. inbox'.tasks \in Seq(ItemsOf(inbox'.gen))
        /\ inbox'.publications \in Seq(ItemsOf(inbox'.gen))
    BY <2>1, <2>2
  <2> QED
    BY <2>1, <2>2, <2>3, <2>4 DEF Served
<1>4. CASE RebuildDevice
  BY <1>4 DEF RebuildDevice, Served, Closing, uiVars, importVars
<1>5. CASE LeaveLoop
  BY <1>5 DEF LeaveLoop, Served, Closing, uiVars, importVars, uploadVars,
              deviceVars
<1>6. CASE JoinUpload
  BY <1>6 DEF JoinUpload, Served, Closing, uiVars, importVars, uploadVars
<1>7. CASE DeviceRemoved
  BY <1>7 DEF DeviceRemoved, Served, Closing, uiVars, importVars, uploadVars
<1> QED
  BY <1>1, <1>2, <1>3, <1>4, <1>5, <1>6, <1>7 DEF RenderStep

(* Every step leaves an inbox that serves one import, or nobody.            *)
LEMMA ServedStep ==
  ASSUME Newest, Served, Freshness, Reports, Budgets, [Next]_vars
  PROVE  Served'
<1>0. ServesNewest
  BY DEF Newest
<1>1. CASE UserOpens \/ UserCancels \/ CloseWindow
  <2>1. /\ Empties /\ UNCHANGED <<task, upc, rpc, fatal>> /\ uipc = "run"
    BY <1>0, <1>1, Events
  <2> QED
    BY <2>1, EmptyingServes
<1>2. CASE HandleMessage
  <2>1. UNCHANGED <<task, upc, rpc, fatal>> /\ uipc = "run"
    BY <1>2 DEF HandleMessage, uploadVars, deviceVars
  <2>2. CASE Empties
    BY <2>1, <2>2, EmptyingServes
  <2>3. CASE UNCHANGED <<uipc, cancelled, inbox>>
    BY <2>1, <2>3, ServingOn DEF Served
  <2>4. CASE /\ FinishImport(generation) /\ Head(messages).kind = "imported"
             /\ Head(messages).gen = generation /\ UNCHANGED <<cancelled, uipc>>
    BY <1>2, <2>4, MarkerServes
  <2> QED
    BY <1>0, <1>2, <2>2, <2>3, <2>4, Handling
<1>3. CASE ArmImport
  <2>1. /\ inbox'.tasks = inbox.tasks /\ inbox'.publications = inbox.publications
        /\ inbox'.gen = generation /\ inbox'.stopped = inbox.stopped
    BY <1>0, <1>3 DEF ArmImport, ServesNewest, InboxFields
  <2>2. UNCHANGED <<task, upc, rpc, fatal, cancelled>> /\ uipc' = "run"
        /\ uipc = "open"
    BY <1>3 DEF ArmImport, uploadVars, deviceVars
  <2>3. inbox.tasks = <<>> /\ inbox.publications = <<>>
    BY <2>2, NothingForNobody DEF Freshness
  <2>4. generation \in Generations => ~cancelled[generation]
    BY <2>2 DEF Freshness, NoTrace
  <2>5. inbox'.tasks \in Seq(ItemsOf(inbox'.gen))
        /\ inbox'.publications \in Seq(ItemsOf(inbox'.gen))
    BY <2>1, <2>3
  <2> QED
    BY <2>1, <2>2, <2>3, <2>4, <2>5 DEF Served, Closing
<1>4. CASE UNCHANGED vars
  BY <1>4, ServingOn
  DEF vars, uiVars, importVars, uploadVars, deviceVars, Served
<1> QED
  BY <1>1, <1>2, <1>3, <1>4, PushServes, UploadServes, RenderServes
  DEF Next, UiStep
-----------------------------------------------------------------------------
(* What has arrived, and what a success means.                              *)

Serving(g) == ~inbox.stopped /\ inbox.gen = g

\* The batches an import has handed over, those it waits to push not counted.
Pushed(g) == IF ipc[g] = "push" THEN produced[g] - 1 ELSE produced[g]

\* On screen once the scene is its own, until then on the stage.
Arrived(g) == IF scene.gen = g THEN scene.batches
              ELSE IF staged.gen = g THEN staged.batches ELSE <<>>
Spoiled(g) == staged.gen = g /\ staged.failed
InHand(g) == IF task.gen = g THEN 1 ELSE 0
Line(g) == InLine(g, Arrived(g), inbox.publications, InHand(g), task,
                  inbox.tasks, Pushed(g), ipc[g])

\* Of the generation served, nothing is missing that is not known to fail.
Flow == \A g \in Generations : Serving(g) => Spoiled(g) \/ Line(g)

\* A successful end is on its way to the UI thread, or has arrived there.
Success(m) == m.kind = "uploaded" /\ m.ok /\ m.terminal
Over(g) ==
    \/ state = "Ready" /\ generation = g
    \/ \E m \in Range(messages) : Success(m) /\ m.gen = g

\* A success stays true.
StaysWhole(g) ==
    /\ ipc[g] = "done"
    /\ hasModel /\ scene.gen = g => Complete(g)
    /\ Serving(g) => hasModel /\ scene.gen = g /\ ~Spoiled(g)
Ends ==
    /\ state = "Ready" => generation \in Generations
    /\ \A m \in Range(messages) : Success(m) => m.gen \in Generations
    /\ \A g \in Generations : Over(g) => StaysWhole(g)

(* The types the line is made of.                                           *)
LEMMA LineTypes ==
  ASSUME Newest, Imports, NEW g \in Generations
  PROVE  /\ g \in Nat /\ g # 0
         /\ Arrived(g) \in Seq(Nat \X Nat) /\ Pushed(g) \in Nat
         /\ InHand(g) \in {0, 1}
         /\ inbox.publications \in Seq(Tasks) /\ inbox.tasks \in Seq(Tasks)
         /\ task \in Tasks
<1>1. g \in Nat /\ g # 0
  BY PipelineAssumption DEF Generations
<1>2. Arrived(g) \in Seq(Nat \X Nat)
  <2>1. scene.batches \in Seq(Nat \X Nat)
    BY DEF Newest, StageIsOfOne
  <2>2. ASSUME staged.gen = g PROVE staged.batches \in Seq(Nat \X Nat)
    <3>1. staged.batches \in Seq({g} \X Nat) /\ {g} \X Nat \subseteq Nat \X Nat
      BY <1>1, <2>2 DEF Newest, StageIsOfOne
    <3> QED
      BY <3>1, SeqMonotonic
  <2>3. <<>> \in Seq(Nat \X Nat)
    OBVIOUS
  <2> QED
    BY <2>1, <2>2, <2>3 DEF Arrived
<1>3. Pushed(g) \in Nat
  <2>1. produced[g] \in Nat /\ (ipc[g] = "push" => produced[g] # 0)
    BY PipelineAssumption DEF Imports
  <2> QED
    BY <2>1 DEF Pushed
<1>4. InHand(g) \in {0, 1}
  BY DEF InHand
<1> QED
  BY <1>1, <1>2, <1>3, <1>4 DEF Newest, QueuesHoldTasks

(* The line does not care for more than the batch held, and for whether the
   import has ended.                                                        *)
LEMMA LineKept ==
  ASSUME NEW g \in Generations, Line(g), Arrived(g)' = Arrived(g),
         inbox'.publications = inbox.publications, inbox'.tasks = inbox.tasks,
         task'.gen = task.gen, task'.batch = task.batch, Pushed(g)' = Pushed(g),
         ipc[g] = "done" => ipc'[g] = "done"
  PROVE  Line(g)'
<1>1. InHand(g)' = InHand(g)
  BY DEF InHand
<1>2. \A k : Slot(Pushed(g), ipc[g], k, task) => Slot(Pushed(g), ipc'[g], k, task')
  BY DEF Slot
<1>3. \A k, t : Slot(Pushed(g), ipc[g], k, t) => Slot(Pushed(g), ipc'[g], k, t)
  BY DEF Slot
<1>4. InLine(g, Arrived(g), inbox.publications, InHand(g), task', inbox.tasks,
             Pushed(g), ipc'[g])
  BY <1>2, <1>3 DEF Line, InLine
<1> QED
  BY <1>1, <1>4 DEF Line

(* What leaves scene and stage alone leaves what has arrived alone.         *)
LEMMA ArrivedKept ==
  ASSUME UNCHANGED staged, scene'.gen = scene.gen, scene'.batches = scene.batches
  PROVE  \A g : Arrived(g)' = Arrived(g) /\ (Spoiled(g)' <=> Spoiled(g))
  BY DEF Arrived, Spoiled

(* A generation newly served starts with nothing on the way.                *)
LEMMA ArmingStarts ==
  ASSUME Newest, Imports, Freshness, Served, ArmImport,
         NEW g \in Generations, Serving(g)'
  PROVE  Line(g)'
<1>1. /\ inbox'.tasks = inbox.tasks /\ inbox'.publications = inbox.publications
      /\ inbox'.gen = generation
  BY DEF ArmImport, Newest, ServesNewest, InboxFields
<1>2. g = generation /\ uipc = "open" /\ UNCHANGED <<task, staged, scene, produced>>
      /\ ipc' = [ipc EXCEPT ![generation] = "run"]
  BY <1>1 DEF Serving, ArmImport, uploadVars, sceneVars
<1>3. inbox.tasks = <<>> /\ inbox.publications = <<>>
  BY <1>2, NothingForNobody DEF Freshness
<1>4. NoTrace(g)
  BY <1>2 DEF Freshness
<1>5. Arrived(g)' = <<>> /\ InHand(g)' = 0
  BY <1>2, <1>4 DEF NoTrace, Arrived, InHand
<1>6. Pushed(g)' = 0
  <2>1. ipc'[g] = "run"
    BY <1>2 DEF Imports
  <2>2. produced'[g] = 0
    BY <1>2, <1>4 DEF NoTrace
  <2> QED
    BY <2>1, <2>2 DEF Pushed
<1>7. InLine(g, <<>>, <<>>, 0, task', <<>>, 0, ipc'[g])
  BY DEF InLine
<1> QED
  BY <1>1, <1>3, <1>5, <1>6, <1>7 DEF Line

(* The import threads push in order.                                        *)
LEMMA ImportFlows ==
  ASSUME Newest, Imports, Freshness, Served, NEW h \in Generations, ImportStep(h),
         NEW g \in Generations, Serving(g), Line(g)
  PROVE  Line(g)'
<1>1. UNCHANGED <<task, staged, scene>>
  BY DEF ImportStep, ProduceBatch, PushBatch, ImportEnds, uploadVars, sceneVars
<1>2. Arrived(g)' = Arrived(g)
  BY <1>1, ArrivedKept
<1>3. CASE ProduceBatch(h) \/ ImportEnds(h)
  <2>1. inbox' = inbox
    BY <1>3 DEF ProduceBatch, ImportEnds
  <2>2. CASE h # g
    <3>1. ipc'[g] = ipc[g] /\ produced'[g] = produced[g]
      BY <1>3, <2>2 DEF ProduceBatch, ImportEnds, Imports
    <3> QED
      BY <1>1, <1>2, <2>1, <3>1, LineKept DEF Pushed
  <2>3. CASE h = g /\ ProduceBatch(g)
    <3>1. /\ ipc[g] = "run" /\ ipc'[g] = "push"
          /\ produced'[g] = produced[g] + 1 /\ produced[g] \in Nat
      BY <2>3, PipelineAssumption DEF ProduceBatch, Imports
    <3>2. Pushed(g)' = Pushed(g)
      BY <3>1 DEF Pushed
    <3> QED
      BY <1>1, <1>2, <2>1, <3>1, <3>2, LineKept
  <2>4. CASE h = g /\ ImportEnds(g)
    <3>1. ipc[g] = "run" /\ ipc'[g] = "done" /\ produced'[g] = produced[g]
      BY <2>4 DEF ImportEnds, Imports
    <3>2. Pushed(g)' = Pushed(g)
      BY <3>1 DEF Pushed
    <3> QED
      BY <1>1, <1>2, <2>1, <3>1, <3>2, LineKept
  <2> QED
    BY <1>3, <2>2, <2>3, <2>4
<1>4. CASE PushBatch(h) /\ h # g
  <2>1. Abandoned(h)
    BY <1>4 DEF Serving, Abandoned
  <2>2. inbox' = inbox /\ ipc'[g] = ipc[g] /\ produced' = produced
    BY <1>4, <2>1 DEF PushBatch, Imports
  <2> QED
    BY <1>1, <1>2, <2>2, LineKept DEF Pushed
<1>5. CASE PushBatch(g)
  <2> DEFINE t == Item(g, produced[g])
  <2>1. ~Abandoned(g)
    BY DEF Serving, Served, Abandoned
  <2>2. /\ inbox'.tasks = Append(inbox.tasks, t)
        /\ inbox'.publications = inbox.publications
        /\ ipc[g] = "push" /\ ipc' = [ipc EXCEPT ![g] = "run"] /\ produced' = produced
    BY <1>5, <2>1 DEF PushBatch, Newest, ServesNewest, InboxFields
  <2>3. ipc'[g] = "run" /\ produced[g] \in Nat /\ produced[g] # 0
    BY <2>2, PipelineAssumption DEF Imports
  <2>4. Pushed(g)' = Pushed(g) + 1 /\ Pushed(g)' = produced[g]
    BY <2>2, <2>3 DEF Pushed
  <2>5. t \in Tasks /\ t.batch = Pushed(g) + 1
    <3>1. t \in Tasks
      BY <2>3, ItemsAreTasks
    <3> QED
      BY <2>2, <2>4, <3>1 DEF Item
  <2>6. InHand(g)' = InHand(g) /\ task' = task
    BY <1>1 DEF InHand
  <2> DEFINE ph == ipc'[g]
  <2> HIDE DEF t, ph
  <2>7. InLine(g, Arrived(g), inbox.publications, InHand(g), task,
               Append(inbox.tasks, t), Pushed(g) + 1, ph)
    <3> DEFINE A == Arrived(g)
               P == inbox.publications
               H == InHand(g)
               Q == inbox.tasks
               n == Pushed(g)
               old == ipc[g]
    <3>1. /\ A \in Seq(Nat \X Nat) /\ P \in Seq(Tasks) /\ H \in {0, 1}
          /\ Q \in Seq(Tasks) /\ n \in Nat /\ t \in Tasks
      BY <2>5, LineTypes
    <3>2. InLine(g, A, P, H, task, Q, n, old)
      BY DEF Line
    <3>3. old # "done" /\ t.batch = n + 1
      BY <2>2, <2>5
    <3> HIDE DEF A, P, H, Q, n, old
    <3>4. InLine(g, A, P, H, task, Append(Q, t), n + 1, ph)
      BY <3>1, <3>2, <3>3, LinePush
    <3> QED
      BY <3>4 DEF A, P, H, Q, n
  <2> QED
    BY <1>2, <2>2, <2>4, <2>6, <2>7 DEF Line, ph
<1> QED
  BY <1>3, <1>4, <1>5 DEF ImportStep

(* The marker goes behind everything its import has pushed.                 *)
LEMMA MarkerFlows ==
  ASSUME Newest, Imports, Reports, HandleMessage, FinishImport(generation),
         Head(messages).kind = "imported", Head(messages).gen = generation,
         NEW g \in Generations, Serving(g)', Line(g)
  PROVE  Line(g)'
<1>1. UNCHANGED <<task, staged, scene, ipc, produced>>
  BY DEF HandleMessage, uploadVars, sceneVars
<1>2. Arrived(g)' = Arrived(g) /\ Pushed(g)' = Pushed(g) /\ InHand(g)' = InHand(g)
  BY <1>1, ArrivedKept DEF Pushed, InHand
<1>3. CASE UNCHANGED inbox
  BY <1>1, <1>2, <1>3, LineKept
<1>4. CASE /\ inbox.gen = generation
           /\ inbox' = [inbox EXCEPT !.tasks = Append(@, Item(generation, 0))]
  <2> DEFINE A == Arrived(g)
             P == inbox.publications
             H == InHand(g)
             Q == inbox.tasks
             n == Pushed(g)
             ph == ipc[g]
             t == Item(generation, 0)
  <2>1. /\ inbox'.tasks = Append(Q, t) /\ inbox'.publications = P
        /\ inbox'.gen = inbox.gen
    BY <1>4 DEF Newest, ServesNewest, InboxFields
  <2>2. g = generation
    BY <1>4, <2>1 DEF Serving
  <2>3. ipc[g] = "done"
    <3>1. Head(messages) \in Range(messages)
      BY RangeOfTail DEF Reports, HandleMessage
    <3> QED
      BY <2>2, <3>1 DEF Reports
  <2>4. /\ A \in Seq(Nat \X Nat) /\ P \in Seq(Tasks) /\ H \in {0, 1}
        /\ Q \in Seq(Tasks) /\ n \in Nat
    BY LineTypes
  <2>5. t \in Tasks /\ t.batch = 0
    <3>1. t \in Tasks
      BY <2>2, LineTypes, ItemsAreTasks
    <3> QED
      BY <3>1 DEF Item
  <2>6. InLine(g, A, P, H, task, Q, n, ph)
    BY DEF Line
  <2> HIDE DEF A, P, H, Q, n, ph, t
  <2>7. InLine(g, A, P, H, task, Append(Q, t), n, ph)
    BY <2>3, <2>4, <2>5, <2>6, LineMarker DEF ph
  <2> QED
    BY <1>1, <1>2, <2>1, <2>7 DEF Line, A, P, H, Q, n, ph
<1> QED
  BY <1>3, <1>4 DEF FinishImport

(* The upload thread keeps the order.                                       *)
LEMMA UploadFlows ==
  ASSUME Newest, Imports, Budgets, Served, UploadStep,
         NEW g \in Generations, Serving(g), Line(g)
  PROVE  Line(g)'
<1>1. UNCHANGED <<staged, scene, ipc, produced>>
  BY DEF UploadStep, TakeTask, Reserve, Copy, Publish, importVars, sceneVars
<1>2. Arrived(g)' = Arrived(g) /\ Pushed(g)' = Pushed(g)
  BY <1>1, ArrivedKept DEF Pushed
<1> DEFINE A == Arrived(g)
           P == inbox.publications
           H == InHand(g)
           Q == inbox.tasks
           n == Pushed(g)
           ph == ipc[g]
<1>3. /\ A \in Seq(Nat \X Nat) /\ P \in Seq(Tasks) /\ H \in {0, 1}
      /\ Q \in Seq(Tasks) /\ n \in Nat
      /\ task \in Tasks /\ g \in Nat /\ g # 0
  BY LineTypes
<1>4. InLine(g, A, P, H, task, Q, n, ph)
  BY DEF Line
<1>5. CASE TakeTask
  <2>1. CASE UNCHANGED <<task, inbox>>
    BY <1>1, <1>2, <2>1, LineKept
  <2>2. CASE /\ Q # <<>> /\ task' = Head(Q) /\ inbox' = [inbox EXCEPT !.tasks = Tail(@)]
    <3>1. inbox'.tasks = Tail(Q) /\ inbox'.publications = P
      BY <2>2 DEF Newest, ServesNewest, InboxFields
    <3>2. H = 0
      BY <1>3, <1>5 DEF TakeTask, Budgets, NoItem, Item, InHand
    <3>3. InHand(g)' = 1
      <4>1. Head(Q) \in ItemsOf(inbox.gen)
        BY <2>2, RangeOfTail DEF Served
      <4> QED
        BY <2>2, <4>1 DEF ItemsOf, InHand, Serving
    <3>4. Q # <<>> /\ task' = Head(Q)
      BY <2>2
    <3> HIDE DEF A, P, H, Q, n, ph
    <3>5. InLine(g, A, P, 1, Head(Q), Tail(Q), n, ph)
      BY <1>3, <1>4, <3>2, <3>4, LineTake
    <3> QED
      BY <1>1, <1>2, <3>1, <3>3, <3>4, <3>5 DEF Line, A, P, n, ph
  <2> QED
    BY <1>5, <2>1, <2>2 DEF TakeTask
<1>6. CASE Reserve \/ Copy
  <2>1. task' \in {task, [task EXCEPT !.ok = FALSE], [task EXCEPT !.gpu = 1]}
    BY <1>6 DEF Reserve, Copy
  <2>2. task'.gen = task.gen /\ task'.batch = task.batch
    BY <1>3, <2>1 DEF Tasks
  <2>3. inbox'.tasks = inbox.tasks /\ inbox'.publications = inbox.publications
    BY <1>6 DEF Reserve, Copy, Newest, ServesNewest, InboxFields
  <2> QED
    BY <1>1, <1>2, <2>2, <2>3, LineKept
<1>7. CASE Publish
  <2>1. task' = NoItem /\ InHand(g)' = 0
    BY <1>3, <1>7 DEF Publish, NoItem, Item, InHand
  <2>2. CASE task.gen = g
    <3>1. Current(task)
      BY <2>2 DEF Current, Serving, Served
    <3>2. inbox'.tasks = Q /\ inbox'.publications = Append(P, task)
      BY <1>7, <3>1 DEF Publish, Newest, ServesNewest, InboxFields
    <3>3. H = 1
      BY <2>2 DEF InHand
    <3> HIDE DEF A, P, H, Q, n, ph
    <3>4. InLine(g, A, Append(P, task), 0, NoItem, Q, n, ph)
      BY <1>3, <1>4, <3>3, LinePublish
    <3> QED
      BY <1>1, <1>2, <2>1, <3>2, <3>4 DEF Line, A, P, Q, n, ph
  <2>3. CASE task.gen # g
    <3>1. ~Current(task)
      BY <2>3 DEF Current, Serving
    <3>2. inbox'.tasks = Q /\ inbox'.publications = P
      BY <1>7, <3>1 DEF Publish, Uncharge, Newest, ServesNewest, InboxFields
    <3>3. H = 0
      BY <2>3 DEF InHand
    <3> HIDE DEF A, P, H, Q, n, ph
    <3>4. InLine(g, A, P, 0, NoItem, Q, n, ph)
      BY <1>4, <3>3 DEF InLine
    <3> QED
      BY <1>1, <1>2, <2>1, <3>2, <3>4 DEF Line, A, P, Q, n, ph
  <2> QED
    BY <2>2, <2>3
<1> QED
  BY <1>5, <1>6, <1>7 DEF UploadStep

(* The stage a generation's publications are added to.                      *)
LEMMA StageOf ==
  ASSUME Newest, NEW g \in Nat, g # 0, inbox.gen = g
  PROVE  /\ StageFor(g).failed <=> Spoiled(g)
         /\ scene.gen # g => StageFor(g).batches = Arrived(g)
         /\ StageNow.gen = g /\ StageNow.failed <=> Spoiled(g)
         /\ (IF StageNow.gen = g THEN StageNow.batches ELSE <<>>)
              = (IF staged.gen = g THEN staged.batches ELSE <<>>)
  BY DEF StageFor, StageNow, EmptyStage, Spoiled, Arrived

(* What PumpUploads does for the generation served.                         *)
LEMMA Pumping ==
  ASSUME Newest, Served, PumpUploads
  PROVE  /\ UNCHANGED <<task, ipc, produced, state, generation, uipc>>
         /\ inbox'.tasks = inbox.tasks
         /\ inbox'.gen = inbox.gen /\ inbox'.stopped = inbox.stopped
         /\ \/ /\ inbox'.publications = inbox.publications
               /\ staged' = StageNow /\ UNCHANGED <<scene, hasModel, messages>>
            \/ /\ inbox.publications # <<>> /\ ~inbox.stopped
               /\ inbox'.publications = Tail(inbox.publications)
               /\ LET p == Head(inbox.publications) IN
                  /\ p \in Tasks /\ p.gen = inbox.gen /\ p.gen \in Generations
                  /\ \/ Terminal(p) /\ AcceptTerminal(p)
                     \/ ~Terminal(p) /\ p.ok /\ AcceptBatch(p)
                     \/ ~Terminal(p) /\ ~p.ok /\ AcceptFailure(p)
<1>1. UNCHANGED <<task, ipc, produced, state, generation, uipc>>
  BY DEF PumpUploads, uploadVars, importVars, uiVars
<1>2. CASE inbox.publications = <<>>
  BY <1>1, <1>2 DEF PumpUploads
<1>3. CASE inbox.publications # <<>>
  <2> DEFINE p == Head(inbox.publications)
  <2>1. /\ inbox'.tasks = inbox.tasks
        /\ inbox'.publications = Tail(inbox.publications)
        /\ inbox'.gen = inbox.gen /\ inbox'.stopped = inbox.stopped
    BY <1>3 DEF PumpUploads, Uncharge, Newest, ServesNewest, InboxFields
  <2>2. p \in ItemsOf(inbox.gen) /\ ~inbox.stopped
    BY <1>3, RangeOfTail DEF Served
  <2>3. p \in Tasks /\ p.gen = inbox.gen /\ p.gen \in Generations
    BY <2>2 DEF ItemsOf
  <2>4. \/ Terminal(p) /\ AcceptTerminal(p)
        \/ ~Terminal(p) /\ p.ok /\ AcceptBatch(p)
        \/ ~Terminal(p) /\ ~p.ok /\ AcceptFailure(p)
    BY <1>3, <2>3 DEF PumpUploads, Accepts, Terminal
  <2> QED
    BY <1>1, <1>3, <2>1, <2>2, <2>3, <2>4
<1> QED
  BY <1>2, <1>3

(* What is taken from the publications arrives, or spoils its import.       *)
LEMMA PumpFlows ==
  ASSUME Newest, Imports, Served, PumpUploads,
         NEW g \in Generations, Serving(g), Spoiled(g) \/ Line(g)
  PROVE  Spoiled(g)' \/ Line(g)'
<1>1. /\ UNCHANGED <<task, ipc, produced>> /\ inbox'.tasks = inbox.tasks
  BY Pumping
<1>2. Pushed(g)' = Pushed(g) /\ InHand(g)' = InHand(g)
  BY <1>1 DEF Pushed, InHand
<1>3. inbox.gen = g /\ g \in Nat /\ g # 0
  BY LineTypes DEF Serving
<1>4. CASE /\ inbox'.publications = inbox.publications
           /\ staged' = StageNow /\ UNCHANGED scene
  <2>1. Arrived(g)' = Arrived(g) /\ (Spoiled(g)' <=> Spoiled(g))
    BY <1>3, <1>4, StageOf DEF Arrived, Spoiled
  <2> QED
    BY <1>1, <1>2, <1>4, <2>1, LineKept
<1> DEFINE p == Head(inbox.publications)
           A == Arrived(g)
           P == inbox.publications
           H == InHand(g)
           Q == inbox.tasks
           n == Pushed(g)
           ph == ipc[g]
<1>5. /\ A \in Seq(Nat \X Nat) /\ P \in Seq(Tasks) /\ H \in {0, 1}
      /\ Q \in Seq(Tasks) /\ n \in Nat
  BY LineTypes
<1>6. Line(g) => InLine(g, A, P, H, task, Q, n, ph)
  BY DEF Line
<1>7. CASE /\ P # <<>> /\ inbox'.publications = Tail(P)
           /\ p \in Tasks /\ p.gen = g
           /\ Terminal(p) /\ AcceptTerminal(p)
  <2>1. staged' = StageFor(g) /\ scene' = scene
    BY <1>7 DEF AcceptTerminal
  <2>2. StageFor(g).gen = g
    BY <1>3, StageForOne DEF Newest
  <2>3. Arrived(g)' = Arrived(g) /\ (Spoiled(g)' <=> Spoiled(g))
    BY <1>3, <2>1, <2>2, StageOf DEF Arrived, Spoiled
  <2>4. ASSUME Line(g) PROVE Line(g)'
    <3>2. InLine(g, A, P, H, task, Q, n, ph)
      BY <1>6, <2>4
    <3>4. P # <<>>
      BY <1>7
    <3>5. Head(P).batch = 0
      BY <1>7 DEF Terminal
    <3> HIDE DEF A, P, H, Q, n, ph
    <3>3. InLine(g, A, Tail(P), H, task, Q, n, ph)
      BY <1>5, <3>4, <3>5, <3>2, LineEnd
    <3> QED
      BY <1>1, <1>2, <1>7, <2>3, <3>3 DEF Line, A, P, H, Q, n, ph
  <2> QED
    BY <2>3, <2>4
<1>8. CASE /\ P # <<>> /\ inbox'.publications = Tail(P)
           /\ p \in Tasks /\ p.gen = g
           /\ ~Terminal(p) /\ AcceptBatch(p)
  <2> DEFINE b == <<g, p.batch>>
             st == StageFor(g)
  <2>1. /\ staged'.gen = g /\ (st.failed => staged'.failed)
        /\ \/ /\ scene.gen = g /\ scene'.gen = g
              /\ scene'.batches = Append(scene.batches, b)
           \/ /\ scene.gen # g /\ scene'.gen = g
              /\ scene'.batches = Append(st.batches, b)
           \/ /\ scene.gen # g /\ UNCHANGED <<scene, hasModel>>
              /\ staged'.batches = Append(st.batches, b)
    BY <1>8, Accepting DEF Newest
  <2>2. (st.failed <=> Spoiled(g)) /\ (scene.gen # g => st.batches = Arrived(g))
    BY <1>3, StageOf
  <2>3. CASE Spoiled(g)
    BY <2>1, <2>2, <2>3 DEF Spoiled
  <2>4. CASE Line(g)
    <3> HIDE DEF st, b
    <3>1. Arrived(g)' = Append(Arrived(g), b)
      BY <2>1, <2>2 DEF Arrived
    <3>2. P # <<>> /\ Head(P).batch # 0 /\ b = <<g, Head(P).batch>>
      BY <1>8 DEF Terminal, b
    <3>3. InLine(g, A, P, H, task, Q, n, ph)
      BY <1>6, <2>4
    <3>4. inbox'.publications = Tail(P)
      BY <1>8
    <3> HIDE DEF A, P, H, Q, n, ph
    <3>5. InLine(g, Append(A, b), Tail(P), H, task, Q, n, ph)
      BY <1>5, <3>2, <3>3, LineAccept
    <3> QED
      BY <1>1, <1>2, <3>1, <3>4, <3>5 DEF Line, A, P, H, Q, n, ph
  <2> QED
    BY <2>3, <2>4
<1>9. CASE p.gen = g /\ p \in Tasks /\ AcceptFailure(p)
  <2>1. staged' = [StageFor(g) EXCEPT !.failed = TRUE]
    BY <1>9 DEF AcceptFailure
  <2>2. DOMAIN StageFor(g) = {"gen", "batches", "failed"} /\ StageFor(g).gen = g
    BY <1>3, StageForOne DEF Newest
  <2> QED
    BY <2>1, <2>2 DEF Spoiled
<1> QED
  BY <1>3, <1>4, <1>7, <1>8, <1>9, Pumping

(* Of the generation served nothing gets lost unnoticed.                    *)
LEMMA FlowStep ==
  ASSUME Newest, Imports, Budgets, Freshness, Reports, Served, Flow, [Next]_vars
  PROVE  Flow'
<1> SUFFICES ASSUME NEW g \in Generations, Serving(g)'
             PROVE  Spoiled(g)' \/ Line(g)'
  BY DEF Flow
<1>0. g # 0 /\ ServesNewest
  BY LineTypes DEF Newest
<1>1. CASE Empties
  BY <1>0, <1>1 DEF Empties, Serving
<1>2. CASE ArmImport
  BY <1>2, ArmingStarts
<1>3. CASE UNCHANGED <<inbox, task, staged, ipc, produced>>
           /\ scene'.gen = scene.gen /\ scene'.batches = scene.batches
  <2>1. Spoiled(g) \/ Line(g)
    BY <1>3 DEF Flow, Serving
  <2>2. Arrived(g)' = Arrived(g) /\ (Spoiled(g)' <=> Spoiled(g))
    BY <1>3, ArrivedKept
  <2> QED
    BY <1>3, <2>1, <2>2, LineKept DEF Pushed
<1>4. CASE HandleMessage
  <2>1. UNCHANGED <<task, staged, scene, ipc, produced>>
    BY <1>4 DEF HandleMessage, uploadVars, sceneVars
  <2>2. CASE /\ FinishImport(generation) /\ Head(messages).kind = "imported"
             /\ Head(messages).gen = generation
    <3>1. inbox'.gen = inbox.gen /\ inbox'.stopped = inbox.stopped
      BY <1>0, <2>2 DEF FinishImport, ServesNewest, InboxFields
    <3>2. Spoiled(g) \/ Line(g)
      BY <3>1 DEF Flow, Serving
    <3>3. Spoiled(g) => Spoiled(g)'
      BY <2>1 DEF Spoiled
    <3> QED
      BY <1>4, <2>2, <3>2, <3>3, MarkerFlows
  <2> QED
    BY <1>0, <1>1, <1>3, <1>4, <2>1, <2>2, Handling
<1>5. CASE \E h \in Generations : ImportStep(h)
  <2>1. PICK h \in Generations : ImportStep(h)
    BY <1>5
  <2>2. inbox'.gen = inbox.gen /\ inbox'.stopped = inbox.stopped /\ staged' = staged
    BY <1>0, <2>1 DEF ImportStep, ProduceBatch, PushBatch, ImportEnds,
       ServesNewest, InboxFields, sceneVars
  <2>3. Serving(g) /\ (Spoiled(g) => Spoiled(g)')
    BY <2>2 DEF Serving, Spoiled
  <2> QED
    BY <2>1, <2>3, ImportFlows DEF Flow
<1>6. CASE UploadStep
  <2>1. staged' = staged
    BY <1>6 DEF UploadStep, TakeTask, Reserve, Copy, Publish, sceneVars
  <2>2. inbox'.gen = inbox.gen /\ inbox'.stopped = inbox.stopped
    <3>1. CASE TakeTask \/ Reserve \/ Copy
      BY <1>0, <3>1 DEF TakeTask, Reserve, Copy, ServesNewest, InboxFields
    <3>2. CASE Publish
      BY <1>0, <3>2 DEF Publish, Uncharge, ServesNewest, InboxFields
    <3> QED
      BY <1>6, <3>1, <3>2 DEF UploadStep
  <2>3. Serving(g) /\ (Spoiled(g) => Spoiled(g)')
    BY <2>1, <2>2 DEF Serving, Spoiled
  <2> QED
    BY <1>6, <2>3, UploadFlows DEF Flow
<1>7. CASE PumpUploads
  <2>1. Serving(g)
    BY <1>7, Pumping DEF Serving
  <2> QED
    BY <1>7, <2>1, PumpFlows DEF Flow
<1>8. CASE FrameFindsLoss \/ ResizeFindsLoss \/ AnswerRequest
  <2>1. UNCHANGED <<task, staged, scene, ipc, produced>>
        /\ (UNCHANGED inbox \/ inbox' = [Emptied(inbox) EXCEPT !.stopped = TRUE])
    BY <1>8 DEF FrameFindsLoss, ResizeFindsLoss, AnswerRequest, StartRecovery, uploadVars, sceneVars
  <2> QED
    BY <1>0, <1>1, <1>3, <2>1, Emptying
<1>9. CASE ResetDevice
  BY <1>0, <1>9 DEF ResetDevice, Serving, ServesNewest, InboxFields
<1>10. CASE JoinUpload
  <2>1. CASE fatal = "no"
    <3>1. inbox.gen = 0 /\ inbox' = inbox
      BY <1>10, <2>1 DEF JoinUpload, Served
    <3> QED
      BY <1>0, <3>1 DEF Serving
  <2>2. CASE fatal # "no"
    <3>1. UNCHANGED <<inbox, task, staged, scene, ipc, produced>>
      BY <1>10, <2>2 DEF JoinUpload, uploadVars, importVars
    <3> QED
      BY <1>3, <3>1
  <2> QED
    BY <2>1, <2>2
<1>11. CASE RebuildDevice \/ LeaveLoop \/ DeviceRemoved \/ UNCHANGED vars
  <2>1. UNCHANGED <<inbox, task, staged, scene, ipc, produced>>
    BY <1>11 DEF RebuildDevice, LeaveLoop, DeviceRemoved, vars, uploadVars,
       importVars, sceneVars
  <2> QED
    BY <1>3, <2>1
<1>12. CASE UserOpens \/ UserCancels \/ CloseWindow
  BY <1>0, <1>1, <1>12, Events
<1> QED
  BY <1>2, <1>4, <1>5, <1>6, <1>7, <1>8, <1>9, <1>10, <1>11, <1>12
  DEF Next, UiStep, RenderStep

\* PumpUploads reports the end of an import that arrived whole.
Succeeds(g) ==
    /\ PumpUploads /\ inbox.publications # <<>> /\ inbox.gen = g
    /\ g \in Generations
    /\ Terminal(Head(inbox.publications))
    /\ AcceptTerminal(Head(inbox.publications)) /\ Whole(StageFor(g), g)

(* What is ready is what was reported.                                      *)
LEMMA ReadyStep ==
  ASSUME Newest, Reports, [Next]_vars, state' = "Ready"
  PROVE  /\ generation' = generation
         /\ \/ state = "Ready"
            \/ \E m \in Range(messages) : Success(m) /\ m.gen = generation
<1>0. ServesNewest
  BY DEF Newest
<1>1. CASE UserOpens \/ UserCancels \/ CloseWindow
  BY <1>0, <1>1, Events
<1>2. CASE HandleMessage
  <2>1. Head(messages) \in Range(messages)
    BY <1>2, RangeOfTail DEF HandleMessage, Reports
  <2> QED
    BY <1>0, <1>2, <2>1, Handling DEF Success
<1>3. CASE ~(UserOpens \/ UserCancels \/ CloseWindow \/ HandleMessage)
  <2>1. UNCHANGED <<state, generation>>
    BY <1>3 DEF Next, vars, UiStep, ArmImport, ImportStep, ProduceBatch,
       PushBatch, ImportEnds, UploadStep, TakeTask, Reserve, Copy, Publish,
       RenderStep, PumpUploads, FrameFindsLoss, ResizeFindsLoss, AnswerRequest, ResetDevice,
       RebuildDevice, LeaveLoop, JoinUpload, DeviceRemoved, uiVars
  <2> QED
    BY <2>1
<1> QED
  BY <1>1, <1>2, <1>3

(* Success comes from PumpUploads.                                          *)
LEMMA OverStep ==
  ASSUME Newest, Reports, Served, [Next]_vars, NEW g, Over(g)'
  PROVE  Over(g) \/ Succeeds(g)
<1>1. CASE state' = "Ready" /\ generation' = g
  BY <1>1, ReadyStep DEF Over
<1>2. ASSUME NEW m \in Range(messages'), Success(m), m.gen = g
      PROVE  Over(g) \/ Succeeds(g)
  <2>1. CASE m \in Range(messages)
    BY <1>2, <2>1 DEF Over
  <2>2. CASE messages' \in {messages, <<>>}
    <3>1. Range(<<>>) = {}
      BY DEF Range
    <3> QED
      BY <1>2, <2>1, <2>2, <3>1
  <2>3. CASE messages # <<>> /\ messages' = Tail(messages)
    BY <1>2, <2>1, <2>3, RangeOfTail DEF Reports
  <2>4. ASSUME NEW x \in Messages, Posted(x) PROVE m \in Range(messages) \/ m = x
    <3>1. Range(Append(messages, x)) = Range(messages) \cup {x}
      BY <2>4, RangeOfAppend DEF Reports
    <3>2. CASE messages' = messages
      BY <1>2, <3>2
    <3>3. CASE messages' = Append(messages, x)
      BY <1>2, <3>1, <3>3
    <3> QED
      BY <2>4, <3>2, <3>3 DEF Posted
  <2>5. ASSUME NEW x \in Messages, Posted(x), x.kind # "uploaded"
        PROVE  m \in Range(messages)
    BY <1>2, <2>4, <2>5 DEF Success
  <2>6. ASSUME NEW x \in Messages, Posted(x), PumpUploads,
               inbox.publications # <<>>,
               x.gen = Head(inbox.publications).gen, x.gen = inbox.gen,
               x.terminal => AcceptTerminal(Head(inbox.publications)),
               x.terminal /\ x.ok =>
                  Whole(StageFor(x.gen), x.gen) /\ Terminal(Head(inbox.publications))
        PROVE  Over(g) \/ Succeeds(g)
    <3>1. CASE m = x
      <4>1. Head(inbox.publications).gen \in Generations
        BY <2>6, RangeOfTail DEF Served, ItemsOf
      <4> QED
        BY <1>2, <2>6, <3>1, <4>1 DEF Success, Succeeds
    <3> QED
      BY <2>1, <2>4, <2>6, <3>1
  <2> QED
    BY <2>1, <2>2, <2>3, <2>5, <2>6, MessagesStep
<1> QED
  BY <1>1, <1>2 DEF Over

(* What succeeded has nothing left on the way but markers.                  *)
LEMMA NothingMissing ==
  ASSUME Newest, Imports, Served, Flow, NEW g \in Generations, StaysWhole(g),
         Serving(g), inbox.publications # <<>>
  PROVE  Terminal(Head(inbox.publications))
<1> SUFFICES ASSUME Head(inbox.publications).batch # 0 PROVE FALSE
  BY DEF Terminal
<1>1. hasModel /\ scene.gen = g /\ ~Spoiled(g) /\ Complete(g) /\ ipc[g] = "done"
  BY DEF StaysWhole
<1>2. Line(g)
  BY <1>1 DEF Flow
<1> DEFINE A == Arrived(g)
           P == inbox.publications
           H == InHand(g)
           Q == inbox.tasks
           n == Pushed(g)
           ph == ipc[g]
<1>3. /\ A \in Seq(Nat \X Nat) /\ P \in Seq(Tasks) /\ H \in {0, 1}
      /\ Q \in Seq(Tasks) /\ n \in Nat
  BY LineTypes
<1>4. InLine(g, A, P, H, task, Q, n, ph)
  BY <1>2 DEF Line
<1>5. Len(A) = n
  <2>1. A = [b \in 1 .. n |-> <<g, b>>]
    BY <1>1 DEF Arrived, Complete, Pushed
  <2>2. DOMAIN A = 1 .. n /\ DOMAIN A = 1 .. Len(A) /\ Len(A) \in Nat
    BY <1>3, <2>1, LenProperties
  <2> HIDE DEF A, n
  <2> QED
    BY <1>3, <2>2
<1>6. P # <<>> /\ Head(P).batch # 0
  OBVIOUS
<1> DEFINE b == <<g, Head(P).batch>>
<1>7. b \in Nat \X Nat
  <2>1. g \in Nat
    BY LineTypes
  <2>2. Head(P) \in Tasks
    BY <1>3, <1>6, RangeOfTail
  <2>3. Head(P).batch \in Nat
    BY <2>2 DEF Tasks
  <2> QED
    BY <2>1, <2>3
<1> HIDE DEF A, P, H, Q, n, ph
<1>8. InLine(g, Append(A, <<g, Head(P).batch>>), Tail(P), H, task, Q, n, ph)
  BY <1>3, <1>4, <1>6, LineAccept
<1>9. Len(Append(A, b)) = n + 1
  BY <1>3, <1>5, <1>7
<1>10. Len(Append(A, b)) <= n
  BY <1>8 DEF InLine
<1> QED
  BY <1>3, <1>9, <1>10

(* A success stays true whatever happens next.                              *)
LEMMA StaysWholeStep ==
  ASSUME Newest, Imports, Freshness, Reports, Served, Flow, [Next]_vars,
         NEW g \in Generations, StaysWhole(g)
  PROVE  StaysWhole(g)'
<1>0. /\ ipc'[g] = "done" /\ produced'[g] = produced[g] /\ ServesNewest
      /\ g \in Nat /\ g # 0
  BY ImportPhases, LineTypes DEF StaysWhole, Newest
<1>1. scene'.batches = scene.batches => Complete(g)' = Complete(g)
  BY <1>0 DEF Complete
<1>2. CASE PumpUploads
  <2>1. Serving(g)' = Serving(g) /\ (Serving(g) => inbox.gen = g)
    BY <1>2, Pumping DEF Serving
  <2>2. CASE staged' = StageNow /\ UNCHANGED <<scene, hasModel>>
    <3>1. Serving(g) => (Spoiled(g)' <=> Spoiled(g))
      BY <1>0, <2>1, <2>2, StageOf DEF Spoiled
    <3> QED
      BY <1>0, <1>1, <2>1, <2>2, <3>1 DEF StaysWhole
  <2>3. CASE inbox.publications # <<>> /\ ~inbox.stopped
             /\ Head(inbox.publications).gen = inbox.gen
    <3> DEFINE p == Head(inbox.publications)
    <3>1. CASE Serving(g)
      <4>1. Terminal(p)
        BY <2>3, <3>1, NothingMissing
      <4>2. p.gen = g /\ ~(staged' = StageNow /\ UNCHANGED <<scene, hasModel, messages>>) =>
              AcceptTerminal(p)
        BY <1>2, <4>1, Pumping
      <4>3. CASE AcceptTerminal(p)
        <5>1. p.gen = g
          BY <2>3, <3>1 DEF Serving
        <5>2. staged' = StageFor(g) /\ UNCHANGED <<scene, hasModel>>
          BY <4>3, <5>1 DEF AcceptTerminal
        <5>3. Spoiled(g)' <=> Spoiled(g)
          <6>1. StageFor(g).gen = g
            BY <1>0, StageForOne DEF Newest
          <6> QED
            BY <1>0, <2>1, <3>1, <5>2, <6>1, StageOf DEF Spoiled
        <5> QED
          BY <1>0, <1>1, <2>1, <5>2, <5>3 DEF StaysWhole
      <4> QED
        BY <2>2, <2>3, <3>1, <4>2, <4>3 DEF Serving
    <3>2. CASE ~Serving(g)
      <4>1. p.gen # g /\ p.gen \in Nat
        BY <2>3, <3>2 DEF Serving, Newest, QueuesHoldTasks, Tasks
      <4>2. scene'.gen # g \/ UNCHANGED <<scene, hasModel>>
        <5>1. p \in Tasks
          BY <2>3 DEF Newest, QueuesHoldTasks
        <5>2. AcceptBatch(p) => scene'.gen = p.gen \/ UNCHANGED <<scene, hasModel>>
          BY <5>1, Accepting DEF Newest
        <5> QED
          BY <1>2, <4>1, <5>2, Pumping DEF AcceptTerminal, AcceptFailure
      <4> QED
        BY <1>0, <1>1, <2>1, <3>2, <4>2 DEF StaysWhole
    <3> QED
      BY <3>1, <3>2
  <2> QED
    BY <1>2, <2>2, <2>3, Pumping
<1>3. CASE ~PumpUploads
  <2>1. staged' = staged
    BY <1>3, SceneUntouched
  <2>2. Spoiled(g)' <=> Spoiled(g)
    BY <2>1 DEF Spoiled
  <2>3. \/ UNCHANGED <<scene, hasModel>>
        \/ ~hasModel' /\ ~Serving(g)'
    <3>1. CASE ResetDevice
      BY <1>0, <3>1 DEF ResetDevice, Serving, ServesNewest, InboxFields
    <3>2. CASE JoinUpload
      <4>1. CASE fatal = "no"
        <5>1. inbox.gen = 0 /\ inbox' = inbox /\ hasModel' = FALSE
          BY <3>2, <4>1 DEF JoinUpload, Served
        <5> QED
          BY <1>0, <5>1 DEF Serving
      <4> QED
        BY <3>2, <4>1 DEF JoinUpload
    <3>3. CASE ~ResetDevice /\ ~JoinUpload
      BY <1>3, <3>3 DEF Next, vars, UserOpens, UserCancels, CloseWindow, UiStep,
         ArmImport, HandleMessage, ImportStep, ProduceBatch, PushBatch, ImportEnds,
         UploadStep, TakeTask, Reserve, Copy, Publish, RenderStep, FrameFindsLoss, ResizeFindsLoss,
         AnswerRequest, RebuildDevice, LeaveLoop, DeviceRemoved, sceneVars
    <3> QED
      BY <3>1, <3>2, <3>3
  <2>4. Serving(g)' => Serving(g)
    <3> SUFFICES ASSUME Serving(g)' PROVE Serving(g)
      OBVIOUS
    <3>1. inbox'.gen = g /\ ~inbox'.stopped
      BY DEF Serving
    <3>2. inbox.gen = g
      <4>1. CASE ArmImport /\ inbox'.gen = generation
        BY <1>0, <3>1, <4>1 DEF ArmImport, Freshness, StaysWhole
      <4>2. CASE inbox'.gen \in {inbox.gen, 0}
        BY <1>0, <3>1, <4>2
      <4> QED
        BY <4>1, <4>2, TokensStep
    <3>3. inbox'.stopped = inbox.stopped \/ inbox'.stopped \/ ResetDevice
      <4>1. CASE UserOpens \/ UserCancels \/ CloseWindow
        BY <1>0, <3>1, <3>2, <4>1, Events DEF Empties
      <4>2. CASE HandleMessage
        BY <1>0, <3>1, <3>2, <4>2, Handling DEF Empties, FinishImport, ServesNewest, InboxFields
      <4>3. CASE FrameFindsLoss \/ ResizeFindsLoss \/ AnswerRequest
        BY <1>0, <4>3 DEF FrameFindsLoss, ResizeFindsLoss, AnswerRequest, StartRecovery,
           Emptied, InboxFields, ServesNewest
      <4>4. CASE ~(UserOpens \/ UserCancels \/ CloseWindow \/ HandleMessage
                   \/ FrameFindsLoss \/ ResizeFindsLoss \/ AnswerRequest \/ ResetDevice)
        BY <1>0, <1>3, <4>4 DEF Next, vars, UiStep,
         ArmImport, ImportStep, ProduceBatch, PushBatch, ImportEnds,
         UploadStep, TakeTask, Reserve, Copy, Publish, Uncharge, RenderStep, RebuildDevice,
         LeaveLoop, JoinUpload, DeviceRemoved, InboxFields, ServesNewest
      <4> QED
        BY <4>1, <4>2, <4>3, <4>4
    <3>4. ~ResetDevice
      BY <1>0, <3>1 DEF ResetDevice, ServesNewest, InboxFields
    <3> QED
      BY <3>1, <3>2, <3>3, <3>4 DEF Serving, Served
  <2> QED
    BY <1>0, <1>1, <2>2, <2>3, <2>4 DEF StaysWhole
<1> QED
  BY <1>2, <1>3

(* An import that is reported as ready has arrived whole.                   *)
LEMMA SuccessIsWhole ==
  ASSUME Newest, Imports, Served, Flow, NEW g \in Generations, Succeeds(g)
  PROVE  StaysWhole(g)'
<1> DEFINE A == Arrived(g)
           P == inbox.publications
           H == InHand(g)
           Q == inbox.tasks
           n == Pushed(g)
           ph == ipc[g]
<1>1. /\ g \in Nat /\ g # 0
      /\ A \in Seq(Nat \X Nat) /\ P \in Seq(Tasks) /\ H \in {0, 1}
      /\ Q \in Seq(Tasks) /\ n \in Nat
  BY LineTypes
<1>2. /\ inbox.gen = g /\ P # <<>> /\ Head(P).batch = 0
      /\ PumpUploads /\ AcceptTerminal(Head(P))
      /\ ~StageFor(g).failed /\ scene.gen = g /\ hasModel
  BY DEF Succeeds, Terminal, Whole
<1>2a. P # <<>> /\ Head(P).batch = 0
  BY <1>2
<1>3. Serving(g)
  BY <1>2 DEF Serving, Served
<1>4. ~Spoiled(g)
  BY <1>1, <1>2, StageOf
<1>5. Line(g)
  BY <1>3, <1>4 DEF Flow
<1>6. InLine(g, A, P, H, task, Q, n, ph)
  BY <1>5 DEF Line
<1>7. A = scene.batches
  BY <1>2 DEF Arrived
<1>8. Head(P).gen = g
  BY <1>2, RangeOfTail DEF Served, ItemsOf
<1>9. ph = "done" /\ Len(A) = n /\ \A b \in 1 .. n : A[b] = <<g, b>>
  <2> HIDE DEF A, P, H, Q, n, ph
  <2>1. ph = "done" /\ Len(A) = n
    BY <1>1, <1>2a, <1>6, LineDone
  <2>2. \A b \in 1 .. Len(A) : A[b] = <<g, b>>
    BY <1>6 DEF InLine
  <2> QED
    BY <2>1, <2>2
<1>10. n = produced[g]
  BY <1>9 DEF Pushed
<1>11. Complete(g)
  <2>1. A = [b \in 1 .. n |-> A[b]]
    <3> HIDE DEF A, n
    <3> QED
      BY <1>1, <1>9, LenProperties
  <2>2. A = [b \in 1 .. n |-> <<g, b>>]
    <3> HIDE DEF A, n
    <3> QED
      BY <1>9, <2>1
  <2> QED
    BY <1>7, <1>10, <2>2 DEF Complete
<1>12. UNCHANGED <<ipc, produced, scene, hasModel>> /\ staged' = StageFor(g)
  BY <1>2, <1>8, Pumping DEF AcceptTerminal
<1>13. ~Spoiled(g)'
  BY <1>2, <1>12 DEF Spoiled
<1>14. Complete(g)'
  BY <1>11, <1>12 DEF Complete
<1> QED
  BY <1>2, <1>9, <1>12, <1>13, <1>14 DEF StaysWhole

(* Every step keeps what is reported as ready whole.                        *)
LEMMA EndsStep ==
  ASSUME Newest, Imports, Freshness, Reports, Served, Flow, Ends, [Next]_vars
  PROVE  Ends'
<1>1. ASSUME NEW g, Over(g)' PROVE g \in Generations /\ StaysWhole(g)'
  <2>1. CASE Over(g)
    <3>1. g \in Generations
      BY <2>1 DEF Over, Ends
    <3> QED
      BY <2>1, <3>1, StaysWholeStep DEF Ends
  <2>2. CASE Succeeds(g)
    <3>1. g \in Generations
      BY <2>2 DEF Succeeds
    <3> QED
      BY <2>2, <3>1, SuccessIsWhole
  <2> QED
    BY <1>1, <2>1, <2>2, OverStep
<1>2. state' = "Ready" => generation' \in Generations
  <2> SUFFICES ASSUME state' = "Ready", NEW g, g = generation'
               PROVE  g \in Generations
    OBVIOUS
  <2>1. Over(g)'
    BY DEF Over
  <2> QED
    BY <1>1, <2>1
<1>3. \A m \in Range(messages') : Success(m) => m.gen \in Generations
  <2> SUFFICES ASSUME NEW m \in Range(messages'), Success(m)
               PROVE  m.gen \in Generations
    OBVIOUS
  <2>1. Over(m.gen)'
    BY DEF Over
  <2> QED
    BY <1>1, <2>1
<1> QED
  BY <1>1, <1>2, <1>3 DEF Ends

-----------------------------------------------------------------------------
(* The invariant behind ReadyIsWhole: a generation is used once, the inbox  *)
(* and what it was given belong to the generation it serves, what arrives   *)
(* of an import that nothing spoiled is in line, and what was reported as   *)
(* ready stays whole.                                                       *)
WholeInv == Freshness /\ Reports /\ Served /\ Flow /\ Ends

(* Nothing has been opened at the start.                                    *)
LEMMA WholeInit ==
  ASSUME Init
  PROVE  WholeInv
<1>1. Range(<<>>) = {} /\ \A S : <<>> \in Seq(S)
  BY DEF Range
<1>2. \A g \in Generations : g \in Nat /\ g # 0
  BY PipelineAssumption DEF Generations, MaxGeneration
<1>3. Freshness
  BY <1>2 DEF Init, Freshness, NoTrace, NoItem, Item, EmptyStage
<1>4. Reports
  BY <1>1 DEF Init, Reports
<1>5. Served
  BY <1>1, <1>2 DEF Init, Served, Closing
<1>6. Flow
  BY <1>2 DEF Init, Flow, Serving
<1>7. Ends
  BY <1>1 DEF Init, Ends, Over
<1> QED
  BY <1>3, <1>4, <1>5, <1>6, <1>7 DEF WholeInv

(* The order in which an import reaches the screen, and what a success      *)
(* stands for: every step keeps the five parts of the invariant.            *)
THEOREM WholenessInvariant == Spec => []WholeInv
<1>1. Init => WholeInv
  BY WholeInit
<1>2. BudgetInv /\ WholeInv /\ [Next]_vars => WholeInv'
  <2> SUFFICES ASSUME BudgetInv, WholeInv, [Next]_vars
               PROVE  WholeInv'
    OBVIOUS
  <2>1. Newest /\ Imports /\ Budgets
    BY DEF BudgetInv
  <2>2. Freshness /\ Reports /\ Served /\ Flow /\ Ends
    BY DEF WholeInv
  <2>3. Freshness'
    BY <2>1, <2>2, FreshnessStep
  <2>4. Reports'
    BY <2>1, <2>2, ReportsStep
  <2>5. Served'
    BY <2>1, <2>2, ServedStep
  <2>6. Flow'
    BY <2>1, <2>2, FlowStep
  <2>7. Ends'
    BY <2>1, <2>2, EndsStep
  <2> QED
    BY <2>3, <2>4, <2>5, <2>6, <2>7 DEF WholeInv
<1> QED
  BY <1>1, <1>2, BudgetsInvariant, PTL DEF Spec

(* A model reported as ready is the whole import, for any number of opens,  *)
(* batches and losses and any capacity of the queue: as long as it is on    *)
(* screen it holds every batch once and in order.                           *)
THEOREM ReadyModelsAreWhole == Spec => []ReadyIsWhole
<1>1. WholeInv => ReadyIsWhole
  <2> SUFFICES ASSUME WholeInv, hasModel
               PROVE  /\ state = "Ready" /\ scene.gen = generation
                           => Complete(generation)
                      /\ \A m \in Range(messages) :
                            m.kind = "uploaded" /\ m.ok /\ m.terminal
                              /\ m.gen = scene.gen => Complete(m.gen)
    BY DEF ReadyIsWhole
  <2>1. \A g \in Generations : Over(g) => StaysWhole(g)
    BY DEF WholeInv, Ends
  <2>2. ASSUME state = "Ready", scene.gen = generation PROVE Complete(generation)
    <3>1. generation \in Generations /\ Over(generation)
      BY <2>2 DEF WholeInv, Ends, Over
    <3> QED
      BY <2>1, <2>2, <3>1 DEF StaysWhole
  <2>3. ASSUME NEW m \in Range(messages), m.kind = "uploaded", m.ok, m.terminal,
               m.gen = scene.gen
        PROVE  Complete(m.gen)
    <3>1. m.gen \in Generations /\ Over(m.gen)
      BY <2>3 DEF WholeInv, Ends, Over, Success
    <3> QED
      BY <2>1, <2>3, <3>1 DEF StaysWhole
  <2> QED
    BY <2>2, <2>3
<1> QED
  BY <1>1, WholenessInvariant, PTL

-----------------------------------------------------------------------------
(***************************************************************************)
(* Type correctness.  Its hard part is that the generations do not run out *)
(* of Generations: recovery opens one file more than the user did, but     *)
(* only once, and a report of a part never makes a file load again that    *)
(* is ready or was cancelled.                                              *)
(***************************************************************************)
Part(m) == m.kind = "uploaded" /\ m.ok /\ ~m.terminal
OkRecovery(m) == m.kind = "recovered" /\ m.ok

\* Messages, the notice and the snapshot name generations that were opened.
Addresses ==
    /\ {snapshot, notice} \subseteq {0} \cup Generations
    /\ \A m \in Range(messages) :
          /\ m.gen \in {0} \cup Generations
          /\ m.kind # "recovered" => m.gen \in Generations /\ ipc[m.gen] # "none"

\* No report of a part comes after the success of its import.
PartsFirst ==
    /\ \A i, j \in 1 .. Len(messages) :
          i < j /\ Success(messages[i]) /\ Part(messages[j])
              => messages[i].gen # messages[j].gen
    /\ state = "Ready" => \A m \in Range(messages) : Part(m) => m.gen # generation

\* At rest, nothing has been opened under the newest generation.
Rested ==
    /\ uipc \in {"run", "open", "closing"}
    /\ state \in {"Rest", "Loading", "Ready", "Failed"}
    /\ uipc = "open" => state = "Loading"
    /\ state = "Rest" /\ generation \in Generations => ipc[generation] = "none"

\* Is the device being recovered?
Recovering == rpc \in {"drain", "rebuild"}
\* There is one report of a recovery, and none before it.
RecoversOnce ==
    /\ Recovering => recoveryAttempted
    /\ ~recoveryAttempted \/ Recovering => \A m \in Range(messages) : ~OkRecovery(m)
    /\ \A i, j \in 1 .. Len(messages) :
          OkRecovery(messages[i]) /\ OkRecovery(messages[j]) => i = j

\* May the UI thread still be told to reopen what was on screen?
Pending ==
    \/ ~recoveryAttempted \/ Recovering
    \/ \E m \in Range(messages) : OkRecovery(m)
\* A file that loads takes one more generation when it is cancelled.
Loads == IF state = "Loading" THEN 1 ELSE 0

\* Reopening takes two: its own generation and that of its cancellation.
Reopens == IF Pending THEN 2 ELSE 0
\* What has happened bounds the generations.
Bounded ==
    /\ requests \in Nat /\ losses \in Nat /\ requests + losses <= MaxEvents
    /\ generation + Loads + Reopens <= 2 * requests + 2

\* Where the render thread is.
Places ==
    /\ rpc \in {"loop", "drain", "rebuild", "join", "ended"}
    /\ fatal \in {"no", "again", "rebuild"}

(* The members of a sequence with one taken from the front or one added.    *)
LEMMA Indices ==
  ASSUME NEW S, NEW s \in Seq(S)
  PROVE  /\ \A i \in 1 .. Len(s) : s[i] \in S /\ s[i] \in Range(s)
         /\ \A x \in Range(s) : \E i \in 1 .. Len(s) : x = s[i]
         /\ s # <<>> =>
               /\ 1 \in 1 .. Len(s) /\ Head(s) = s[1]
               /\ \A i \in 1 .. Len(Tail(s)) :
                     i + 1 \in 1 .. Len(s) /\ Tail(s)[i] = s[i + 1] /\ 1 < i + 1
         /\ \A e \in S : \A i \in 1 .. Len(Append(s, e)) :
               \/ i \in 1 .. Len(s) /\ Append(s, e)[i] = s[i]
               \/ i = Len(s) + 1 /\ Append(s, e)[i] = e
<1>1. Len(s) \in Nat /\ DOMAIN s = 1 .. Len(s) /\ \A i \in 1 .. Len(s) : s[i] \in S
  BY LenProperties, ElementOfSeq
<1>2. \A i \in 1 .. Len(s) : s[i] \in Range(s)
  BY <1>1 DEF Range
<1>3. \A x \in Range(s) : \E i \in 1 .. Len(s) : x = s[i]
  BY <1>1 DEF Range
<1>4. ASSUME s # <<>>
      PROVE  /\ 1 \in 1 .. Len(s) /\ Head(s) = s[1]
             /\ \A i \in 1 .. Len(Tail(s)) :
                   i + 1 \in 1 .. Len(s) /\ Tail(s)[i] = s[i + 1] /\ 1 < i + 1
  <2>1. /\ Head(s) = s[1] /\ Len(Tail(s)) = Len(s) - 1 /\ Len(s) # 0
        /\ \A i \in 1 .. Len(Tail(s)) : Tail(s)[i] = s[i + 1]
    BY <1>4, HeadTailProperties, LenProperties, EmptySeq
  <2> QED
    BY <1>1, <2>1
<1>5. ASSUME NEW e \in S, NEW i \in 1 .. Len(Append(s, e))
      PROVE  \/ i \in 1 .. Len(s) /\ Append(s, e)[i] = s[i]
             \/ i = Len(s) + 1 /\ Append(s, e)[i] = e
  <2>1. /\ Len(Append(s, e)) = Len(s) + 1
        /\ \A k \in 1 .. Len(s) : Append(s, e)[k] = s[k]
        /\ Append(s, e)[Len(s) + 1] = e
    BY <1>1, AppendProperties
  <2> QED
    BY <1>1, <2>1
<1> QED
  BY <1>1, <1>2, <1>3, <1>4, <1>5

(* The generation on screen and the one to be named in a notice.            *)
LEMMA SnapshotStep ==
  ASSUME Newest, Served, Addresses, [Next]_vars
  PROVE  {snapshot', notice'} \subseteq {0} \cup Generations
<1>0. snapshot \in {0} \cup Generations /\ notice \in {0} \cup Generations
  BY DEF Addresses
<1>1. CASE PumpUploads
  <2>1. notice' = notice
    BY <1>1 DEF PumpUploads, deviceVars
  <2>2. CASE snapshot' = snapshot
    BY <1>0, <2>1, <2>2
  <2>3. CASE snapshot' # snapshot
    <3> DEFINE p == Head(inbox.publications)
    <3>1. inbox.publications # <<>> /\ snapshot' = p.gen
      BY <1>1, <2>3 DEF PumpUploads, AcceptTerminal, AcceptBatch, AcceptFailure
    <3>2. p.gen \in Generations
      BY <3>1, RangeOfTail DEF Served, ItemsOf
    <3> QED
      BY <1>0, <2>1, <3>1, <3>2
  <2> QED
    BY <2>2, <2>3
<1>2. CASE FrameFindsLoss \/ ResizeFindsLoss \/ AnswerRequest
  BY <1>0, <1>2 DEF FrameFindsLoss, ResizeFindsLoss, AnswerRequest, StartRecovery, sceneVars
<1>3. CASE ResetDevice \/ RebuildDevice
  <2>1. CASE ResetDevice
    BY <1>0, <2>1 DEF ResetDevice, deviceVars
  <2>2. CASE RebuildDevice
    BY <1>0, <2>2 DEF RebuildDevice, sceneVars
  <2> QED
    BY <1>3, <2>1, <2>2
<1>4. CASE ~(PumpUploads \/ FrameFindsLoss \/ ResizeFindsLoss \/ AnswerRequest \/ ResetDevice
             \/ RebuildDevice)
  <2>1. UNCHANGED <<snapshot, notice>>
    BY <1>4 DEF Next, vars, UserOpens, UserCancels, CloseWindow, UiStep, ArmImport,
       HandleMessage, ImportStep, ProduceBatch, PushBatch, ImportEnds, UploadStep,
       TakeTask, Reserve, Copy, Publish, RenderStep, LeaveLoop, JoinUpload,
       DeviceRemoved, sceneVars, deviceVars
  <2> QED
    BY <1>0, <2>1
<1> QED
  BY <1>1, <1>2, <1>3, <1>4

(* What is posted names a generation that was opened.                       *)
LEMMA AddressesStep ==
  ASSUME Newest, Imports, Freshness, Reports, Served, Addresses, [Next]_vars
  PROVE  Addresses'
<1> DEFINE Known(m) == /\ m.gen \in {0} \cup Generations
                       /\ m.kind # "recovered" =>
                             m.gen \in Generations /\ ipc'[m.gen] # "none"
<1>1. \A m \in Range(messages) : Known(m)
  BY ImportPhases DEF Addresses
<1>2. messages \in Seq(Messages) /\ Range(<<>>) = {}
  BY DEF Reports, Range
<1>3. ASSUME NEW x \in Messages, Posted(x), Known(x)
      PROVE  \A m \in Range(messages') : Known(m)
  <2>1. Range(Append(messages, x)) = Range(messages) \cup {x}
    BY <1>2, RangeOfAppend
  <2> HIDE DEF Known
  <2> QED
    BY <1>1, <1>3, <2>1 DEF Posted
<1>4. ASSUME messages' \in {messages, <<>>}
      PROVE  \A m \in Range(messages') : Known(m)
  BY <1>1, <1>2, <1>4
<1>5. ASSUME messages # <<>>, messages' = Tail(messages)
      PROVE  \A m \in Range(messages') : Known(m)
  BY <1>1, <1>2, <1>5, RangeOfTail
<1>6. ASSUME NEW g \in Generations, NEW m \in Messages,
             ImportEnds(g), m.kind # "uploaded", m.gen = g, Posted(m)
      PROVE  \A x \in Range(messages') : Known(x)
  <2>1. ipc'[g] = "done"
    BY <1>6 DEF ImportEnds, Imports
  <2> QED
    BY <1>3, <1>6, <2>1
<1>7. ASSUME NEW m \in Messages, PumpUploads, inbox.publications # <<>>,
             m.gen = Head(inbox.publications).gen, m.gen = inbox.gen, Posted(m)
      PROVE  \A x \in Range(messages') : Known(x)
  <2>1. m.gen \in Generations
    BY <1>7, RangeOfTail DEF Served, ItemsOf
  <2>2. ipc[m.gen] # "none"
    BY <1>7, <2>1 DEF Freshness, NoTrace
  <2> QED
    BY <1>3, <1>7, <2>1, <2>2, ImportPhases
<1>8. ASSUME NEW m \in Messages, m.kind = "recovered", m.gen \in {snapshot, notice},
             Posted(m)
      PROVE  \A x \in Range(messages') : Known(x)
  BY <1>3, <1>8 DEF Addresses
<1>9. \A m \in Range(messages') : Known(m)
  <2> HIDE DEF Known
  <2> QED
    BY <1>4, <1>5, <1>6, <1>7, <1>8, MessagesStep
<1> QED
  BY <1>9, SnapshotStep DEF Addresses

(* Only PumpUploads reports a part, and not after the success.              *)
LEMMA PartsArePosted ==
  ASSUME Newest, Imports, Served, Flow, Ends, NEW m \in Messages,
         inbox.publications # <<>>,
         m.gen = Head(inbox.publications).gen, m.gen = inbox.gen,
         ~Terminal(Head(inbox.publications))
  PROVE  ~Over(m.gen)
<1>1. m.gen \in Generations
  BY RangeOfTail DEF Served, ItemsOf
<1>2. Serving(m.gen)
  BY DEF Serving, Served
<1> QED
  BY <1>1, <1>2, NothingMissing DEF Ends

(* Reports arrive in the order in which they were posted.                   *)
LEMMA PartsFirstStep ==
  ASSUME Newest, Imports, Freshness, Reports, Served, Flow, Ends, PartsFirst,
         [Next]_vars
  PROVE  PartsFirst'
<1>0. messages \in Seq(Messages) /\ Range(<<>>) = {} /\ Len(<<>>) = 0
      /\ Len(messages) \in Nat
  BY LenProperties DEF Reports, Range
<1>1. ASSUME ~HandleMessage, state' = "Ready"
      PROVE  state = "Ready" /\ generation' = generation
  <2>1. CASE UserOpens \/ UserCancels \/ CloseWindow
    BY <1>1, <2>1, Events DEF Newest
  <2>2. CASE ~(UserOpens \/ UserCancels \/ CloseWindow)
    <3>1. UNCHANGED <<state, generation>>
      BY <1>1, <2>2 DEF Next, vars, UiStep, ArmImport, ImportStep, ProduceBatch,
         PushBatch, ImportEnds, UploadStep, TakeTask, Reserve, Copy, Publish,
         RenderStep, PumpUploads, FrameFindsLoss, ResizeFindsLoss, AnswerRequest, ResetDevice,
         RebuildDevice, LeaveLoop, JoinUpload, DeviceRemoved, uiVars
    <3> QED
      BY <1>1, <3>1
  <2> QED
    BY <2>1, <2>2
<1>2. CASE HandleMessage
  <2>1. messages # <<>> /\ messages' = Tail(messages)
    BY <1>2 DEF HandleMessage
  <2>2. /\ 1 \in 1 .. Len(messages) /\ Head(messages) = messages[1]
        /\ \A i \in 1 .. Len(messages') :
              i + 1 \in 1 .. Len(messages) /\ messages'[i] = messages[i + 1] /\ 1 < i + 1
    BY <1>0, <2>1, Indices
  <2>3. messages' \in Seq(Messages) /\ Len(messages') \in Nat
    BY <1>0, <2>1, RangeOfTail, LenProperties
  <2>4. \A i, j \in 1 .. Len(messages') : i < j => i + 1 < j + 1
    BY <2>3
  <2>5. \A i, j \in 1 .. Len(messages') :
          i < j /\ Success(messages'[i]) /\ Part(messages'[j])
              => messages'[i].gen # messages'[j].gen
    BY <2>2, <2>4 DEF PartsFirst
  <2>6. ASSUME state' = "Ready", NEW m \in Range(messages'), Part(m)
        PROVE  m.gen # generation'
    <3>1. CASE state = "Ready" /\ generation' = generation
      <4>1. m \in Range(messages)
        BY <1>0, <2>1, <2>6, RangeOfTail
      <4> QED
        BY <2>6, <3>1, <4>1 DEF PartsFirst
    <3>2. CASE /\ Head(messages).kind = "uploaded" /\ Head(messages).gen = generation
               /\ Head(messages).ok /\ Head(messages).terminal
               /\ generation' = generation
      <4>1. PICK j \in 1 .. Len(messages') : m = messages'[j]
        BY <2>3, <2>6, Indices
      <4>2. Success(messages[1]) /\ Part(messages[j + 1]) /\ 1 < j + 1
            /\ j + 1 \in 1 .. Len(messages)
        BY <2>2, <2>6, <3>2, <4>1 DEF Success
      <4> QED
        BY <2>2, <3>2, <4>1, <4>2 DEF PartsFirst
    <3> QED
      BY <1>2, <2>6, <3>1, <3>2, Handling DEF Newest
  <2> QED
    BY <2>5, <2>6 DEF PartsFirst
<1>3. CASE ~HandleMessage /\ messages' \in {messages, <<>>}
  <2>1. CASE messages' = messages
    BY <1>1, <1>3, <2>1 DEF PartsFirst
  <2>2. CASE messages' = <<>>
    BY <1>0, <2>2 DEF PartsFirst
  <2> QED
    BY <1>3, <2>1, <2>2
<1>4. ASSUME ~HandleMessage, NEW x \in Messages, Posted(x), Part(x) => ~Over(x.gen)
      PROVE  PartsFirst'
  <2>1. CASE messages' = messages
    BY <1>3, <1>4, <2>1
  <2>2. CASE messages' = Append(messages, x)
    <3>1. \A i \in 1 .. Len(messages') :
             \/ i \in 1 .. Len(messages) /\ messages'[i] = messages[i]
             \/ i = Len(messages) + 1 /\ messages'[i] = x
      BY <1>0, <2>2, Indices
    <3>2. ASSUME NEW i \in 1 .. Len(messages'), NEW j \in 1 .. Len(messages'), i < j,
                 Success(messages'[i]), Part(messages'[j])
          PROVE  messages'[i].gen # messages'[j].gen
      <4>1. i \in 1 .. Len(messages) /\ messages'[i] = messages[i]
        <5>1. CASE i = Len(messages) + 1
          <6>1. Len(messages') = Len(messages) + 1
            BY <1>0, <2>2, AppendProperties
          <6> QED
            BY <1>0, <3>2, <5>1, <6>1
        <5> QED
          BY <3>1, <5>1
      <4>2. messages[i] \in Range(messages)
        BY <1>0, <4>1, Indices
      <4>3. CASE j \in 1 .. Len(messages) /\ messages'[j] = messages[j]
        BY <3>2, <4>1, <4>3 DEF PartsFirst
      <4>4. CASE messages'[j] = x
        <5>1. ~Over(x.gen)
          BY <1>4, <3>2, <4>4
        <5> QED
          BY <3>2, <4>1, <4>2, <4>4, <5>1 DEF Over
      <4> QED
        BY <3>1, <4>3, <4>4
    <3>3. ASSUME state' = "Ready", NEW m \in Range(messages'), Part(m)
          PROVE  m.gen # generation'
      <4>1. state = "Ready" /\ generation' = generation
        BY <1>1, <1>4, <3>3
      <4>2. m \in Range(messages) \/ m = x
        BY <1>0, <2>2, <3>3, RangeOfAppend
      <4>3. CASE m \in Range(messages)
        BY <3>3, <4>1, <4>3 DEF PartsFirst
      <4>4. CASE m = x
        BY <1>4, <3>3, <4>1, <4>4 DEF Over
      <4> QED
        BY <4>2, <4>3, <4>4
    <3> QED
      BY <3>2, <3>3 DEF PartsFirst
  <2> QED
    BY <1>4, <2>1, <2>2 DEF Posted
<1>5. ASSUME ~HandleMessage, NEW m \in Messages, PumpUploads,
             inbox.publications # <<>>,
             m.gen = Head(inbox.publications).gen, m.gen = inbox.gen,
             m.terminal <=> Terminal(Head(inbox.publications)), Posted(m)
      PROVE  PartsFirst'
  BY <1>4, <1>5, PartsArePosted DEF Part
<1>6. ASSUME ~HandleMessage, NEW m \in Messages, m.kind # "uploaded", Posted(m)
      PROVE  PartsFirst'
  BY <1>4, <1>6 DEF Part
<1> QED
  BY <1>2, <1>3, <1>5, <1>6, MessagesStep

(* What a cancelled or refused open leaves behind has no import.            *)
LEMMA RestedStep ==
  ASSUME Newest, Imports, Freshness, Rested, [Next]_vars
  PROVE  Rested'
<1>0. generation \in Nat /\ (\A g \in Generations : g \in Nat)
  BY DEF Newest, ServesNewest, Generations
<1>1. ASSUME ipc' = ipc, generation' = generation + 1, generation' \in Generations
      PROVE  ipc'[generation'] = "none"
  BY <1>0, <1>1 DEF Freshness
<1>2. CASE UserOpens \/ UserCancels \/ CloseWindow
  <2>1. ServesNewest
    BY DEF Newest
  <2> QED
    BY <1>1, <1>2, <2>1, Events DEF Rested
<1>3. CASE HandleMessage
  <2>1. ServesNewest /\ ipc' = ipc /\ uipc = "run"
    BY <1>3 DEF Newest, HandleMessage
  <2> DEFINE m == Head(messages)
  <2>2. CASE /\ uipc' = "open" /\ generation' = generation + 1 /\ state' = "Loading"
    BY <2>2 DEF Rested
  <2>3. CASE /\ uipc' = uipc
             /\ \/ generation' = generation + 1 /\ state' \in {"Rest", "Failed"}
                \/ generation' = generation /\ state' = "Failed"
    BY <1>1, <2>1, <2>3 DEF Rested
  <2>4. CASE UNCHANGED <<uipc, generation, state>>
    BY <2>1, <2>4 DEF Rested
  <2>5. CASE uipc' = uipc /\ generation' = generation /\ state' \in {"Ready", "Loading"}
    BY <2>1, <2>5 DEF Rested
  <2> QED
    BY <1>3, <2>1, <2>2, <2>3, <2>4, <2>5, Handling
<1>4. CASE ArmImport
  <2>1. uipc = "open" /\ uipc' = "run" /\ state' = state
    BY <1>4 DEF ArmImport
  <2> QED
    BY <2>1 DEF Rested
<1>5. CASE \E g \in Generations : ImportStep(g)
  <2>1. PICK g \in Generations : ImportStep(g)
    BY <1>5
  <2>2. /\ ipc[g] # "none" /\ UNCHANGED <<uipc, generation, state>>
        /\ \A h \in Generations : h # g => ipc'[h] = ipc[h]
    BY <2>1 DEF ImportStep, ProduceBatch, PushBatch, ImportEnds, uiVars, Imports
  <2> QED
    BY <2>2 DEF Rested
<1>6. CASE ~(UserOpens \/ UserCancels \/ CloseWindow \/ HandleMessage \/ ArmImport
             \/ \E g \in Generations : ImportStep(g))
  <2>1. UNCHANGED <<uipc, generation, state, ipc>>
    BY <1>6 DEF Next, vars, UiStep, UploadStep, TakeTask, Reserve, Copy, Publish,
       RenderStep, PumpUploads, FrameFindsLoss, ResizeFindsLoss, AnswerRequest, ResetDevice,
       RebuildDevice, LeaveLoop, JoinUpload, DeviceRemoved, uiVars, importVars
  <2> QED
    BY <2>1 DEF Rested
<1> QED
  BY <1>2, <1>3, <1>4, <1>5, <1>6

(* Where the recovery is.                                                   *)
LEMMA RecoveryMoves ==
  ASSUME [Next]_vars
  PROVE  /\ recoveryAttempted => recoveryAttempted'
         /\ Recovering' => \/ Recovering /\ ~RebuildDevice
                           \/ ~recoveryAttempted /\ recoveryAttempted' = TRUE
         /\ RebuildDevice => rpc = "rebuild"
<1> USE DEF Recovering
<1>1. CASE FrameFindsLoss \/ ResizeFindsLoss \/ AnswerRequest
  <2>1. /\ rpc = "loop"
        /\ \E next \in {"join", "loop"} : StartRecovery(next)
    BY <1>1 DEF FrameFindsLoss, ResizeFindsLoss, AnswerRequest
  <2> QED
    BY <2>1 DEF StartRecovery, RebuildDevice
<1>2. CASE ResetDevice
  BY <1>2 DEF ResetDevice, RebuildDevice, deviceVars
<1>3. CASE RebuildDevice
  BY <1>3 DEF RebuildDevice
<1>4. CASE ~(FrameFindsLoss \/ ResizeFindsLoss \/ AnswerRequest \/ ResetDevice \/ RebuildDevice)
  <2>1. recoveryAttempted' = recoveryAttempted /\ rpc' \in {rpc, "join", "ended"}
    BY <1>4 DEF Next, vars, UserOpens, UserCancels, CloseWindow, UiStep, ArmImport,
       HandleMessage, ImportStep, ProduceBatch, PushBatch, ImportEnds, UploadStep,
       TakeTask, Reserve, Copy, Publish, RenderStep, PumpUploads, LeaveLoop, JoinUpload,
       DeviceRemoved, deviceVars
  <2> QED
    BY <1>4, <2>1
<1> QED
  BY <1>1, <1>2, <1>3, <1>4

(* Only a rebuilt device is reported as recovered.                          *)
LEMMA RecoveryIsReported ==
  ASSUME Newest, Reports, [Next]_vars
  PROVE  \/ messages' \in {messages, <<>>}
         \/ HandleMessage /\ messages # <<>> /\ messages' = Tail(messages)
         \/ \E x \in Messages : Posted(x) /\ ~OkRecovery(x)
         \/ \E x \in Messages : Posted(x) /\ RebuildDevice /\ rpc' = "loop"
<1>1. ASSUME NEW m \in Messages, m.kind # "recovered", Posted(m)
      PROVE  \E x \in Messages : Posted(x) /\ ~OkRecovery(x)
  BY <1>1 DEF OkRecovery
<1>2. ASSUME NEW g \in Generations, NEW m \in Messages, ImportEnds(g),
             m.gen = g, Posted(m)
      PROVE  \E x \in Messages : Posted(x) /\ ~OkRecovery(x)
  <2>1. PICK kind \in {"imported", "failed", "cancelled"} :
            Post(Message(kind, g, TRUE, TRUE))
    BY <1>2 DEF ImportEnds
  <2>2. Message(kind, g, TRUE, TRUE) \in Messages
    BY PipelineAssumption DEF Message, Messages, Generations
  <2>3. ~OkRecovery(Message(kind, g, TRUE, TRUE))
    BY DEF Message, OkRecovery
  <2> QED
    BY <2>1, <2>2, <2>3, Posting
<1>3. ASSUME NEW m \in Messages, m.kind = "recovered", Posted(m),
             m.ok => RebuildDevice /\ rpc' = "loop"
      PROVE  \E x \in Messages : Posted(x)
                /\ (~OkRecovery(x) \/ (RebuildDevice /\ rpc' = "loop"))
  BY <1>3 DEF OkRecovery
<1> QED
  BY <1>1, <1>2, <1>3, MessagesStep

(* The device is rebuilt at most once, and reported once.                   *)
LEMMA RecoversOnceStep ==
  ASSUME Newest, Reports, RecoversOnce, [Next]_vars
  PROVE  RecoversOnce'
<1>0. messages \in Seq(Messages) /\ Range(<<>>) = {} /\ Len(<<>>) = 0
      /\ Len(messages) \in Nat
  BY LenProperties DEF Reports, Range
<1>1. Recovering' => recoveryAttempted'
  BY RecoveryMoves DEF RecoversOnce
<1>2. ~recoveryAttempted' \/ Recovering' =>
         (~recoveryAttempted \/ Recovering) /\ ~(RebuildDevice /\ rpc' = "loop")
  BY RecoveryMoves DEF Recovering, RecoversOnce
<1>3. ASSUME Range(messages') \subseteq Range(messages),
             \A i, j \in 1 .. Len(messages') :
                OkRecovery(messages'[i]) /\ OkRecovery(messages'[j]) => i = j
      PROVE  RecoversOnce'
  BY <1>1, <1>2, <1>3 DEF RecoversOnce
<1>4. CASE messages' \in {messages, <<>>}
  <2>1. CASE messages' = messages
    BY <1>3, <2>1 DEF RecoversOnce
  <2>2. CASE messages' = <<>>
    BY <1>0, <1>3, <2>2
  <2> QED
    BY <1>4, <2>1, <2>2
<1>5. CASE messages # <<>> /\ messages' = Tail(messages)
  <2>1. /\ \A i \in 1 .. Len(messages') :
              i + 1 \in 1 .. Len(messages) /\ messages'[i] = messages[i + 1]
        /\ messages' \in Seq(Messages) /\ Range(messages') \subseteq Range(messages)
        /\ Len(messages') \in Nat
    BY <1>0, <1>5, Indices, RangeOfTail, LenProperties
  <2>2. ASSUME NEW i \in 1 .. Len(messages'), NEW j \in 1 .. Len(messages'),
               OkRecovery(messages'[i]), OkRecovery(messages'[j])
        PROVE  i = j
    <3>1. i + 1 = j + 1
      BY <2>1, <2>2 DEF RecoversOnce
    <3> QED
      BY <2>1, <3>1
  <2> QED
    BY <1>3, <2>1, <2>2
<1>6. ASSUME NEW x \in Messages, messages' = Append(messages, x)
      PROVE  /\ \A i \in 1 .. Len(messages') :
                   \/ i \in 1 .. Len(messages) /\ messages'[i] = messages[i]
                   \/ i = Len(messages) + 1 /\ messages'[i] = x
             /\ Range(messages') = Range(messages) \cup {x}
  BY <1>0, <1>6, Indices, RangeOfAppend
<1>7. ASSUME NEW x \in Messages, Posted(x), ~OkRecovery(x) PROVE RecoversOnce'
  <2>1. CASE messages' = messages
    BY <1>4, <2>1
  <2>2. CASE messages' = Append(messages, x)
    <3>1. \A m \in Range(messages') : OkRecovery(m) => m \in Range(messages)
      BY <1>6, <1>7, <2>2
    <3>2. \A i \in 1 .. Len(messages') : OkRecovery(messages'[i]) =>
             i \in 1 .. Len(messages) /\ messages'[i] = messages[i]
      BY <1>6, <1>7, <2>2
    <3> QED
      BY <1>1, <1>2, <3>1, <3>2 DEF RecoversOnce
  <2> QED
    BY <1>7, <2>1, <2>2 DEF Posted
<1>8. ASSUME NEW x \in Messages, Posted(x), RebuildDevice, rpc' = "loop"
      PROVE  RecoversOnce'
  <2>1. CASE messages' = messages
    BY <1>4, <2>1
  <2>2. CASE messages' = Append(messages, x)
    <3>1. Recovering /\ recoveryAttempted
      BY <1>8, RecoveryMoves DEF Recovering, RecoversOnce
    <3>2. \A i \in 1 .. Len(messages) : ~OkRecovery(messages[i])
      BY <1>0, <3>1, Indices DEF RecoversOnce
    <3>3. \A i \in 1 .. Len(messages') : OkRecovery(messages'[i]) => i = Len(messages) + 1
      BY <1>6, <2>2, <3>2
    <3>4. recoveryAttempted' /\ ~Recovering'
      BY <1>8, <3>1, RecoveryMoves DEF Recovering
    <3> QED
      BY <3>3, <3>4 DEF RecoversOnce
  <2> QED
    BY <1>8, <2>1, <2>2 DEF Posted
<1> QED
  BY <1>4, <1>5, <1>7, <1>8, RecoveryIsReported

(* A reopening that can no longer come does not come back, and the one      *)
(* report of a recovery uses it up.                                         *)
LEMMA PendingStep ==
  ASSUME Newest, Reports, RecoversOnce, [Next]_vars
  PROVE  /\ Pending' => Pending
         /\ HandleMessage /\ OkRecovery(Head(messages)) => Pending /\ ~Pending'
<1>0. messages \in Seq(Messages) /\ Range(<<>>) = {}
  BY DEF Reports, Range
<1>1. ~recoveryAttempted' \/ Recovering' => ~recoveryAttempted \/ Recovering
  BY RecoveryMoves DEF RecoversOnce
<1>2. ASSUME NEW m \in Range(messages'), OkRecovery(m)
      PROVE  Pending
  <2>1. CASE messages' \in {messages, <<>>}
    BY <1>0, <1>2, <2>1 DEF Pending
  <2>2. CASE messages # <<>> /\ messages' = Tail(messages)
    BY <1>0, <1>2, <2>2, RangeOfTail DEF Pending
  <2>3. ASSUME NEW x \in Messages, Posted(x), ~OkRecovery(x) PROVE Pending
    <3>1. m \in Range(messages)
      <4>1. Range(Append(messages, x)) = Range(messages) \cup {x}
        BY <1>0, RangeOfAppend
      <4> QED
        BY <1>2, <2>3, <4>1 DEF Posted
    <3> QED
      BY <1>2, <3>1 DEF Pending
  <2>4. CASE RebuildDevice
    BY <2>4 DEF RebuildDevice, Pending, Recovering
  <2> QED
    BY <2>1, <2>2, <2>3, <2>4, RecoveryIsReported
<1>3. ASSUME HandleMessage, OkRecovery(Head(messages))
      PROVE  Pending /\ ~Pending'
  <2>1. messages # <<>> /\ messages' = Tail(messages)
        /\ UNCHANGED <<rpc, recoveryAttempted>>
    BY <1>3 DEF HandleMessage, deviceVars
  <2>2. Head(messages) \in Range(messages) /\ messages' \in Seq(Messages)
    BY <1>0, <2>1, RangeOfTail
  <2>3. recoveryAttempted /\ ~Recovering
    BY <1>3, <2>2 DEF RecoversOnce
  <2>4. ASSUME NEW m \in Range(messages'), OkRecovery(m) PROVE FALSE
    <3>1. PICK i \in 1 .. Len(messages') : m = messages'[i]
      BY <2>2, <2>4, Indices
    <3>2. /\ 1 \in 1 .. Len(messages) /\ Head(messages) = messages[1]
          /\ i + 1 \in 1 .. Len(messages) /\ messages'[i] = messages[i + 1] /\ 1 < i + 1
      BY <1>0, <2>1, Indices
    <3>3. i + 1 = 1
      BY <1>3, <2>4, <3>1, <3>2 DEF RecoversOnce
    <3> QED
      BY <3>2, <3>3
  <2>5. ~Recovering' /\ recoveryAttempted'
    BY <2>1, <2>3 DEF Recovering
  <2> QED
    BY <1>3, <2>2, <2>4, <2>5 DEF Pending
<1> QED
  BY <1>1, <1>2, <1>3 DEF Pending

(* What a handled message costs: a generation, or a load that starts again. *)
LEMMA HandlingCosts ==
  ASSUME HandleMessage
  PROVE  /\ UNCHANGED <<requests, losses>>
         /\ \/ generation' = generation /\ (state' = "Loading" => state = "Loading")
            \/ generation' = generation + 1 /\ state = "Loading" /\ state' # "Loading"
            \/ generation' = generation + 1 /\ OkRecovery(Head(messages))
            \/ /\ generation' = generation /\ Part(Head(messages))
               /\ Head(messages).gen = generation /\ state # "Failed"
<1> DEFINE m == Head(messages)
<1>1. UNCHANGED <<requests, losses>>
  BY DEF HandleMessage, deviceVars
<1>2. CASE m.kind = "uploaded"
  <2>1. HandleUploadComplete(m)
    BY <1>2 DEF HandleMessage
  <2> QED
    BY <1>1, <1>2, <2>1 DEF HandleUploadComplete, Ignored, Fail, Part
<1>3. CASE m.kind = "recovered"
  <2>1. HandleRecovery(m)
    BY <1>3 DEF HandleMessage
  <2> QED
    BY <1>1, <1>3, <2>1 DEF HandleRecovery, BeginOpen, StartOpening, Fail, OkRecovery
<1>4. CASE m.kind \notin {"uploaded", "recovered"}
  <2>1. HandleImportComplete(m)
    BY <1>4 DEF HandleMessage
  <2> QED
    BY <1>1, <2>1 DEF HandleImportComplete, CancelOpen, Fail
<1> QED
  BY <1>2, <1>3, <1>4

(* The generations that were used, and may yet be without the user, stay    *)
(* within twice the user's requests and the two of one recovery.            *)
LEMMA BoundedStep ==
  ASSUME Newest, Reports, Addresses, PartsFirst, Rested, RecoversOnce, Bounded,
         [Next]_vars
  PROVE  Bounded'
<1>0. /\ generation \in Nat /\ requests \in Nat /\ losses \in Nat /\ MaxEvents \in Nat
      /\ requests + losses <= MaxEvents
      /\ generation + Loads + Reopens <= 2 * requests + 2
  BY PipelineAssumption DEF Newest, ServesNewest, Bounded
<1>1. PICK l \in Nat : l = Loads
  BY DEF Loads
<1>2. PICK k \in Nat : k = Loads' /\ k <= 1
  BY DEF Loads
<1>3. PICK p \in Nat : p = Reopens
  BY DEF Reopens
<1>4. PICK q \in Nat : q = Reopens' /\ q <= p
  BY <1>3, PendingStep DEF Reopens
<1>5. /\ generation \in Nat /\ requests \in Nat /\ losses \in Nat /\ MaxEvents \in Nat
      /\ requests + losses <= MaxEvents /\ generation + l + p <= 2 * requests + 2
      /\ k <= 1 /\ q <= p
  BY <1>0, <1>1, <1>2, <1>3, <1>4
<1> SUFFICES /\ requests' \in Nat /\ losses' \in Nat /\ requests' + losses' <= MaxEvents
             /\ generation' + k + q <= 2 * requests' + 2
  BY <1>2, <1>4 DEF Bounded
<1>6. CASE UNCHANGED <<generation, requests, losses, state>>
  <2>1. k = l
    BY <1>6, <1>1, <1>2 DEF Loads
  <2> QED
    BY <1>5, <1>6, <2>1
<1>7. CASE UserOpens
  <2>1. /\ requests' = requests + 1 /\ losses' = losses /\ requests + losses < MaxEvents
        /\ generation' = generation + 1
    BY <1>7 DEF UserOpens, BeginOpen, StartOpening, Fail, MoreEvents, deviceVars
  <2> QED
    BY <1>5, <2>1
<1>8. CASE UserCancels
  <2>1. /\ requests' = requests + 1 /\ losses' = losses /\ requests + losses < MaxEvents
        /\ generation' = generation + 1
    BY <1>8 DEF UserCancels, CancelOpen, MoreEvents, deviceVars
  <2> QED
    BY <1>5, <2>1
<1>9. CASE DeviceRemoved
  <2>1. /\ UNCHANGED <<requests, generation, state>>
        /\ losses' = losses + 1 /\ requests + losses < MaxEvents
    BY <1>9 DEF DeviceRemoved, MoreEvents, uiVars
  <2>2. k = l
    BY <2>1, <1>1, <1>2 DEF Loads
  <2> QED
    BY <1>5, <2>1, <2>2
<1>10. CASE HandleMessage
  <2>0. UNCHANGED <<requests, losses>>
    BY <1>10, HandlingCosts
  <2>1. CASE generation' = generation /\ (state' = "Loading" => state = "Loading")
    <3>1. k <= l
      BY <2>1, <1>1, <1>2 DEF Loads
    <3> QED
      BY <1>5, <2>0, <2>1, <3>1
  <2>2. CASE generation' = generation + 1 /\ state = "Loading" /\ state' # "Loading"
    <3>1. l = 1 /\ k = 0
      BY <2>2, <1>1, <1>2 DEF Loads
    <3> QED
      BY <1>5, <2>0, <2>2, <3>1
  <2>3. CASE generation' = generation + 1 /\ OkRecovery(Head(messages))
    <3>1. p = 2 /\ q = 0
      BY <1>10, <2>3, <1>3, <1>4, PendingStep DEF Reopens
    <3> QED
      BY <1>5, <2>0, <2>3, <3>1
  <2>4. CASE /\ generation' = generation /\ Part(Head(messages))
             /\ Head(messages).gen = generation /\ state # "Failed"
    <3>1. Head(messages) \in Range(messages)
      BY <1>10, RangeOfTail DEF HandleMessage, Reports
    <3>2. state # "Ready"
      BY <2>4, <3>1 DEF PartsFirst
    <3>3. generation \in Generations /\ ipc[generation] # "none"
      BY <2>4, <3>1 DEF Addresses, Part
    <3>4. state = "Loading"
      BY <2>4, <3>2, <3>3 DEF Rested
    <3>5. l = 1
      BY <3>4, <1>1, <1>2 DEF Loads
    <3> QED
      BY <1>5, <2>0, <2>4, <3>5
  <2> QED
    BY <1>10, <2>1, <2>2, <2>3, <2>4, HandlingCosts
<1>11. CASE ~(UserOpens \/ UserCancels \/ DeviceRemoved \/ HandleMessage)
  <2>1. UNCHANGED <<generation, requests, losses, state>>
    BY <1>11 DEF Next, vars, CloseWindow, UiStep, ArmImport, ImportStep, ProduceBatch,
       PushBatch, ImportEnds, UploadStep, TakeTask, Reserve, Copy, Publish,
       RenderStep, PumpUploads, FrameFindsLoss, ResizeFindsLoss, AnswerRequest, ResetDevice,
       RebuildDevice, LeaveLoop, JoinUpload, uiVars, deviceVars
  <2> QED
    BY <1>6, <2>1
<1> QED
  BY <1>7, <1>8, <1>9, <1>10, <1>11

(* The render thread stays where it can be.                                 *)
LEMMA PlacesStep ==
  ASSUME Places, [Next]_vars
  PROVE  Places'
BY DEF Places, Next, vars, UserOpens, UserCancels, CloseWindow, UiStep, ArmImport,
   HandleMessage, ImportStep, ProduceBatch, PushBatch, ImportEnds, UploadStep,
   TakeTask, Reserve, Copy, Publish, RenderStep, PumpUploads, FrameFindsLoss, ResizeFindsLoss,
   AnswerRequest, StartRecovery, ResetDevice, RebuildDevice, LeaveLoop, JoinUpload,
   DeviceRemoved, deviceVars

\* What is queued, held and published is a batch of an import, or its marker.
Items ==
    /\ inbox.tasks \in Seq(ItemType) /\ inbox.publications \in Seq(ItemType)
    /\ task \in ItemType

(* A queue that loses its head or takes a batch of an import.               *)
LEMMA ItemsMove ==
  ASSUME Imports
  PROVE  /\ NoItem \in ItemType
         /\ \A g \in Generations : /\ Item(g, 0) \in ItemType
                                   /\ Item(g, produced[g]) \in ItemType
         /\ \A s \in Seq(ItemType) : s # <<>> =>
               Head(s) \in ItemType /\ Tail(s) \in Seq(ItemType)
         /\ \A s \in Seq(ItemType), t \in ItemType : Append(s, t) \in Seq(ItemType)
<1>1. MaxGeneration \in Nat /\ MaxBatches \in Nat
      /\ \A g \in Generations : g \in 0 .. MaxGeneration
  BY PipelineAssumption DEF MaxGeneration, Generations
<1>2. 0 \in 0 .. MaxGeneration /\ 0 \in 0 .. MaxBatches
  BY <1>1
<1>3. NoItem \in ItemType
  BY <1>2 DEF NoItem, Item, ItemType
<1>4. ASSUME NEW g \in Generations
      PROVE  Item(g, 0) \in ItemType /\ Item(g, produced[g]) \in ItemType
  <2>1. g \in 0 .. MaxGeneration /\ produced[g] \in 0 .. MaxBatches
    BY <1>1 DEF Imports
  <2> QED
    BY <1>2, <2>1 DEF Item, ItemType
<1>5. ASSUME NEW s \in Seq(ItemType), s # <<>>
      PROVE  Head(s) \in ItemType /\ Tail(s) \in Seq(ItemType)
  BY <1>5, RangeOfTail
<1>6. ASSUME NEW s \in Seq(ItemType), NEW t \in ItemType
      PROVE  Append(s, t) \in Seq(ItemType)
  BY RangeOfAppend
<1> QED
  BY <1>3, <1>4, <1>5, <1>6

(* Every step keeps the items in their type.                                *)
LEMMA ItemsStep ==
  ASSUME Newest, Imports, Reports, Served, Budgets, Items, [Next]_vars
  PROVE  Items'
<1>0. DOMAIN inbox = InboxFields /\ ServesNewest /\ <<>> \in Seq(ItemType)
  BY DEF Newest, ServesNewest
<1>1. CASE Empties /\ task' = task
  BY <1>0, <1>1 DEF Empties, Items
<1>2. CASE inbox'.tasks = inbox.tasks /\ inbox'.publications = inbox.publications
           /\ task' = task
  BY <1>2 DEF Items
<1>3. CASE UserOpens \/ UserCancels \/ CloseWindow
  BY <1>0, <1>1, <1>3, Events
<1>4. CASE HandleMessage
  <2>1. task' = task /\ messages # <<>>
    BY <1>4 DEF HandleMessage, uploadVars
  <2>2. CASE /\ Head(messages).kind = "imported" /\ Head(messages).gen = generation
             /\ FinishImport(generation)
    <3>1. generation \in Generations
      BY <2>1, <2>2, RangeOfTail DEF Reports
    <3>2. inbox'.publications = inbox.publications
          /\ inbox'.tasks \in {inbox.tasks, Append(inbox.tasks, Item(generation, 0))}
      BY <1>0, <2>2 DEF FinishImport, InboxFields
    <3>3. Item(generation, 0) \in ItemType
      BY <3>1, ItemsMove
    <3>4. Append(inbox.tasks, Item(generation, 0)) \in Seq(ItemType)
      BY <3>3, ItemsMove DEF Items
    <3> QED
      BY <2>1, <3>2, <3>4 DEF Items
  <2> QED
    BY <1>0, <1>1, <1>2, <1>4, <2>1, <2>2, Handling
<1>5. CASE \E g \in Generations : ImportStep(g)
  <2>1. PICK g \in Generations : ImportStep(g)
    BY <1>5
  <2>2. CASE inbox' = inbox /\ task' = task
    BY <1>2, <2>2
  <2>3. CASE PushBatch(g) /\ inbox' # inbox
    <3>1. /\ inbox'.publications = inbox.publications /\ task' = task
          /\ inbox'.tasks = Append(inbox.tasks, Item(g, produced[g]))
      BY <1>0, <2>3 DEF PushBatch, InboxFields, uploadVars
    <3>2. Item(g, produced[g]) \in ItemType
      BY ItemsMove
    <3>3. Append(inbox.tasks, Item(g, produced[g])) \in Seq(ItemType)
      BY <3>2, ItemsMove DEF Items
    <3> QED
      BY <3>1, <3>3 DEF Items
  <2> QED
    BY <2>1, <2>2, <2>3 DEF ImportStep, ProduceBatch, PushBatch, ImportEnds, uploadVars
<1>6. CASE TakeTask
  <2>1. CASE task' = task /\ inbox' = inbox
    BY <1>2, <2>1
  <2>2. CASE inbox.tasks # <<>> /\ task' = Head(inbox.tasks)
             /\ inbox' = [inbox EXCEPT !.tasks = Tail(@)]
    <3>1. inbox'.tasks = Tail(inbox.tasks) /\ inbox'.publications = inbox.publications
      BY <1>0, <2>2 DEF InboxFields
    <3> QED
      BY <2>2, <3>1, ItemsMove DEF Items
  <2> QED
    BY <1>6, <2>1, <2>2 DEF TakeTask
<1>7. CASE Reserve \/ Copy
  <2>1. inbox'.tasks = inbox.tasks /\ inbox'.publications = inbox.publications
    BY <1>0, <1>7 DEF Reserve, Copy, InboxFields
  <2>2. task' \in {task, [task EXCEPT !.ok = FALSE], [task EXCEPT !.gpu = 1]}
    BY <1>7 DEF Reserve, Copy
  <2>3. [task EXCEPT !.ok = FALSE] \in ItemType /\ [task EXCEPT !.gpu = 1] \in ItemType
    BY DEF Items, ItemType
  <2> QED
    BY <2>1, <2>2, <2>3 DEF Items
<1>8. CASE Publish
  <2>1. task' = NoItem /\ NoItem \in ItemType
    BY <1>8, ItemsMove DEF Publish
  <2>2. task \in Settled
    BY DEF Budgets
  <2>3. inbox'.tasks = inbox.tasks
        /\ inbox'.publications \in {inbox.publications, Append(inbox.publications, task)}
    BY <1>0, <1>8, <2>2, UnchargedFields DEF Publish, InboxFields
  <2>4. Append(inbox.publications, task) \in Seq(ItemType)
    BY ItemsMove DEF Items
  <2> QED
    BY <2>1, <2>3, <2>4 DEF Items
<1>9. CASE PumpUploads
  <2>1. task' = task /\ inbox'.tasks = inbox.tasks
        /\ \/ inbox'.publications = inbox.publications
           \/ inbox.publications # <<>> /\ inbox'.publications = Tail(inbox.publications)
    BY <1>9, Pumping
  <2> QED
    BY <2>1, ItemsMove DEF Items
<1>10. CASE FrameFindsLoss \/ ResizeFindsLoss \/ AnswerRequest
  <2>1. task' = task /\ \E next \in {"join", "loop"} : StartRecovery(next)
    BY <1>10 DEF FrameFindsLoss, ResizeFindsLoss, AnswerRequest, uploadVars
  <2>2. inbox' = inbox \/ Empties
    BY <1>0, <2>1, Emptying DEF StartRecovery
  <2> QED
    BY <1>1, <1>2, <2>1, <2>2
<1>11. CASE ArmImport \/ ResetDevice
  <2>1. /\ task' = task /\ inbox'.tasks = inbox.tasks
        /\ inbox'.publications = inbox.publications
    BY <1>0, <1>11 DEF ArmImport, ResetDevice, InboxFields, uploadVars
  <2> QED
    BY <1>2, <2>1
<1>12. CASE RebuildDevice \/ LeaveLoop \/ JoinUpload \/ DeviceRemoved \/ UNCHANGED vars
  <2>1. inbox' = inbox /\ task' = task
    BY <1>12 DEF RebuildDevice, LeaveLoop, JoinUpload, DeviceRemoved, uploadVars, vars
  <2> QED
    BY <1>2, <2>1
<1> QED
  BY <1>3, <1>4, <1>5, <1>6, <1>7, <1>8, <1>9, <1>10, <1>11, <1>12
  DEF Next, UiStep, UploadStep, RenderStep

\* The invariant behind TypeOK.
RangeInv ==
    Addresses /\ PartsFirst /\ Rested /\ RecoversOnce /\ Bounded /\ Places /\ Items

(* The generations, the messages and the items stay within their bounds.    *)
THEOREM RangeInvariant == Spec => []RangeInv
<1>1. Init => RangeInv
  <2> SUFFICES ASSUME Init PROVE RangeInv
    OBVIOUS
  <2>1. Range(<<>>) = {} /\ Len(<<>>) = 0 /\ <<>> \in Seq(ItemType)
    BY LenProperties DEF Range
  <2>2. MaxEvents \in Nat /\ MaxBatches \in Nat /\ 0 \notin Generations
        /\ 0 \in 0 .. MaxGeneration /\ 0 \in 0 .. MaxBatches
    BY PipelineAssumption DEF Generations, MaxGeneration
  <2>3. Addresses /\ PartsFirst
    BY <2>1 DEF Init, Addresses, PartsFirst
  <2>4. Rested /\ RecoversOnce /\ Places
    BY <2>1, <2>2 DEF Init, Rested, RecoversOnce, Recovering, Places
  <2>5. Bounded
    BY <2>1, <2>2 DEF Init, Bounded, Loads, Reopens, Pending
  <2>6. Items
    BY <2>1, <2>2 DEF Init, Items, NoItem, Item, ItemType
  <2> QED
    BY <2>3, <2>4, <2>5, <2>6 DEF RangeInv
<1>2. BudgetInv /\ WholeInv /\ RangeInv /\ [Next]_vars => RangeInv'
  <2> SUFFICES ASSUME BudgetInv, WholeInv, RangeInv, [Next]_vars PROVE RangeInv'
    OBVIOUS
  <2>1. /\ Newest /\ Imports /\ Budgets
        /\ Freshness /\ Reports /\ Served /\ Flow /\ Ends
        /\ Addresses /\ PartsFirst /\ Rested /\ RecoversOnce /\ Bounded /\ Places /\ Items
    BY DEF BudgetInv, WholeInv, RangeInv
  <2>2. Addresses' /\ PartsFirst'
    BY <2>1, AddressesStep, PartsFirstStep
  <2>3. Rested' /\ RecoversOnce'
    BY <2>1, RestedStep, RecoversOnceStep
  <2>4. Bounded' /\ Places' /\ Items'
    BY <2>1, BoundedStep, PlacesStep, ItemsStep
  <2> QED
    BY <2>2, <2>3, <2>4 DEF RangeInv
<1> QED
  BY <1>1, <1>2, BudgetsInvariant, WholenessInvariant, PTL DEF Spec

(* Type correctness: every step of every thread keeps every variable in its *)
(* type, and the queue and the reservations within the queue's capacity.    *)
THEOREM PipelineTypeCorrect == Spec => []TypeOK
<1>1. ASSUME BudgetInv, WholeInv, RangeInv PROVE TypeOK
  <2>1. /\ Newest /\ Imports /\ Budgets /\ Freshness /\ Reports /\ Served
        /\ Addresses /\ Rested /\ Bounded /\ Places /\ Items
    BY <1>1 DEF BudgetInv, WholeInv, RangeInv
  <2>2. requests \in 0 .. MaxEvents /\ losses \in 0 .. MaxEvents
    BY <2>1, PipelineAssumption DEF Bounded
  <2>3. generation \in {0} \cup Generations
    <3>1. generation \in Nat /\ requests \in Nat /\ MaxEvents \in Nat /\ losses \in Nat
          /\ requests + losses <= MaxEvents
      BY <2>1, PipelineAssumption DEF Bounded, Newest, ServesNewest
    <3>2. generation <= 2 * requests + 2
      BY <2>1, <3>1 DEF Bounded, Loads, Reopens
    <3> QED
      BY <3>1, <3>2 DEF Generations, MaxGeneration
  <2>4. inbox.gen \in {0} \cup Generations
    BY <2>1, <2>3 DEF Newest, ServesNewest
  <2>5. ASSUME NEW i \in DOMAIN messages
        PROVE  /\ messages[i].kind \in {"imported", "failed", "cancelled",
                                        "uploaded", "recovered"}
               /\ messages[i].gen \in {0} \cup Generations
    <3>1. messages \in Seq(Messages) /\ messages[i] \in Range(messages)
      BY <2>1 DEF Reports, Range
    <3>2. messages[i] \in Messages
      BY <3>1, LenProperties, ElementOfSeq
    <3> QED
      BY <2>1, <3>1, <3>2 DEF Messages, Addresses
  <2>6. \A t \in Range(inbox.tasks) \cup Range(inbox.publications) \cup {task} :
           t \in ItemType
    <3>1. \A s \in Seq(ItemType) : \A t \in Range(s) : t \in ItemType
      BY Indices
    <3> QED
      BY <2>1, <3>1 DEF Items
  <2>7. inbox.gpuPending \in 0 .. CountCap
    <3>1. /\ Queued(inbox.tasks) \in Nat /\ Queued(inbox.publications) \in Nat
          /\ Reserved(inbox.publications) \in Nat
          /\ Reserved(inbox.publications) <= Queued(inbox.publications)
      BY <2>1, BudgetCounts DEF Budgets
    <3>2. task.gpu \in {0, 1} /\ Held \in {0, 1} /\ task.gpu <= Held
      BY <2>1, HeldIs DEF Budgets, Settled, Tasks, Terminal
    <3>3. /\ inbox.count = Queued(inbox.tasks) + Queued(inbox.publications) + Held
          /\ inbox.gpuPending = Reserved(inbox.publications) + task.gpu
          /\ inbox.count \in 0 .. CountCap /\ CountCap \in Nat
      BY <2>1, PipelineAssumption DEF Budgets, BudgetsBalance
    <3> HIDE DEF Queued, Reserved, Held
    <3> QED
      BY <3>1, <3>2, <3>3
  <2> QED
    BY <2>1, <2>2, <2>3, <2>4, <2>5, <2>6, <2>7
    DEF TypeOK, Imports, Freshness, Budgets, Served, Rested, Places, Addresses
<1> QED
  BY <1>1, BudgetsInvariant, WholenessInvariant, RangeInvariant, PTL
=============================================================================
