--------------------------- MODULE UploadPipeline ---------------------------
(***************************************************************************)
(* From an accepted batch to the scene on screen: the UI thread of the     *)
(* viewer (Preview3D.cpp), one import thread per open, the upload thread   *)
(* and the render thread (RenderThread.cpp) around the mutex-protected     *)
(* UploadInbox, with closing the window and the one recovery of a lost     *)
(* graphics device.                                                        *)
(*                                                                         *)
(* A batch is its index in its import, and index 0 is the terminal marker. *)
(* One step is one critical section of the inbox's mutex, or the part of a *)
(* handler that runs between two of them.  A batch counts one in each      *)
(* budget: the queue's count stands for count and bytes, gpuPending for    *)
(* the reserved destination bytes.                                         *)
(***************************************************************************)
EXTENDS Naturals, Sequences, FiniteSets, SequencesExt

CONSTANTS
    MaxEvents,      \* bound on what happens from outside: opens and cancels
                    \* by the user, losses of the graphics device
    MaxBatches,     \* bound on the batches of one import
    CountCap        \* UploadInbox::countCap

ASSUME PipelineAssumption ==
    /\ {MaxEvents, MaxBatches} \subseteq Nat
    /\ CountCap \in Nat \ {0}

VARIABLES
    uipc,           \* where the UI thread is
    generation,     \* app.generation
    requests,       \* the opens and cancels of the user so far
    state,          \* app.state; "Rest" is Empty, or what CancelOpen kept
    messages,       \* what was posted to the window and not yet handled
    ipc,            \* per generation, where its import thread is
    cancelled,      \* per generation, its cancellation token
    produced,       \* per generation, the batches its import has produced
    inbox,          \* UploadInbox
    upc,            \* where the upload thread is
    task,           \* the task it holds
    rpc,            \* where the render thread is
    recoveryRequested,
    recoveryAttempted,
    fatal,          \* why the render thread gave up the device, if it did
    staged,         \* stagedGeneration_, stagedScene_ and stagedFailed_
    scene,          \* modelGeneration_ and path_.model
    hasModel,
    snapshot,       \* the generation of displaySnapshot_, or 0
    notice,         \* the generation whose path the recovery notice names
    lost,           \* is the device removed?
    losses

uiVars == <<uipc, generation, requests, state>>
importVars == <<ipc, cancelled, produced>>
uploadVars == <<upc, task>>
sceneVars == <<staged, scene, hasModel, snapshot>>
deviceVars == <<recoveryRequested, recoveryAttempted, fatal, notice, lost, losses>>
vars == <<uiVars, messages, importVars, inbox, uploadVars, rpc,
          sceneVars, deviceVars>>

\* Each open takes a generation and so may its cancellation; recovery can
\* open one more file than the user did.
MaxGeneration == 2 * (MaxEvents + 1)
Generations == 1 .. MaxGeneration

MoreEvents == requests + losses < MaxEvents

Item(g, b) == [gen |-> g, batch |-> b, gpu |-> 0, ok |-> TRUE]
NoItem == Item(0, 0)
Terminal(t) == t.batch = 0
Queued(s) == Cardinality({i \in DOMAIN s : ~Terminal(s[i])})
Reserved(s) == Cardinality({i \in DOMAIN s : s[i].gpu = 1})

Message(kind, g, ok, terminal) ==
    [kind |-> kind, gen |-> g, ok |-> ok, terminal |-> terminal]
EmptyStage == [gen |-> 0, batches |-> <<>>, failed |-> FALSE]

Init ==
    /\ uipc = "run" /\ generation = 0 /\ requests = 0 /\ state = "Rest"
    /\ messages = <<>>
    /\ ipc = [g \in Generations |-> "none"]
    /\ cancelled = [g \in Generations |-> FALSE]
    /\ produced = [g \in Generations |-> 0]
    /\ inbox = [tasks |-> <<>>, publications |-> <<>>, count |-> 0,
                gen |-> 0, token |-> 0, stopped |-> FALSE, gpuPending |-> 0]
    /\ upc = "wait" /\ task = NoItem
    /\ rpc = "loop"
    /\ recoveryRequested = FALSE /\ recoveryAttempted = FALSE
    /\ fatal = "no" /\ notice = 0 /\ lost = FALSE /\ losses = 0
    /\ staged = EmptyStage
    /\ scene = [gen |-> 0, batches |-> <<>>]
    /\ hasModel = FALSE /\ snapshot = 0

-----------------------------------------------------------------------------
(* The inbox.                                                               *)

\* Seeded bug: reservations of discarded publications stay charged.
PendingKept(i) == i.gpuPending
\* Publications give their reservation back; a task has none yet.
PendingAfterCancel(i) == i.gpuPending - Reserved(i.publications)

\* CancelUploads, for the inbox.  What the upload thread holds stays charged.
Emptied(i) ==
    [i EXCEPT !.gen = 0,
              !.count = @ - Queued(i.tasks) - Queued(i.publications),
              !.gpuPending = PendingAfterCancel(i),
              !.tasks = <<>>, !.publications = <<>>]

\* CancelUploads, for the token the inbox holds.
CancelInbox ==
    cancelled' = [g \in Generations |-> cancelled[g] \/ g = inbox.token]

\* app.cancellation, the token of the newest open, fires too.
CancelBoth ==
    cancelled' = [g \in Generations |->
                     \/ cancelled[g] \/ g = inbox.token
                     \/ g = generation /\ ipc[g] # "none"]

Current(t) ==
    ~inbox.stopped /\ inbox.gen = t.gen /\ (Terminal(t) \/ ~cancelled[t.gen])

-----------------------------------------------------------------------------
(* The UI thread.                                                           *)

\* BeginOpen up to CancelUploads inside BeginImport.
StartOpening ==
    /\ uipc' = "open"
    /\ generation' = generation + 1
    /\ state' = "Loading"
    /\ CancelBoth
    /\ inbox' = Emptied(inbox)

\* SetFailure.
Fail ==
    /\ state' = "Failed"
    /\ CancelBoth
    /\ inbox' = Emptied(inbox)
    /\ UNCHANGED uipc

\* A path or a format may be refused before anything is imported.
BeginOpen ==
    \/ StartOpening
    \/ Fail /\ generation' = generation + 1

UserOpens ==
    /\ uipc = "run" /\ MoreEvents
    /\ requests' = requests + 1
    /\ BeginOpen
    /\ UNCHANGED <<messages, ipc, produced, uploadVars, rpc, sceneVars,
                   deviceVars>>

\* The rest of BeginImport and BeginOpen: the inbox is armed, the import
\* thread starts.
ArmImport ==
    /\ uipc = "open"
    /\ uipc' = "run"
    /\ inbox' = [inbox EXCEPT !.gen = generation, !.token = generation]
    /\ ipc' = [ipc EXCEPT ![generation] = "run"]
    /\ UNCHANGED <<generation, requests, state, messages, cancelled, produced,
                   uploadVars, rpc, sceneVars, deviceVars>>

\* CancelOpen: nothing happens unless a file is loading.
CancelOpen ==
    IF state = "Loading"
    THEN /\ generation' = generation + 1
         /\ state' = "Rest"
         /\ CancelBoth
         /\ inbox' = Emptied(inbox)
    ELSE UNCHANGED <<generation, state, cancelled, inbox>>

UserCancels ==
    /\ uipc = "run" /\ state = "Loading" /\ MoreEvents
    /\ requests' = requests + 1
    /\ CancelOpen
    /\ UNCHANGED <<uipc, messages, ipc, produced, uploadVars, rpc,
                   sceneVars, deviceVars>>

\* FinishImport: the terminal marker of the generation the inbox serves.
FinishImport(g) ==
    inbox' = IF ~inbox.stopped /\ inbox.gen = g
             THEN [inbox EXCEPT !.tasks = Append(@, Item(g, 0))]
             ELSE inbox

Ignored(m) == m.gen # generation \/ state = "Failed"

HandleImportComplete(m) ==
    \/ /\ Ignored(m)
       /\ UNCHANGED <<uipc, generation, state, cancelled, inbox>>
    \/ /\ ~Ignored(m) /\ m.kind = "cancelled"
       /\ CancelOpen /\ UNCHANGED uipc
    \/ /\ ~Ignored(m) /\ m.kind = "failed"
       /\ Fail /\ UNCHANGED generation
    \/ /\ ~Ignored(m) /\ m.kind = "imported"
       /\ FinishImport(m.gen)
       /\ UNCHANGED <<uipc, generation, state, cancelled>>

HandleUploadComplete(m) ==
    \/ /\ Ignored(m)
       /\ UNCHANGED <<uipc, generation, state, cancelled, inbox>>
    \/ /\ ~Ignored(m) /\ ~m.ok
       /\ Fail /\ UNCHANGED generation
    \/ /\ ~Ignored(m) /\ m.ok
       /\ state' = IF m.terminal THEN "Ready" ELSE "Loading"
       /\ UNCHANGED <<uipc, generation, cancelled, inbox>>

\* The displayed file is opened again, or a failure shown when there is none.
HandleRecovery(m) ==
    IF m.ok /\ m.gen # 0
    THEN BeginOpen
    ELSE Fail /\ UNCHANGED generation

HandleMessage ==
    /\ uipc = "run" /\ messages # <<>>
    /\ messages' = Tail(messages)
    /\ LET m == Head(messages) IN
           CASE m.kind = "uploaded"  -> HandleUploadComplete(m)
             [] m.kind = "recovered" -> HandleRecovery(m)
             [] OTHER                -> HandleImportComplete(m)
    /\ UNCHANGED <<requests, ipc, produced, uploadVars, rpc, sceneVars,
                   deviceVars>>

\* WM_DESTROY and Stop: CancelUploads, then the stop flags.  Stop's wait for
\* the render thread is bounded and changes nothing that is modelled; what is
\* still in the window's queue is never handled.
CloseWindow ==
    /\ uipc = "run"
    /\ uipc' = "closing" /\ messages' = <<>>
    /\ CancelBoth
    /\ inbox' = [Emptied(inbox) EXCEPT !.stopped = TRUE]
    /\ UNCHANGED <<generation, requests, state, ipc, produced, uploadVars, rpc,
                   sceneVars, deviceVars>>

Closing == uipc = "closing"

-----------------------------------------------------------------------------
(* The import threads.                                                      *)

\* Posted unless the window is closing.
Post(m) == messages' = IF Closing THEN messages ELSE Append(messages, m)

\* The session hands the sink its next batch.  Of a cancelled import there
\* may be one more, which the sink drops; it is left out.
ProduceBatch(g) ==
    /\ ipc[g] = "run" /\ ~cancelled[g] /\ produced[g] < MaxBatches
    /\ ipc' = [ipc EXCEPT ![g] = "push"]
    /\ produced' = [produced EXCEPT ![g] = @ + 1]
    /\ UNCHANGED <<uiVars, messages, cancelled, inbox, uploadVars, rpc,
                   sceneVars, deviceVars>>

Abandoned(g) == inbox.stopped \/ inbox.gen # g \/ cancelled[g]

\* Seeded bug: the queue is never full.
AlwaysRoom == TRUE
HasRoom == inbox.count < CountCap

\* The sink waits for capacity; a superseded batch is dropped without a word.
PushBatch(g) ==
    /\ ipc[g] = "push"
    /\ \/ /\ Abandoned(g)
          /\ UNCHANGED inbox
       \/ /\ ~Abandoned(g) /\ HasRoom
          /\ inbox' = [inbox EXCEPT
                          !.tasks = Append(@, Item(g, produced[g])),
                          !.count = @ + 1]
    /\ ipc' = [ipc EXCEPT ![g] = "run"]
    /\ UNCHANGED <<uiVars, messages, cancelled, produced, uploadVars, rpc,
                   sceneVars, deviceVars>>

\* The import ends and its result is posted unless the window is closing.
ImportEnds(g) ==
    /\ ipc[g] = "run"
    /\ ipc' = [ipc EXCEPT ![g] = "done"]
    /\ \E kind \in {"imported", "failed"}
                   \cup (IF cancelled[g] THEN {"cancelled"} ELSE {}) :
           Post(Message(kind, g, TRUE, TRUE))
    /\ UNCHANGED <<uiVars, cancelled, produced, inbox, uploadVars, rpc,
                   sceneVars, deviceVars>>

ImportStep(g) == ProduceBatch(g) \/ PushBatch(g) \/ ImportEnds(g)

-----------------------------------------------------------------------------
(* The upload thread.                                                       *)

\* Seeded bug: the wait ends for a task only, and sees the stop flag then.
TaskShowsStop == inbox.stopped /\ inbox.tasks # <<>>
SeesStop == inbox.stopped

TakeTask ==
    /\ upc = "wait"
    /\ \/ /\ SeesStop
          /\ upc' = "ended"
          /\ UNCHANGED <<task, inbox>>
       \/ /\ ~inbox.stopped /\ inbox.tasks # <<>>
          /\ task' = Head(inbox.tasks)
          /\ inbox' = [inbox EXCEPT !.tasks = Tail(@)]
          /\ upc' = IF Terminal(Head(inbox.tasks)) THEN "publish" ELSE "reserve"
    /\ UNCHANGED <<uiVars, messages, importVars, rpc, sceneVars, deviceVars>>

\* Nothing is done for a stale task.  Destinations are reserved; after a
\* bounded wait for the budget the batch fails instead.
Reserve ==
    /\ upc = "reserve"
    /\ \/ /\ ~Current(task) /\ upc' = "publish" /\ UNCHANGED <<task, inbox>>
       \/ /\ Current(task) /\ upc' = "publish"
          /\ task' = [task EXCEPT !.ok = FALSE] /\ UNCHANGED inbox
       \/ /\ Current(task) /\ upc' = "copy"
          /\ task' = [task EXCEPT !.gpu = 1]
          /\ inbox' = [inbox EXCEPT !.gpuPending = @ + 1]
    /\ UNCHANGED <<uiVars, messages, importVars, rpc, sceneVars, deviceVars>>

\* The copy: it completes, or it fails or times out.  One that cannot begin,
\* be it only because the task is stale, asks for recovery when the device
\* is gone.
Copy ==
    /\ upc = "copy"
    /\ upc' = "publish"
    /\ \/ Current(task) /\ UNCHANGED <<task, recoveryRequested>>
       \/ /\ task' = [task EXCEPT !.ok = FALSE]
          /\ recoveryRequested' \in {recoveryRequested, recoveryRequested \/ lost}
    /\ UNCHANGED <<uiVars, messages, importVars, inbox, rpc, sceneVars,
                   recoveryAttempted, fatal, notice, lost, losses>>

\* Seeded bug: a stale task's reservation and its place are not given back.
KeepsCharge(i, t) == i
\* What a task that will not be published gives back.
Uncharge(i, t) ==
    IF Terminal(t) THEN i
    ELSE [i EXCEPT !.count = @ - 1, !.gpuPending = @ - t.gpu]

Publish ==
    /\ upc = "publish"
    /\ upc' = "wait" /\ task' = NoItem
    /\ inbox' = IF Current(task)
                THEN [inbox EXCEPT !.publications = Append(@, task)]
                ELSE Uncharge(inbox, task)
    /\ UNCHANGED <<uiVars, messages, importVars, rpc, sceneVars, deviceVars>>

UploadStep == TakeTask \/ Reserve \/ Copy \/ Publish

-----------------------------------------------------------------------------
(* The render thread.                                                       *)

\* The generation is compared under the mutex that BeginImport needs.
Accepts(p) == p.gen = inbox.gen

\* What is staged for a generation the inbox no longer serves is dropped.
StageNow == IF staged.gen # inbox.gen THEN EmptyStage ELSE staged
\* Seeded bug: a new generation goes on with what is staged.
StageKept(g) == [staged EXCEPT !.gen = g]
StageFor(g) == IF StageNow.gen = g THEN StageNow
               ELSE [EmptyStage EXCEPT !.gen = g]

Show(s, p) == [s EXCEPT !.batches = Append(@, <<p.gen, p.batch>>)]

\* An uploaded batch joins the scene of its generation, on screen or staged.
\* The staged scene replaces the model once it has bounds and something to
\* draw; only a batch of the model on screen is reported.  An instance that
\* cannot be drawn spoils the import without a word, a material that has no
\* buffer is reported too.
AcceptBatch(p) ==
    LET st == StageFor(p.gen) IN
    \E ready, drawable, faulty \in BOOLEAN :
        /\ ~ready => faulty
        /\ IF scene.gen = p.gen
           THEN /\ scene' = Show(scene, p)
                /\ staged' = [st EXCEPT !.failed = @ \/ faulty]
                /\ hasModel' = (hasModel \/ (ready /\ drawable))
           ELSE IF ready /\ drawable
           THEN /\ scene' = [gen |-> p.gen, batches |-> Show(st, p).batches]
                /\ staged' = [st EXCEPT !.batches = <<>>, !.failed = @ \/ faulty]
                /\ hasModel' = TRUE
           ELSE /\ staged' = [Show(st, p) EXCEPT !.failed = @ \/ faulty]
                /\ UNCHANGED <<scene, hasModel>>
        /\ IF scene'.gen = p.gen
           THEN /\ Post(Message("uploaded", p.gen, ready, FALSE))
                /\ snapshot' = IF ready THEN p.gen ELSE snapshot
           ELSE UNCHANGED <<messages, snapshot>>

\* A batch that failed to upload spoils its import and is reported at once.
AcceptFailure(p) ==
    /\ staged' = [StageFor(p.gen) EXCEPT !.failed = TRUE]
    /\ Post(Message("uploaded", p.gen, FALSE, FALSE))
    /\ UNCHANGED <<scene, hasModel, snapshot>>

\* Seeded bug: a failed batch does not spoil the import.
IgnoresFailures(st, g) == scene.gen = g /\ hasModel
Whole(st, g) == ~st.failed /\ scene.gen = g /\ hasModel

AcceptTerminal(p) ==
    LET st == StageFor(p.gen)
        whole == Whole(st, p.gen)
    IN  /\ staged' = st
        /\ Post(Message("uploaded", p.gen, whole, TRUE))
        /\ snapshot' = IF whole THEN p.gen ELSE snapshot
        /\ UNCHANGED <<scene, hasModel>>

\* PumpUploads: one publication a frame, under the inbox's mutex.
PumpUploads ==
    /\ rpc = "loop"
    /\ \/ /\ inbox.publications = <<>> /\ StageNow # staged
          /\ staged' = StageNow
          /\ UNCHANGED <<inbox, messages, scene, hasModel, snapshot>>
       \/ /\ inbox.publications # <<>>
          /\ LET p == Head(inbox.publications) IN
                /\ inbox' = Uncharge([inbox EXCEPT !.publications = Tail(@)], p)
                /\ CASE ~Accepts(p) ->
                            /\ staged' = StageNow
                            /\ UNCHANGED <<messages, scene, hasModel, snapshot>>
                     [] Accepts(p) /\ Terminal(p) -> AcceptTerminal(p)
                     [] Accepts(p) /\ ~Terminal(p) /\ p.ok -> AcceptBatch(p)
                     [] OTHER -> AcceptFailure(p)
    /\ UNCHANGED <<uiVars, importVars, uploadVars, rpc, deviceVars>>

\* RecoverDevice up to joining the upload thread; the second time it only
\* reports, and its caller gives up at `next`.
StartRecovery(next) ==
    IF recoveryAttempted
    THEN /\ rpc' = next /\ fatal' = "again"
         /\ Post(Message("recovered", snapshot, FALSE, TRUE))
         /\ UNCHANGED <<recoveryAttempted, notice, cancelled, inbox>>
    ELSE /\ rpc' = "drain" /\ recoveryAttempted' = TRUE
         /\ notice' = snapshot
         /\ CancelInbox
         /\ inbox' = [Emptied(inbox) EXCEPT !.stopped = TRUE]
         /\ UNCHANGED <<fatal, messages>>

\* A present finds the device gone; the loop may have looked at
\* stopRequested before.
FrameFindsLoss ==
    /\ rpc = "loop" /\ lost
    /\ StartRecovery("join")
    /\ UNCHANGED <<uiVars, ipc, produced, uploadVars, sceneVars,
                   recoveryRequested, lost, losses>>

\* So does a resize, behind which the loop goes on until its next frame.  One
\* after the device was given up would only repeat the report.
ResizeFindsLoss ==
    /\ rpc = "loop" /\ lost /\ fatal = "no"
    /\ StartRecovery("loop")
    /\ UNCHANGED <<uiVars, ipc, produced, uploadVars, sceneVars,
                   recoveryRequested, lost, losses>>

AnswerRequest ==
    /\ rpc = "loop" /\ recoveryRequested
    /\ recoveryRequested' = FALSE
    /\ StartRecovery("join")
    /\ UNCHANGED <<uiVars, ipc, produced, uploadVars, sceneVars, lost,
                   losses>>

\* The upload thread is joined, the device dropped, the inbox reset.
ResetDevice ==
    /\ rpc = "drain" /\ upc = "ended"
    /\ rpc' = "rebuild" /\ upc' = "joined"
    /\ inbox' = [inbox EXCEPT !.stopped = FALSE, !.gen = 0, !.token = 0]
    /\ scene' = [scene EXCEPT !.batches = <<>>]
    /\ hasModel' = FALSE /\ snapshot' = 0
    /\ UNCHANGED <<uiVars, messages, importVars, task, staged, deviceVars>>

\* The device is built again, or not.
RebuildDevice ==
    /\ rpc = "rebuild"
    /\ \/ /\ rpc' = "loop" /\ upc' = "wait" /\ lost' = FALSE
          /\ Post(Message("recovered", notice, TRUE, TRUE))
          /\ UNCHANGED fatal
       \/ /\ rpc' = "join" /\ fatal' = "rebuild"
          /\ Post(Message("recovered", notice, FALSE, TRUE))
          /\ UNCHANGED <<upc, lost>>
    /\ notice' = 0
    /\ UNCHANGED <<uiVars, importVars, inbox, task, sceneVars,
                   recoveryRequested, recoveryAttempted, losses>>

\* The loop ends by stopRequested_, or behind a frame without a device.
LeaveLoop ==
    /\ rpc = "loop" /\ (Closing \/ fatal # "no")
    /\ rpc' = "join"
    /\ UNCHANGED <<uiVars, messages, importVars, inbox, uploadVars,
                   sceneVars, deviceVars>>

\* The render thread ends when it has joined the upload thread.
JoinUpload ==
    /\ rpc = "join" /\ upc \in {"ended", "joined"}
    /\ rpc' = "ended"
    /\ IF fatal = "no"
       THEN scene' = [scene EXCEPT !.batches = <<>>] /\ hasModel' = FALSE
       ELSE UNCHANGED <<scene, hasModel>>
    /\ UNCHANGED <<uiVars, messages, importVars, inbox, uploadVars, staged,
                   snapshot, deviceVars>>

RenderStep ==
    \/ PumpUploads \/ FrameFindsLoss \/ ResizeFindsLoss \/ AnswerRequest
    \/ ResetDevice \/ RebuildDevice \/ LeaveLoop \/ JoinUpload

\* The driver, the hardware or a timeout removes the device.
DeviceRemoved ==
    /\ ~lost /\ MoreEvents
    /\ lost' = TRUE /\ losses' = losses + 1
    /\ UNCHANGED <<uiVars, messages, importVars, inbox, uploadVars, rpc,
                   sceneVars, recoveryRequested, recoveryAttempted, fatal,
                   notice>>

UiStep == ArmImport \/ HandleMessage

Next ==
    \/ UserOpens \/ UserCancels \/ CloseWindow
    \/ UiStep
    \/ \E g \in Generations : ImportStep(g)
    \/ UploadStep
    \/ RenderStep
    \/ DeviceRemoved

Spec == Init /\ [][Next]_vars

\* Every thread keeps running: the UI thread never waits without a bound,
\* the sink and the upload thread poll every 20 ms, the render thread wakes
\* every 100 ms, and the device layer's waits are bounded.
FairSpec ==
    /\ Spec
    /\ WF_vars(UiStep)
    /\ \A g \in Generations : WF_vars(ImportStep(g))
    /\ WF_vars(UploadStep)
    /\ WF_vars(RenderStep)

-----------------------------------------------------------------------------
(* Properties.                                                              *)

ItemType == [gen : 0 .. MaxGeneration, batch : 0 .. MaxBatches,
             gpu : {0, 1}, ok : BOOLEAN]

\* Every variable is in its type, and the queue of non-terminal batches,
\* with what the threads hold of it, never exceeds its capacity.
TypeOK ==
    /\ uipc \in {"run", "open", "closing"}
    /\ generation \in {0} \cup Generations /\ requests \in 0 .. MaxEvents
    /\ state \in {"Rest", "Loading", "Ready", "Failed"}
    /\ \A i \in DOMAIN messages :
           /\ messages[i].kind \in {"imported", "failed", "cancelled",
                                    "uploaded", "recovered"}
           /\ messages[i].gen \in {0} \cup Generations
    /\ ipc \in [Generations -> {"none", "run", "push", "done"}]
    /\ cancelled \in [Generations -> BOOLEAN]
    /\ produced \in [Generations -> 0 .. MaxBatches]
    /\ \A t \in Range(inbox.tasks) \cup Range(inbox.publications) \cup {task} :
           t \in ItemType
    /\ inbox.count \in 0 .. CountCap /\ inbox.gpuPending \in 0 .. CountCap
    /\ inbox.gen \in {0} \cup Generations /\ inbox.stopped \in BOOLEAN
    /\ upc \in {"wait", "reserve", "copy", "publish", "ended", "joined"}
    /\ rpc \in {"loop", "drain", "rebuild", "join", "ended"}
    /\ fatal \in {"no", "again", "rebuild"}
    /\ losses \in 0 .. MaxEvents /\ snapshot \in {0} \cup Generations

Held == IF task = NoItem \/ Terminal(task) THEN 0 ELSE 1

\* The two budgets are exactly what is queued, held by the upload thread or
\* published, whatever was cancelled, superseded or recovered in between:
\* nothing is given back twice, and nothing stays charged and starves a
\* later import (CancelUploads, UploadMain and PumpUploads each give back).
BudgetsBalance ==
    /\ inbox.count = Queued(inbox.tasks) + Queued(inbox.publications) + Held
    /\ inbox.gpuPending = Reserved(inbox.publications) + task.gpu

\* The scene on screen only ever takes batches of the newest open: once the
\* UI thread has moved on, no batch of an older import can reach the screen,
\* however far it had come, published or staged (the generation lock held
\* through PumpUploads, and what it drops).
OnlyNewestIsShown ==
    [][\A b \in Range(scene'.batches) \ Range(scene.batches) :
           b[1] = generation]_vars

Complete(g) == scene.batches = [b \in 1 .. produced[g] |-> <<g, b>>]

\* A model reported as ready is the whole import, every batch once and in
\* order, although batches are dropped and fail on the way: as long as the
\* model of that generation is on screen, "Ready", and a successful terminal
\* message still on its way to the UI thread, mean a complete scene.
ReadyIsWhole ==
    hasModel =>
        /\ state = "Ready" /\ scene.gen = generation => Complete(generation)
        /\ \A m \in Range(messages) :
               m.kind = "uploaded" /\ m.ok /\ m.terminal /\ m.gen = scene.gen
                   => Complete(m.gen)

\* Every open is answered: a file does not load forever, whatever is
\* cancelled, fails or is lost on the way, unless the render thread has given
\* up the device or the window closes.
OpenIsAnswered ==
    state = "Loading" ~> (state # "Loading" \/ fatal # "no" \/ Closing)

\* When the window closes and nothing takes the stop flag back, the upload
\* thread and then the render thread end.
StopEnds ==
    []((Closing /\ [](inbox.stopped)) => <>(rpc = "ended"))

\* docs/design/06-application-lifecycle-and-ipc.md: closing during device
\* recovery terminates.
CloseEnds == Closing ~> (rpc = "ended")

\* docs/design/04-rendering-and-streaming.md: the device is rebuilt once, and
\* a stable failure is shown if recovery repeats; one loss is no repetition.
OneLossIsRecovered == fatal = "again" => losses > 1
=============================================================================
