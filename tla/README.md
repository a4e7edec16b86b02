# Verification of Preview 3D

TLA+ specifications of Preview 3D's own concurrent logic, TLC configurations
that check them on small instances, and TLAPS proofs for every instance. The
source is `src/`; every definition names the lines it translates in
`PROJECT.json` ("map").

## 1. The system

Preview 3D is a Windows 3D model viewer. A file is parsed outside the viewer, in
a sandboxed child process; what the child sends back is validated, copied,
uploaded to the GPU and swapped into the scene in pieces while the window stays
responsive. A separate Shell extension draws thumbnails.

```
 user ──> UI thread (Preview3D.cpp) ──starts──> import thread, one per open
             ^  ^   │cancel, stop                   │ lease      │ batches
             │  │   v                               v            v
             │  │  UploadInbox <── queue ──── ProcessCoordinator  RunImportSession
             │  │   │                           │ launch/kill      ^ pipes + window
             │  │   v                           v                  v
   messages  │  └─ upload thread            child process: import worker or
             │      │ publications          compatibility host
             │      v
             └──── render thread (RenderThread.cpp) ──> Direct3D 12
```

| component | state | operations | hard behaviour | what makes it correct |
|---|---|---|---|---|
| Process coordinator, worker pool (`ImportSession.cpp`, `WorkerPool.cpp`) | pool, busy flags, initializer thread, ready/stopping flags | prepare (async, now), acquire, release, replace, shut down | several import threads, launches outside the lock, children that die, shutdown under waiters | a child serves one session at a time, starts clean, no worker is lost, every wait ends, no lease outlives the pool |
| Import session (`ImportSession.cpp`, `ControlChannelWait.cpp`, `SidecarRequestServicer.cpp`; in the child `WorkerRequestDispatch.cpp`, `ChunkBatchSink.cpp`, `SidecarFileClient.cpp`, the format workers) | two pipes, one output window, cancellation event, counters and deadlines | start, batch and acknowledgement, sidecar, terminal reply, cancel and grace, detail replay, reuse | shared window, cancellation at any point, timeouts, crash or hang of the child, a pipe that outlives the session | batches arrive once, in order, unchanged; a cancelled session stops; a reused worker is quiet; no handshake deadlock; every session ends |
| Viewer: open, cancel, close (`Preview3D.cpp`) | `app.generation`, `app.state`, cancellation token, message queue | BeginOpen, CancelOpen, SetFailure, completion messages, WM_DESTROY | results of superseded opens, messages that arrive late | only the newest open is shown, every open is answered |
| Upload lane and device recovery (`RenderThread.cpp`) | `UploadInbox` (tasks, publications, two budgets, generation, token, stop, detail requests), staged scene, shown scene, recovery flags | BeginImport, FinishImport, CancelUploads, UploadMain, PumpUploads, RecoverDevice, Stop, UpdateBudget, RequestVisibleDetail | four kinds of threads around one mutex, work done between two critical sections, device loss at any point, closing | budgets balance, nothing stale is shown, Ready means complete, stop ends |
| Import bridge (`D3D12ImportBridge.cpp`) | the coordinators, one per kind of host | route a format, prepare, shut down in order | repeated preparation | as the coordinator |
| USD fallback (`UsdFallbackState.h`) | phase, producer | observe batch, error, complete | fallback must be exact and once | the two producers never both commit |
| Upload ring (`D3D12UploadRing.cpp`) | circular buffer, fences, retired buffers | upload, grow, flush, reclaim, drain | wrap, alignment, memory the GPU still reads | no overlap, bytes balance, retired memory outlives its copies |
| GPU resources and frames (`D3D12ViewerPath.cpp`, `graphics/`) | fine and coarse meshes, textures, retired resources with their fences, the frames pending, the budget | draw, take in, evict, shed textures, reclaim, resize, pick | the GPU runs behind, the budget changes at any time, three threads account for one amount of memory | no hole and no double surface, nothing is released under a frame, reservations fit, "complete" is complete |
| Sandbox and section checks (`SandboxLauncher.cpp`, `SharedSectionValidator.cpp`, ...) | none beyond a call | launch, validate | bounds arithmetic | a refused section is never copied |
| Model core, parser core, platform | none beyond a call | recognise, preflight, parse | numeric edges | total on every input |
| Format adapters, compatibility hosts | third-party libraries | decode | crash, memory | contained by the process |
| Derived cache (`DerivedCache.cpp`) | files of a directory | load, store, evict, clear | several viewers on one directory, files that cannot be deleted | size bound, no torn entry |
| Rendering, user interface, settings | UI thread only | — | — | — |
| Update, shell integration (`platform/`) | registry, files, version text | compare, download, hand over | partial failure | a total order of versions |
| Thumbnail provider (`thumbnail-provider/`) | allocation ledger, lock of the CAD kernel, quarantine, per call a deadline, charges and an outcome | Initialize, GetThumbnail, release; reserve, parse, sample, render, reset | concurrent calls in the Shell's process, structured exceptions that skip destructors, a stop point that passes at any time | the ledger balances and never passes its limit, a faulted process refuses, every call returns |
| Packaging, tests, spikes, documents | not part of the program | | | |

`PROJECT.json` lists the same components with what is modelled of each, and the
hazards of the code at the lines where they bite.

## 2. Modules

| module | models | proofs |
|---|---|---|
| `ProcessCoordinator` | one coordinator with its pool, the import threads, start-up and shutdown | `ProcessCoordinatorProofs` |
| `ImportSession` | generations one after the other on one pooled worker, both ends of the pipes | `ImportSessionProofs` |
| `ImportDelivery` | what a session promises its caller, abstractly; `ImportSession` implements it | `ImportDeliveryProofs` |
| `UploadPipeline` | UI, import, upload and render thread around the inbox; cancellation, recovery, closing | `UploadPipelineProofs` |
| `UploadRing` | the staging ring, its copy queue and the upload thread that drives it, next to the GPU | `UploadRingProofs` |
| `DetailStreaming` | refinement of a complete scan: render thread, GPU, broker's replay and upload thread around the inbox and the memory budget | `DetailStreamingProofs` |
| `ThumbnailProvider` | concurrent requests in one Shell surrogate: ledger, kernel lock, containment, quarantine | `ThumbnailProviderProofs` |
| `FoldLemmas` | nothing of the code: what the sums, counts and folds the models use compute, for every input | itself |
| `MC...` | the constants' values and symmetry sets for TLC | — |

### ProcessCoordinator

One instance is one `ProcessCoordinator` object: the general pool (`ExitAfterUse
= FALSE`, prewarmed by `PrepareAsync`) or a dedicated host (`ExitAfterUse =
TRUE`, one slot, launched by `PrepareNow`). `slots` is `pool_->workers_`: for
each child its condition (blocked on the next request, a request open, dead) and
the busy flag. A step is a block under `mutex_`, or what runs between two such
blocks: `ReleaseReusable`, `TerminateWorker`, `PublishReplacement` and
`ReleaseReplaced` are separate because `Release` replaces a worker without the
mutex. `Leaked` are the slots that a replacement which did not launch leaves busy
for good, and `Exhausted` says that no other slot is left; `AcquireReturns`
excuses waiting then, and only then. `SupersededBy`, `BeginOpen` and
`Shutdown...` are the UI thread of `Preview3D.cpp`, which cancels an older open
when a new one starts, and joins all import threads before it shuts the
coordinators down.

### ImportSession and ImportDelivery

`hpc` and `wpc` are where the import thread and the worker are; `toWorker` and
`fromWorker` are the two pipes, which live as long as the process; `window` is
what the output section holds. A batch is its index. Every read of the host is
an action of its own with the outcomes the code distinguishes; buffered bytes
win over the token and over the deadline, as in `ControlChannelWait.cpp`. A reply
may be refused before its batch is delivered, or after it, as a terminal reply is
whose counts do not agree (`ReadChunksReady`). The
absolute deadline is a flag that may be set at any moment; a shorter wait may
end at any moment. The worker's handler is that of glTF, which stands for the
others (STL and PLY have the same shape, and their ASCII variants clear the
detail flag first). A worker launched for one session only is not modelled: it
is never reused, and otherwise follows the same loop.

`ImportDelivery` knows neither pipes nor windows: a session takes what was
announced in order, only while it is open, and ends "complete" only when it has
taken everything. `ImplementsDelivery` is its specification under the mapping
`session <- gen, result <- outcome`.

### UploadPipeline

`inbox` is `UploadInbox` with its two budgets: `count` (the code's `count` and
`bytes` are charged and given back together, so one number stands for both) and
`gpuPending`. `task` is what the upload thread holds, `staged` and `scene` are
the render thread's `stagedScene_` and `path_.model`. A generation is a number;
`ipc`, `cancelled` and `produced` describe the import thread of each.

One step is one critical section of the inbox's mutex, or what a handler does
between two of them. `BeginOpen` takes two steps (`StartOpening`, `ArmImport`)
because `BeginImport` cancels the previous uploads before it arms the inbox.
`UploadMain` takes four (`TakeTask`, `Reserve`, `Copy`, `Publish`), each looking
at the generation again. `PumpUploads` is one step: it holds the mutex
throughout. `RecoverDevice` takes three: cancel and stop, join and reset,
rebuild. A device loss (`DeviceRemoved`) can happen between any two. It is found
by a present or an upload, or by a resize (`ResizeFindsLoss`), whose command
leaves the loop running until its next frame. An instance that cannot be drawn
spoils the whole import while the message about its part says that it went well
(`faulty` in `AcceptBatch`).

Left out: detail requests and their replay (`DetailStreaming` has them), coarse
proxies before the terminal marker, a render thread that fails to start,
`RequestClearModel` (the viewer does not call it), and the single batch a
cancelled import may still hand to the sink, which drops it. A rebuild that fails
inside a resize ends the loop at once in the model; in the code it runs on to its
next frame without a device, and later resizes only repeat the report. `Stop`'s
two critical sections and its stop flag are one step, and its bounded wait is
left out: the wait decides only whether the render thread is joined or detached.

Recovery has two limits that no property forbids, because the documents promise
only that the displayed model is rebuilt: an open under way when the device is
lost is replaced by the file that was on screen, or by a failure when there was
none; and after a recovery that failed, a later open finds neither upload nor
render thread, so that nothing answers it (`OpenIsAnswered` excuses a render
thread that has given up).

### UploadRing

`ring` is a `D3D12UploadRing` with its copy queue: buffer, cursor and charged
bytes; the open batch (`recorded`, `bytes`, `toPublish`); what is submitted and
not reclaimed (`pending`, `publications`); the buffers it has grown out of; and
`copies`, what the command lists hold, each with the fence it completes with (0
until it is submitted). `completed` is the copy fence. The upload thread takes
one model after another: `BeginUploadModel`, a `Request` for each copy, which is
`Upload` or `UploadTexture` up to the first attempt to find room, then the rest
of `EnsureSpace` in the steps in which it looks at the fence (`Reclaim`, `Grow`,
`StopGrowing`, `WaitForOldest`, `Backpressured`) and `Record`. A queued model is
polled until it is whole (`Poll`), or given up (`Fail`, `GiveUp`, `ClearModel`).
A D3D12 call can fail and a wait can time out wherever the code looks at the
result. All waits of the queue share one auto-reset event (`event`), and one that
has timed out leaves its registration with the fence: when the GPU gets there the
event is set, and the next wait returns `Signaled` without its own value being
reached (`Returns`). After that a batch may be opened, and the command allocator
reset, while the one before still executes. What D3D12 does then is undefined;
the model lets the earlier copies go on unchanged, so that the invariants say
what the ring itself guarantees. `ClearModel` does not look at the result of
`WaitForIdle`, and `DestinationOutlivesCopies` excuses what follows. A `Signal`
that fails, which means a removed device, is left out, and so are exceptions out
of `BeginUploadModel`. `UploadPipeline` takes the same thread from the other
side: its `Copy` stands for everything here between `BeginUploadModel` and
`idle`.

### DetailStreaming

A large scan is first shown through coarse proxies; once the terminal marker is
accepted, fine regions are streamed in for what the camera sees. The module is
that phase, for one generation. The render thread's loop is three actions in
turn: `UpdateBudget` (reclaim, shed textures, evict, report exhaustion),
`TakePublication` or `NoPublication`, and `RenderOneFrame`, which contains
`RequestVisibleDetail`. `frames` are the frames the GPU has not finished, each
with the fine meshes it draws; `retired` is `retiredModels`, each entry with the
number of pending frames its fence covers, so that `FinishFrame` counts it down.
`TakeRequest`, `DeliverRegion`, `EndReplay` and `FailReplay` are the broker's
replay loop in `ImportSession.cpp`, `TakeTask` to `Publish` the upload thread
between its critical sections. `ImportSession` has the same replay from the
inside, as messages and the output window; here the worker answers, or does not.

`base`, `pending`, `mandatory` and `target` are the four numbers of the inbox
the threads share: the census of the last render turn, the reservations of the
copy lane, what the task in progress reserves besides its fine mesh, and the
budget. `Census` is `AccountedAllocationBytes`: retired resources count until
they are released. The adapter's budget may change between any two steps.

A camera gives each region a weight, its projected size, and 0 to what it does
not see; `FirstOf` is the sort and the cut of `RequestVisibleDetail` after
`MaxCandidates` regions, 32 in the code. `CompleteIsBest` is about these
foremost regions and no others: a frame is reported complete although a region
behind the cut would fit (section 4). `ConstantBytes` is the constant buffer of a
fine mesh: held with it, but not part of what admission plans with, and for a
textured mesh not reserved either.

Abstracted: bytes are small numbers; the order in which `PlanEviction` takes
meshes is left open, which covers any; every region has a coarse parent, because
the broker accepts no scan without (`ImportSession.cpp:1624`). Left out: failures
to allocate material buffers in `PumpUploads`; what is created between the census
and `Reserve`, such as the buffers of a resized window; and device loss, which
`UploadPipeline` has.

### ThumbnailProvider

A provider object lives in an apartment of its own, and `pc` is where its thread
is in `GetThumbnail`. Shared are `reserved` (the ledger), `lock` (the SRW lock
around the CAD kernel) and `quarantined`. A reservation is a load (`Loads`) and a
compare-and-swap (`Swaps`, which fails when another request came between);
`held` is what the live tokens of an object stand for. Objects of the STEP
family take the lock for loading, for meshing and for closing the document;
those of the other families never do.

The point of the module is what a fault does to the rest. `StageFaults` is
contained inside the stage and `KernelFaults` below the guard of the lock: both
unwind normally, and so does `BitmapFaults`, in the copy into the Shell's bitmap;
each quarantines the process. `RenderFaults` and `CloseFaults` reach the boundary
of the COM method, and destructors on the way do not run under `/EHsc`: charges
stay, and after `CloseFaults` so does the lock. The stop point may pass at any
time, and a charge may be refused at every place the code asks for one.

Abstracted: one meshing pass of the kernel stands for one per definition; the
tokens that unwinding gives back are given back in one step; `BadFormat` stands
for every outcome about the file. Left out: class factories and the unload
counters, the contents of the block cache, diagnostics.

## 3. Runs

| run | instance | states | shows |
|---|---|---|---|
| `pool_lifecycle` | 3 import threads, 2 slots, faults, 2 failed launches | 245 thousand | types, `NoSlotLeak`, `NoLeaseOutlivesPool`, and `AcquireReturns` for the pool as long as a slot is left |
| `host_lifecycle` | 3 import threads, 1 slot, exit after use | 111 thousand | `ExclusiveLease`, `NoDirtyReuse`, `NoSpuriousLaunchFailure`, and that acquiring and shutting down end |
| `import_session` | 2 generations, 2 batches and a terminal one, 1 sidecar, 1 detail region, crash or hang | 340 thousand | `DeliveredAsAnnounced`, `StopsPromptly`, `ReuseIsQuiet`, `HandshakeNeverStalls`, `GenerationEnds`, `ImplementsDelivery` |
| `upload_pipeline` | 2 outside events, 2 batches per import, queue of 1 | 169 thousand | `BudgetsBalance`, `OnlyNewestIsShown`, `ReadyIsWhole`, `OpenIsAnswered`, `StopEnds` |
| `upload_ring` | ring of 4 that grows by 2 to 8, 2 models of 3 copies of 3, 8 or too much, alignment 2, 1 fault | 357 thousand | `CopiesAreDisjoint`, `SourceOutlivesCopies`, `DestinationOutlivesCopies`, `UsedBytesBalance`, `ModelIsCopied`, `QueuedModelArrives` |
| `detail_streaming` | 2 regions of cost 1 and 2, 1 candidate for a frame, budgets for none, some and all, 3 cameras, 2 frames on the GPU, 2 changes | 330 thousand | `DrawnOnce`, `DrawnOutlivesFrames`, `OneOutstanding`, `AdmissionFits`, `CompleteIsBest`, `TakenIsAnswered` |
| `thumbnail_requests` | 2 apartments, a STEP and another family, a limit that two requests do not fit, 3 and 2 calls | 465 thousand | `LedgerBalances`, `LaterRequestsRefused`, `CallsReturn` |

Five further runs look for one violation each: section 4.

Two properties of `host_lifecycle` say less than their names. A host that exits
after use is never replaced, so that `NoDirtyReuse` says there only that a host is
clean when it is taken; and a host has no `PrepareAsync`, so that
`ShutdownCompletes` is about joining the import threads, hardly about the
initializer.

Bounds. Three import threads are what a double lease needs: one that releases,
one that takes the worker in between, one that is given it again. Two slots are
the pool's real size, and with as many failed launches as slots the pool can lose
every worker. Two generations on one worker are enough for everything a session
can leave to the next, because nothing but the pipes outlives a session. Two
batches before the terminal one make the window be rewritten under a copy. In
`UploadPipeline` two outside events give open/open, open/cancel, open/loss and
loss/loss in any order, with closing at any point on top; `HandleRecovery` adds
opens of its own. A queue of one makes the import wait whenever a batch is under
way. `MaxGeneration` is `2 * (MaxEvents + 1)`, since every open and every cancel
takes a generation. Larger instances (two opens of two batches; two opens of one
batch with one loss) satisfy the same safety properties. In `UploadRing` copies
of 3 against a capacity of 8 leave a tail too short for a third, so that the ring
wraps; 8 is the largest copy it admits and needs two growths at once; 9 is
refused. Three copies with a batch of 7 give a model that goes through two
batches, and a second model meets what the first has left. One fault is enough
for an early return: the wait that times out, and the next one. In
`DetailStreaming` a budget of 6 admits either region beside the high mips but not
both; 4 admits the smaller one, which then holds more than was planned and makes
the high mips go, or the larger one once they have gone; 1 has not even room for
what is never evicted. So shedding, evicting, waiting for retired buffers and
exhaustion all occur. One region is untextured and reserves a byte more than it
is admitted for. With one candidate for a frame and two regions the cut leaves a
region out; the cameras see the smaller region first, the larger first, or only
the larger. Two changes give every pair of a camera move, a budget change and a
failure. Three requests let a region be evicted and asked for again before the
cap of the replay. In `ThumbnailProvider` a limit of 12 against 10 for a whole
request makes each charge be refused to one of two calls; an apartment with three
uses makes a second call on one object, which finds the backing of the first. Two
apartments are enough for the lock and the ledger: a third waits as the second
does.

Fairness. Only what the scheduling of the code justifies: an import thread, the
upload and the render thread keep running. The UI thread handles its messages
(it never waits without a bound); the sink of an import and the upload thread
poll every 20 ms, the render thread wakes at least every 100 ms (`kIdleWaitMs`),
and the device layer's waits have timeouts. Nothing is assumed of the user, of
the device or of a child: it may crash, hang or never answer. In
`DetailStreaming` the GPU finishes its frames, and a worker asked for a region
answers or runs into the reply timeout (`ImportSession` shows that it does);
nothing is assumed of the idle grace, of the camera or of the adapter. In
`ThumbnailProvider` the thread of a call runs on; the SRW lock is not fair, which
matters to nobody because only finitely many calls are before a waiting one.

`CHECK_DEADLOCK FALSE` is stated where the system really stops: a closed window,
a bounded number of opens used up, or a Shell that stops asking.

## 4. What the violations show

| run | property | what happens |
|---|---|---|
| `pool_double_lease` | `ExclusiveLease` | `TerminateAndReplace` publishes a worker that is not busy before `Release` takes the mutex. A second session leases it; `Release` then clears its flag; a third session gets the same worker. |
| `close_during_recovery` | `CloseEnds` | `RecoverDevice` clears the stop flag that `Stop` set meanwhile; the new upload thread never ends and the render thread joins it for ever. |
| `loss_counted_twice` | `OneLossIsRecovered` | The upload thread's request for a recovery survives the recovery that a present started for the same loss; the second answer gives the device up. |
| `detail_request_stuck` | `CompletesAgain` | The broker ends the replay after an idle grace or at its cap, and the render thread is not told. A region that comes into view later is queued for nobody, and every frame from then on is reported as pending. |
| `thumbnail_lock_left` | `CallsInFlightDrain` | A structured fault in `Close` reaches the boundary above `Reset`, whose guard is below it and is not unwound. The kernel lock stays taken, and a STEP request already in flight waits for it for ever. |

Each finding in `PROJECT.json` quotes the sentence of the documents, the comment
or the test that says otherwise.

Further behaviour of the code that the models contain and a reader should know;
no run is spent on it, and no property is stated that would forbid it:

- A pool whose replacements have all failed to launch keeps every slot busy and
  stays ready, so that `Acquire` waits until it is cancelled or the coordinator
  shuts down (`ImportSession.cpp:563-569`); the generation's deadline begins only
  at 899. `Exhausted` is the case, and `AcquireReturns` excludes it.
- Only the 32 foremost regions are considered for a frame
  (`RenderThread.cpp:1753`). When none of them fits, a smaller visible region
  behind them that does is not asked for, and the frame is reported complete; the
  comment at 1779-1782 speaks of the most complete one the view and the budget can
  produce. `CompleteIsBest` is stated for the foremost only.
- After a wait that timed out the shared event makes a later one return early
  (`D3D12CommandQueue.cpp:27`, `59-66`), and `BeginBatch` may reset the
  allocator of a batch that is still executing (`D3D12UploadRing.cpp:87`;
  `Returns`, `Record`).
- Bytes that a call has set aside are not given back when `BeginBatch` fails after
  it, unless the ring grows (`D3D12UploadRing.cpp:265`; `lost`, which
  `UsedBytesBalance` counts).
- A loss found by a resize after the one recovery does not end the loop before
  its next frame (`RenderThread.cpp:894`; `ResizeFindsLoss`).
- After a structured fault a request that has already passed the check of the
  quarantine runs on to its end; `LaterRequestsRefused` is about those that begin
  afterwards.
- After a failed first preparation the next one assigns to a `std::thread` that
  is still joinable, which calls `std::terminate` (`ImportSession.cpp:482`;
  `aborted` in `ProcessCoordinator`).
- A generation cancelled during its host's launch installs the host and takes no
  lease, so nothing ends the host before the next generation of its kind
  (`ImportSession.cpp:562`; `PrepareNowInstall`).
- The acknowledgement of a cancelled generation can stay in the pipe of a worker
  that is reused; the worker reads it as a request and exits
  (`ChunkBatchSink.cpp:31`; `AckRead`, `Dispatch`).
- The ring's cursor stays where it is when the ring runs empty, and a wrap charges
  the whole tail: a copy that fits the ring can be refused with nothing
  outstanding (`D3D12UploadRing.cpp:186`; `Fits`, `Padding`).
- A budget drop between admission and reservation leaves an admitted region
  without room for its fixed part; the upload throws `bad_alloc` and the model
  fails as a whole (`RenderThread.cpp:545-547`; `Reserve`).
- Admission counts a region's buffers, the reservation its neutral resources as
  well. A region between the two is asked for, decoded and refused, and again
  after half a second (`RenderThread.cpp:1735` against `499-522`;
  `RequestVisibleDetail`, `Reserve`).

## 5. Theorems

Every invariant and every action property of the passing runs is a theorem, for
all values of the constants that its module assumes, as is the refinement;
`ExclusiveLease` and `NoDirtyReuse` under one further condition, given below.
Liveness is not.

`ProcessCoordinatorProofs`, for every set of sessions, pool size and number of
failed launches:

- `TypeCorrect`: `Spec => []TypeOK`.
- `CoordinatorInvariant`: the inductive invariant. `LaunchInv`: at most one
  launch is under way, and only while there is no pool. `ShutdownInv`: the
  coordinator stops only after the import threads are joined. `LeaseInv`: a
  lease points at a slot of the present pool. `ExclusiveInv`: leased slots are
  busy, distinct, and clean until used. None is inductive alone: a lease stays
  in the present pool because nobody launches while there is one and nobody
  shuts down while there are sessions.
- `LeasesNeverDangle`: `NoLeaseOutlivesPool` with any faults.
- `LeasesAreExclusive`, `LeasesAreDrained`: `ExclusiveLease` and `NoDirtyReuse`
  under `NothingReplaced` (a host that exits after use, or a pool whose children
  always answer). The assumption is needed: `pool_double_lease` violates the
  property without it.
- `SlotsAreNotLeaked`: `Spec => []NoSlotLeak`. The property compares a number of
  busy slots with a counter, so the argument is one of cardinality: a step moves
  one slot into or out of the set `Leaked` of slots that are busy and in nobody's
  hands, and only a replacement that did not launch moves one in.
- `FailuresAreReal`: `Spec => []NoSpuriousLaunchFailure`, from `RouteInv`. Of two
  sessions that run, one is superseded (`OneLive`), so whoever takes a second turn
  at a host is the newest and nobody can take the host from it again
  (`HostRoute`); whoever waits for the pool waits for one that is there or on its
  way (`PoolRoute`).

`ImportSessionProofs` and `ImportDeliveryProofs`, for any
caps, any number of generations and any worker:

- `SessionsStopPromptly`: `Spec => []StopsPromptly`. The strengthening is
  `LateIsLast`: a batch accepted after the stop takes the import thread out of
  the places from which another could be accepted, or to the turn of the replay
  loop, which looks at the clock and the token first.
- `SessionTypes`: `Spec => []TypeOK`, from `Typed`, which adds that a
  request under way names a generation that has begun and that a serving worker
  was told of one.
- `ExchangeInvariant`: the invariant of the protocol, which only one side can
  move at a time. `InSync`: the worker serves the host's generation or has its
  `Start` still to read, perhaps behind the `EndDetail` it left unread.
  `OneTurn`: while the host takes batches at most one message is under way in
  either direction, and what is announced but not delivered is the one batch in
  the window. `AtRest`: a worker in the pool is at its request loop, or has
  `EndDetail` to read. Each needs the others: a reply is of this generation only
  because the last one left none behind, and that holds because the host ends
  one well only after its terminal message.
- `BatchesArriveAsAnnounced`, `ReusedWorkersAreQuiet`, `SessionsNeverStall`:
  `DeliveredAsAnnounced`, `ReuseIsQuiet` and `HandshakeNeverStalls` follow. TLC
  checked `Exchange` as an invariant before it was proved.
- `SessionsImplementDelivery`: `Spec => ImplementsDelivery`. What the exchange
  does not say is which results are open and who may still write (`Results`,
  `Serves`): a session given up leaves a worker that can go on writing, for its
  own generation only, until the lease's destructor kills it.

`UploadPipelineProofs`, for every bound and queue size:

- `NewestInvariant`: the inbox serves the newest open or nobody
  (`ServesNewest`), what is queued, held and published are tasks
  (`QueuesHoldTasks`), and the stage holds batches of the one generation it
  names (`StageIsOfOne`). `OnlyNewestIsShown` alone is not inductive: a staged
  batch of an older open would reach the screen with the next batch.
- `NewestIsShown`: `Spec => OnlyNewestIsShown`.
- `BudgetsAreBalanced`: `Spec => []BudgetsBalance`, from `BudgetInv`: nothing that
  is queued has a reservation yet (`Fresh`), a terminal marker never has one
  (`Settled`), an idle upload thread holds nothing. Each way out of the queue then
  gives back exactly what the item was charged.
- `ReadyModelsAreWhole`: `Spec => []ReadyIsWhole`, from `WholeInv`. The centre is
  `Flow`: of the generation served, and unless a failure is already known,
  what has arrived, is published, is held and is queued are batches 1 to n without
  a gap, the marker behind the last (`InLine`). `Ends` then carries a success from
  the render thread's report to the UI thread. `Freshness` (a generation is used
  once), `Served` (a stopped inbox is empty, the others hold items of one import)
  and `Reports` (who has reported has ended) keep it from being disturbed.
- `PipelineTypeCorrect`: `Spec => []TypeOK`. Its hard part is that the generations
  never run out: cancellation and recovery take some without the user. `Bounded`
  is an account of those used and still to be used, twice the user's requests and
  two for a recovery. It needs that a recovery is announced at most once
  (`RecoversOnce`), and that a late report of a part cannot make a model load
  again that has ended (`PartsFirst`, `Rested`).

`UploadRingProofs`, for every size, capacity, alignment and number of models:

- `LaneInvariant`: an unsubmitted copy reads the current buffer through the
  open batch; a submitted one is not complete and will be with the last fence,
  also when the next batch was opened too early;
  and every copy's buffer is the current one or retired behind a fence that
  covers it. The fences are what makes `SourceOutlivesCopies` inductive: growing
  moves every copy to a retired buffer, reclaiming drops buffers by fence alone.
- `SourceIsKept`: `Spec => []SourceOutlivesCopies`.
- `BatchesDoNotOverlap`: as long as no wait has timed out and no call has failed,
  the GPU has nothing of an earlier batch to execute while one is open. The
  condition is needed: `BeginBatch` waits, but behind a wait that timed out its
  own may return early. `BatchInv` adds that until then the event is neither set
  nor registered for any value. No other theorem of the module rests on it.
- `SpaceInvariant`: what is charged is the sum of what is pending, recorded, given
  to the present call and lost with failed batches (`Accounts`), and the copies of
  the open batch lie within the bytes charged behind the cursor, going round the
  buffer (`Placed`). `UsedBytesAreBalanced` and `StagedBytesAreKept`
  (`CopiesAreDisjoint`) follow: new space lies ahead of the cursor and outside
  what is charged.
- `PublicationInvariant`: a publication is behind a fence no earlier than those of
  the copies it stands for (`Destined`), and a copy of a model that is still
  uploading belongs to a cluster not yet ready (`InFlight`). `HandedModelsAreCopied`:
  `Spec => ModelIsCopied`.
- `OwnershipInvariant` and `DestinationsAreKept`: every copy's destination belongs
  to the model being uploaded or retired behind the copy's fence.
- `LaneTypes`: `Spec => []TypeOK`.

`DetailStreamingProofs`, for any scan, costs, cameras and budgets, and any
failures:

- `EveryRegionDrawnOnce`: `Spec => []DrawnOnce`, from `ParentsFollow`: the drawn
  parents are the regions without a fine mesh. Each way a fine mesh comes or goes
  recomputes them from the fine set.
- `OneRegionAtATime`: `Spec => []OneOutstanding`. The property needs only the
  shapes of the places a region passes (`Places`) to be inductive. The argument is
  `Exclusive`: with at most one region outstanding, the place that has it
  determines that all others are empty, so that each hand-over leaves one place
  for the next (`LaneStep`). What the inbox remembers is withdrawn only together
  with the queue, or with the publication that answers it.

- `StreamInvariant`: the shapes, `Scene` (a fine mesh that a pending frame draws
  is resident, or retired behind at least that frame: `FramesCovered`) and
  `Ledger` (the two counts of the inbox are what is allocated and what is held or
  published). The frame count an entry waits for goes down with every finished
  frame while the frames move up, so that the two stay comparable.
- `DrawnBuffersStay`, `AdmissionStaysWithinTarget`, `CompleteFramesAreBest` and
  `StreamingTypes`: `DrawnOutlivesFrames`, `AdmissionFits`, `CompleteIsBest` and
  `TypeOK` follow, the last with `Flags`. `CompleteFramesAreBest` holds for any
  `MaxCandidates` because it speaks of the foremost regions only; of all that are
  in view it would be false.

`ThumbnailProviderProofs`, for any number of apartments, kinds, charges and limits:

- `QuarantineHolds`: `Spec => []LaterRequestsRefused`, strengthened by where a
  call's tokens are (`TokensOfCalls`) and by the fact that a suspect request is
  one in a quarantined process (`Refusal`).
- `CeilingHolds`: `Spec => []WithinLimit`, the first conjunct of
  `LedgerBalances`: the compare-and-swap succeeds only with the value that was
  compared against the limit.
- `LedgerIsBalanced`: `Spec => []LedgerBalances`. A step changes what one object is
  charged for, so that the sum over all objects moves by that object's difference;
  the strengthening is that no part is charged where a token stands (`Fresh`).
- `ProviderTypes`: `Spec => []TypeOK`.

`FoldLemmas`: the library's folds are recursive functions over the subsets of a
finite set. That such a function exists and what it computes is shown by induction
over the subsets, stated as "there is no smallest counterexample": of the
subsets without the property, if there are any, one contains no other. The
library's induction rules would do the same, but take an operator as parameter,
which the installed provers do not instantiate. It follows that a sum takes its
elements in any order, is what a part and the rest give, and changes by what one
element changes; and for sequences what sums and counts do under `Append`,
concatenation and `Tail`.

The assumptions are those on the constants, named in the modules
(`CoordinatorAssumption`, `SessionAssumption`, `PipelineAssumption`,
`RingAssumption`, `StreamingAssumption`, `ProviderAssumption`), and evaluated by
TLC.

Only model-checked: the liveness properties `AcquireReturns` (a pool that has
lost every worker excepted), `ShutdownCompletes`,
`GenerationEnds`, `OpenIsAnswered`, `StopEnds`, `QueuedModelArrives`,
`TakenIsAnswered` and `CallsReturn` (fairness and `ENABLED` are beyond the
prover), and the five violations of section 4. No module has a `RECURSIVE`
operator: counts and sums are cardinalities or the library's folds.

## 6. Plan and what is not modelled

Next, in this order:

1. Proofs: the non-temporal half of the liveness arguments (which measure goes
   down with every step of a thread), beginning with `AcquireReturns` and
   `StopEnds`; the exact assumption under which `OneLossIsRecovered` would hold.
2. `UploadPipeline` composed with `ImportDelivery` as the environment of its sink.
3. The unload counters of the thumbnail module, next to `ThumbnailProvider`.

Not modelled:

- Decoders and format adapters, the compatibility hosts, and the parser and model
  core: most of the repository's lines. They are sequential functions from bytes
  to bytes behind a process boundary, largely calls into third-party libraries;
  what they do to the protocol (a number of batches, sidecar requests, a terminal
  reply, a crash) is in `ImportSession`.
- Drawing, user interface, settings: no concurrent state of their own.
- `DerivedCache`: at this commit only its unit tests open one. Two things to look
  at before the viewer does: eviction rescans for ever when the oldest file
  cannot be deleted (`DerivedCache.cpp:241`), and opening deletes temporary files
  that another viewer is about to rename (97).
- `UsdFallbackState`: one object of one thread, used at one call site; its
  transitions are enumerated by `UsdProtocolTests.cpp`.
- Update, shell integration, sandbox and section: calls of the operating system
  and checks of one buffer or path.
- The block cache of the thumbnail's stream source: a read that fails has
  overwritten a slot that stays valid under its old index
  (`StreamSource.cpp:211`); the bytes are not part of `ThumbnailProvider`.
