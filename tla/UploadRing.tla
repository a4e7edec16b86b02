----------------------------- MODULE UploadRing -----------------------------
(***************************************************************************)
(* The upload lane of the viewer: the staging ring with its copy queue     *)
(* (D3D12UploadRing.cpp) as the upload thread drives it for one model      *)
(* after another (D3D12ViewerPath.cpp), next to the GPU, which executes    *)
(* the submitted copies in order and completes their fences.               *)
(*                                                                         *)
(* A model is a sequence of copies: a buffer is one copy, a texture one    *)
(* aligned copy per mip, of which the last one publishes it.  The pieces   *)
(* of a call to Upload are separate steps wherever the code waits for a    *)
(* fence or reads how far the GPU is.  Models are told apart by the value  *)
(* of uploadGeneration they carry as their token, the destinations of one  *)
(* model by their cluster.                                                 *)
(***************************************************************************)
EXTENDS Naturals, FiniteSets, SequencesExt

CONSTANTS
    InitialCapacity, Growth, MaxCapacity, MaxBatchBytes,    \* CreateOptions
    Alignment,      \* D3D12_TEXTURE_DATA_PLACEMENT_ALIGNMENT
    Sizes,          \* the staging sizes of a copy
    MaxModels,      \* bound on the models uploaded
    MaxCopies,      \* bound on the copies of one model
    MaxFaults       \* bound on timed-out waits and failed D3D12 calls

ASSUME RingAssumption ==
    /\ {InitialCapacity, Growth, MaxCapacity, MaxBatchBytes, Alignment} \subseteq Nat \ {0}
    /\ InitialCapacity <= MaxCapacity
    /\ Sizes \subseteq Nat \ {0}
    /\ {MaxModels, MaxCopies, MaxFaults} \subseteq Nat

VARIABLES
    pc,             \* where the upload thread is
    ring,           \* D3D12UploadRing and its copy queue
    call,           \* the copy asked of the ring, and the space it was given
    completed,      \* the value of the copy fence
    event,          \* the one auto-reset event the waits for that fence share
    model,          \* the model being uploaded (pendingModel)
    retiredModels,  \* models given up, each behind a copy fence
    snapshot,       \* SceneSnapshot: cluster -> generation ready, or 0
    handed,         \* the last model handed to the render thread, or 0
    lost,           \* bytes charged to no allocation since the last growth
    undrained,      \* has ClearModel gone on without its copies completed?
    faults

vars == <<pc, ring, call, completed, event, model, retiredModels, snapshot, handed,
          lost, undrained, faults>>

Clusters == 1 .. MaxCopies

Init ==
    /\ pc = "idle"
    /\ ring = [buffer |-> 1, capacity |-> InitialCapacity, offset |-> 0, used |-> 0,
               open |-> FALSE, recorded |-> <<>>, bytes |-> 0, toPublish |-> <<>>,
               pending |-> <<>>, publications |-> <<>>, retired |-> {},
               last |-> 0, signalled |-> 0, copies |-> {}]
    /\ call = [size |-> 0, align |-> 1, publish |-> FALSE, at |-> 0, occupied |-> 0]
    /\ completed = 0
    /\ event = [set |-> FALSE, armed |-> {}]
    /\ model = [number |-> 0, token |-> 0, generation |-> 1, queued |-> 0, copies |-> 0,
                partial |-> FALSE]
    /\ retiredModels = {}
    /\ snapshot = [c \in Clusters |-> 0]
    /\ handed = 0 /\ lost = 0 /\ undrained = FALSE /\ faults = 0

Done(entry) == entry.fence <= completed
NotDone(entry) == ~Done(entry)

\* What has completed is taken off the front of a queue, up to the first entry
\* that has not.
CompletedCount(queue) ==
    LET first == SelectInSeq(queue, NotDone)
    IN  IF first = 0 THEN Len(queue) ELSE first - 1
Completed(queue) == SubSeq(queue, 1, CompletedCount(queue))
Waiting(queue) == SubSeq(queue, CompletedCount(queue) + 1, Len(queue))

-----------------------------------------------------------------------------
(* Space in the ring.                                                       *)

Aligned(offset, align) == ((offset + align - 1) \div align) * align

FitsTail(r, c) == Aligned(r.offset, c.align) + c.size <= r.capacity

Start(r, c) == IF FitsTail(r, c) THEN Aligned(r.offset, c.align) ELSE 0

\* Seeded bug: the tail skipped by a wrap is not charged.
PaddingOfAlignment(r, c) ==
    IF FitsTail(r, c) THEN Aligned(r.offset, c.align) - r.offset ELSE 0
\* What the allocation skips: up to the aligned offset, or the whole tail.
Padding(r, c) ==
    (IF FitsTail(r, c) THEN Aligned(r.offset, c.align) ELSE r.capacity) - r.offset

Fits(r, c) ==
    /\ c.size <= r.capacity
    /\ c.size + Padding(r, c) <= r.capacity - r.used

\* Seeded bug: the cursor does not come round at the end of the buffer.
CursorBehind(r, c) == Start(r, c) + c.size
CursorAfter(r, c) == (Start(r, c) + c.size) % r.capacity

\* TryAllocateInternal, for a copy that fits.
Allocated(r, c) ==
    [r EXCEPT !.offset = CursorAfter(r, c), !.used = @ + c.size + Padding(r, c)]

\* One call of TryAllocateInternal; "otherwise" is where EnsureSpace goes on.
Allocate(r, c, otherwise) ==
    \/ /\ Fits(r, c)
       /\ ring' = Allocated(r, c)
       /\ call' = [c EXCEPT !.at = Start(r, c), !.occupied = c.size + Padding(r, c)]
       /\ pc' = "begin"
    \/ /\ ~Fits(r, c)
       /\ ring' = r /\ call' = c /\ pc' = otherwise

-----------------------------------------------------------------------------
(* Batches and fences.                                                      *)

Stamped(entries, fence) == [i \in DOMAIN entries |-> [entries[i] EXCEPT !.fence = fence]]

\* ExecuteCommandLists and SignalNext, for the batch that is open.
Submitted(r) ==
    LET fence == r.signalled + 1 IN
    [r EXCEPT
        !.pending = @ \o Stamped(r.recorded, fence),
        !.publications = @ \o Stamped(r.toPublish, fence),
        !.recorded = <<>>, !.toPublish = <<>>, !.bytes = 0,
        !.last = fence, !.signalled = fence,
        !.copies = {[c EXCEPT !.fence = IF @ = 0 THEN fence ELSE @] : c \in @}]

Flushed(r) ==
    IF r.open /\ r.recorded # <<>> THEN [Submitted(r) EXCEPT !.open = FALSE]
                                   ELSE [r EXCEPT !.open = FALSE]

\* EnsureSpace and Grow submit a batch that has bytes.
BatchSubmitted(r) == IF r.open /\ r.bytes > 0 THEN Flushed(r) ELSE r

\* Seeded bug: growing leaves the open batch on the old buffer.
OpenBatchKept(r) == r
\* Grow submits first, so that the fence covers what reads the old buffer.
FlushedToGrow(r) == BatchSubmitted(r)

GrownCapacity(r) ==
    IF r.capacity + Growth < MaxCapacity THEN r.capacity + Growth ELSE MaxCapacity

\* Grow, when the new buffer could be created.
Grown(r) ==
    LET f == FlushedToGrow(r) IN
    [f EXCEPT
        !.retired = @ \cup {[buffer |-> f.buffer, fence |-> f.last]},
        !.pending = <<>>, !.buffer = @ + 1, !.capacity = GrownCapacity(f),
        !.offset = 0, !.used = 0]

Bytes(entries) == FoldSeq(LAMBDA e, n : e.occupied + n, 0, entries)

\* ReclaimCompleted
Reclaimed(r) ==
    [r EXCEPT
        !.used = @ - Bytes(Completed(r.pending)),
        !.pending = Waiting(@),
        !.retired = {b \in @ : b.fence > completed}]

\* Seeded bug: the batch remembers the size without the bytes skipped.
SizeOnly(c) == c.size
\* Wrap and alignment padding are part of the allocation.
Charge(c) == c.occupied

\* RecordAllocationAndPublication, after the copy itself.
Recorded(r, c) ==
    LET cluster == model.queued + 1
        r2 == [r EXCEPT
            !.open = TRUE,
            !.copies = @ \cup {[number |-> model.copies + 1, cluster |-> cluster,
                                generation |-> model.token, buffer |-> r.buffer,
                                at |-> c.at, size |-> c.size, fence |-> 0]},
            !.recorded = Append(@, [occupied |-> Charge(c), fence |-> 0]),
            !.toPublish = IF c.publish
                THEN Append(@, [cluster |-> cluster, generation |-> model.token, fence |-> 0])
                ELSE @,
            !.bytes = @ + c.size]
    IN  IF r2.bytes >= MaxBatchBytes THEN Flushed(r2) ELSE r2

-----------------------------------------------------------------------------
(* The end of a model that is not handed over.                              *)

\* Seeded bug: the model retires behind the batches already submitted only.
AsSubmitted(r) == r
\* RetireStagedResources submits the open batch before it reads the fence.
FlushedToRetire(r) == Flushed(r)

\* WaitForIdle signals behind everything submitted and waits for that value.
Signalled(r) == [r EXCEPT !.signalled = @ + 1]

\* BeginUploadModel returns false: the staged resources retire, then WaitForIdle.
Fail ==
    LET f == FlushedToRetire(ring) IN
    /\ retiredModels' = retiredModels \cup {[generation |-> model.token, fence |-> f.last]}
    /\ ring' = Signalled(Flushed(f))
    /\ pc' = "drain"

\* ReclaimRetired, for the models.
ReclaimModels == retiredModels' = {m \in retiredModels : m.fence > completed}

Fault == faults < MaxFaults /\ faults' = faults + 1

-----------------------------------------------------------------------------
(* D3D12CommandQueue::WaitForValue.  Its event also fires, and stays set,   *)
(* for a value whose own wait has timed out; the next wait that gets as far *)
(* as the event then returns Signaled without its value being reached.      *)

Armed(value) == event.armed \cup {value}

\* The wait returns Signaled: the value is reached, or the event is set.
Returns(value) ==
    \/ value <= completed /\ UNCHANGED event
    \/ value > completed /\ event.set /\ event' = [set |-> FALSE, armed |-> Armed(value)]

\* The wait times out, and leaves its registration behind; or there was none.
TimesOut(value) ==
    /\ value > completed /\ Fault
    /\ \/ ~event.set /\ event' = [event EXCEPT !.armed = Armed(value)]
       \/ UNCHANGED event

-----------------------------------------------------------------------------
(* Queueing a model.                                                        *)

BeginUploadModel ==
    /\ pc = "idle" /\ model.number < MaxModels
    /\ model' = [number |-> model.number + 1, token |-> model.generation + 1,
                 generation |-> model.generation + 1, queued |-> 0, copies |-> 0,
                 partial |-> FALSE]
    /\ pc' = "queue"
    /\ UNCHANGED <<ring, call, completed, event, retiredModels, snapshot, handed,
                   lost, undrained, faults>>

\* CreateAndQueueTexture publishes with the last level it records.
Publishes(last) == last

\* The next copy of the model: a buffer, or a mip of a texture, whose other
\* mips follow unless it is the last.
Request(size, align, last) ==
    /\ pc = "queue" /\ model.copies < MaxCopies
    /\ align = 1 => last /\ ~model.partial
    /\ last \/ model.copies + 1 < MaxCopies
    /\ model' = [model EXCEPT !.partial = ~last]
    /\ LET c == [size |-> size, align |-> align, publish |-> Publishes(last),
                 at |-> 0, occupied |-> 0] IN
       \/ /\ size <= MaxCapacity
          /\ Allocate(ring, c, "reclaim")
          /\ UNCHANGED retiredModels
       \/ /\ size > MaxCapacity
          /\ Fail /\ UNCHANGED call
    /\ UNCHANGED <<completed, event, snapshot, handed, lost, undrained, faults>>

\* EnsureSpace, second try: behind what is already complete.
Reclaim ==
    /\ pc = "reclaim"
    /\ Allocate(Reclaimed(ring), call, "grow")
    /\ UNCHANGED <<completed, event, model, retiredModels, snapshot, handed, lost, undrained, faults>>

\* EnsureSpace, third: a larger buffer.
Grow ==
    /\ pc = "grow" /\ ring.capacity < MaxCapacity
    /\ Allocate(Grown(ring), call, "grow")
    /\ lost' = 0
    /\ UNCHANGED <<completed, event, model, retiredModels, snapshot, handed, undrained, faults>>

\* At the cap, or when no larger buffer could be created: submit and wait.
StopGrowing ==
    /\ pc = "grow"
    /\ \/ ring.capacity = MaxCapacity /\ UNCHANGED faults
       \/ ring.capacity < MaxCapacity /\ Fault
    /\ ring' = BatchSubmitted(ring)
    /\ pc' = "wait"
    /\ UNCHANGED <<call, completed, event, model, retiredModels, snapshot, handed, lost, undrained>>

\* EnsureSpace, last: behind the wait for the oldest allocation, what is complete
\* is reclaimed and tried.
WaitForOldest ==
    /\ pc = "wait" /\ ring.pending # <<>> /\ Returns(Head(ring.pending).fence)
    /\ Allocate(Reclaimed(ring), call, "wait")
    /\ UNCHANGED <<completed, model, retiredModels, snapshot, handed, lost, undrained, faults>>

\* Upload returns Backpressured: the wait timed out, or nothing is left to wait for.
Backpressured ==
    /\ pc = "wait"
    /\ \/ ring.pending = <<>> /\ UNCHANGED <<event, faults>>
       \/ ring.pending # <<>> /\ TimesOut(Head(ring.pending).fence)
    /\ Fail
    /\ UNCHANGED <<call, completed, model, snapshot, handed, lost, undrained>>

\* BeginBatch, unless a batch is open: behind the wait for the batch before, the
\* one command allocator is reset.  Then the copy is staged and recorded.
Record ==
    /\ pc = "begin"
    /\ \/ ring.open /\ UNCHANGED event
       \/ ~ring.open /\ Returns(ring.last)
    /\ ring' = Recorded(ring, call)
    /\ model' = [model EXCEPT !.copies = @ + 1,
                              !.queued = IF model.partial THEN @ ELSE @ + 1]
    /\ pc' = "queue"
    /\ UNCHANGED <<call, completed, retiredModels, snapshot, handed, lost, undrained, faults>>

\* BeginBatch times out or cannot reset: the space stays charged to nobody.
BeginBatchFails ==
    /\ pc = "begin" /\ ~ring.open
    /\ \/ TimesOut(ring.last)
       \/ Returns(ring.last) /\ Fault
    /\ Fail
    /\ lost' = lost + call.occupied
    /\ UNCHANGED <<call, completed, model, snapshot, handed, undrained>>

\* The upload is cancelled before a mip, or the rest of the model is refused.
Cancel ==
    /\ pc = "queue"
    /\ Fail
    /\ UNCHANGED <<call, completed, event, model, snapshot, handed, lost, undrained, faults>>

\* Seeded bug: BeginUploadModel returns with its last batch open.
LastBatchOpen(r) == r
\* It submits whatever is still under the threshold.
FlushedAtEnd(r) == Flushed(r)

FinishQueueing ==
    /\ pc = "queue" /\ ~model.partial
    /\ ring' = FlushedAtEnd(ring)
    /\ pc' = "poll"
    /\ UNCHANGED <<call, completed, event, model, retiredModels, snapshot, handed, lost, undrained, faults>>

-----------------------------------------------------------------------------
(* Publication.                                                             *)

\* DrainCompletedPublications drops what carries an older generation.
Promoted ==
    {p.cluster : p \in {q \in Range(Completed(ring.publications)) :
                            q.generation = model.generation}}

\* Seeded bug: one cluster short of the model is enough.
AlmostAll(ready) == ready + 1 >= model.queued
\* PollUploads: every resource of this generation is ready.
AllReady(ready) == ready >= model.queued

\* PollUploads and the ReclaimRetired behind it.
Poll ==
    /\ pc = "poll"
    /\ snapshot' = [c \in Clusters |->
                       IF c \in Promoted THEN model.generation ELSE snapshot[c]]
    /\ LET whole == AllReady(Cardinality({c \in Clusters : snapshot'[c] = model.token})) IN
       /\ handed' = IF whole THEN model.token ELSE handed
       /\ pc' = IF whole THEN "idle" ELSE "poll"
    /\ ring' = Reclaimed([ring EXCEPT !.publications = Waiting(@)])
    /\ ReclaimModels
    /\ UNCHANGED <<call, completed, event, model, lost, undrained, faults>>

\* The load is cancelled, or its five seconds are over: ClearModel, WaitForIdle.
GiveUp ==
    /\ pc = "poll"
    /\ ring' = Signalled(Flushed(ring))
    /\ pc' = "clear"
    /\ UNCHANGED <<call, completed, event, model, retiredModels, snapshot, handed, lost, undrained, faults>>

\* WaitForIdle returns; the result of its wait is not looked at.
Idled ==
    \/ Returns(ring.signalled) /\ UNCHANGED faults
    \/ TimesOut(ring.signalled)

\* ClearModel, behind WaitForIdle: everything is released outright.
ClearModel ==
    /\ pc = "clear" /\ Idled
    /\ model' = [model EXCEPT !.generation = @ + 1]
    /\ retiredModels' = {}
    /\ undrained' = (undrained \/ completed < ring.signalled)
    /\ ring' = Reclaimed(ring)
    /\ pc' = "idle"
    /\ UNCHANGED <<call, completed, snapshot, handed, lost>>

\* After a failed model, behind WaitForIdle: ReclaimRetired.
Drained ==
    /\ pc = "drain" /\ Idled
    /\ ring' = Reclaimed(ring)
    /\ ReclaimModels
    /\ pc' = "idle"
    /\ UNCHANGED <<call, completed, model, snapshot, handed, lost, undrained>>

-----------------------------------------------------------------------------
(* The GPU finishes what was submitted before the next signal.              *)
GpuCompletes ==
    /\ completed < ring.signalled
    /\ completed' = completed + 1
    /\ event' = IF completed' \in event.armed
                   THEN [set |-> TRUE, armed |-> event.armed \ {completed'}]
                   ELSE event
    /\ ring' = [ring EXCEPT !.copies = {c \in @ : c.fence # completed + 1}]
    /\ UNCHANGED <<pc, call, model, retiredModels, snapshot, handed, lost, undrained, faults>>

\* The upload thread has no more models.
Finished ==
    /\ pc = "idle" /\ model.number = MaxModels /\ completed = ring.signalled
    /\ UNCHANGED vars

Upload == Reclaim \/ Grow \/ StopGrowing \/ WaitForOldest \/ Backpressured
          \/ Record \/ BeginBatchFails

Next ==
    \/ BeginUploadModel
    \/ \E size \in Sizes, align \in {1, Alignment}, last \in BOOLEAN :
          Request(size, align, last)
    \/ Upload
    \/ Cancel \/ FinishQueueing
    \/ Poll \/ GiveUp \/ ClearModel \/ Drained
    \/ GpuCompletes
    \/ Finished

\* The GPU goes on, and so does the thread; nothing obliges a caller to cancel
\* or the five seconds to pass.
Fairness ==
    /\ WF_vars(GpuCompletes)
    /\ WF_vars(Upload) /\ WF_vars(FinishQueueing)
    /\ WF_vars(Poll) /\ WF_vars(ClearModel) /\ WF_vars(Drained)

Spec == Init /\ [][Next]_vars /\ Fairness

-----------------------------------------------------------------------------
(* Properties.                                                              *)

\* The shape of the state.  Writing at the cursor never leaves the buffer, and
\* no more is charged than the buffer holds (TryAllocateInternal).
TypeOK ==
    /\ pc \in {"idle", "queue", "reclaim", "grow", "wait", "begin", "poll", "clear", "drain"}
    /\ ring.capacity \in InitialCapacity .. MaxCapacity
    /\ ring.offset \in 0 .. ring.capacity - 1
    /\ ring.used \in 0 .. ring.capacity
    /\ ring.last \in 0 .. ring.signalled
    /\ completed \in 0 .. ring.signalled
    /\ handed \in 0 .. model.token
    /\ snapshot \in [Clusters -> 0 .. model.generation]
    /\ event \in [set : BOOLEAN, armed : SUBSET Nat]
    /\ lost \in Nat /\ faults \in 0 .. MaxFaults /\ undrained \in BOOLEAN

Apart(c, d) == c.at + c.size <= d.at \/ d.at + d.size <= c.at

\* Staging bytes are not overwritten before the GPU has copied them: whatever
\* the wraps, alignments and reclaims, two copies that the GPU has not finished
\* never read a byte of one buffer in common, and none reads past its end
\* (TryAllocateInternal, ReclaimCompleted, BeginBatch).
CopiesAreDisjoint ==
    \A c \in ring.copies :
        /\ c.buffer = ring.buffer => c.at + c.size <= ring.capacity
        /\ \A d \in ring.copies \ {c} : c.buffer = d.buffer => Apart(c, d)

\* A buffer the ring has grown out of is kept while a copy reads it (Grow,
\* ReclaimCompleted).
SourceOutlivesCopies ==
    \A c \in ring.copies :
        c.buffer = ring.buffer \/ \E b \in ring.retired : b.buffer = c.buffer

\* The models whose destination resources exist.
Alive ==
    {m.generation : m \in retiredModels} \cup {handed}
        \cup (IF pc = "idle" THEN {} ELSE {model.token})

\* The destinations of a model that failed or was cancelled are kept while a
\* copy writes them (RetireStagedResources, ReclaimRetired), unless ClearModel
\* went on although WaitForIdle timed out.
DestinationOutlivesCopies ==
    \/ undrained
    \/ \A c \in ring.copies : c.generation \in Alive

\* What is charged is what the allocations occupy, submitted or not, and the
\* one being made, apart from what failed batches have lost: reclaiming
\* neither frees a byte twice nor forgets one (RingAllocation::occupiedBytes).
UsedBytesBalance ==
    ring.used = Bytes(ring.pending) + Bytes(ring.recorded) + lost
                    + (IF pc = "begin" THEN call.occupied ELSE 0)

\* A model is handed to the render thread only when the GPU has finished every
\* copy recorded for it (PollUploads).
ModelIsCopied ==
    [][handed' # handed => \A c \in ring.copies : c.generation # handed']_vars

\* Once queued, a model becomes ready or is given up: the copies of its last
\* batch are submitted and none of its publications is dropped (PollUploads).
QueuedModelArrives == pc = "poll" ~> pc # "poll"
=============================================================================
