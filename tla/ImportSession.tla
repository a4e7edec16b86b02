--------------------------- MODULE ImportSession ---------------------------
(***************************************************************************)
(* Generations served one after the other by one pooled import worker: the *)
(* reply loop of RunImportSessionForProducer (ImportSession.cpp) against   *)
(* the worker's request loop (WorkerRequestDispatch.cpp), its batch sink   *)
(* (ChunkBatchSink) and the handler of a real-file import (GltfImport-     *)
(* Worker.cpp).  They share two FIFO pipes, which live as long as the      *)
(* process, and per generation an output window and a cancellation event.  *)
(*                                                                         *)
(* A batch is its index; what the window holds is the index the worker     *)
(* last wrote there.  Time is a flag for the absolute generation deadline; *)
(* a shorter wait (a reply, the cancellation grace) may end at any moment. *)
(***************************************************************************)
EXTENDS Naturals, Sequences, SequencesExt

CONSTANTS
    MaxGenerations,     \* bound on the generations of one behaviour
    MaxWorkerBatches,   \* bound on the non-terminal batches of one import
    BatchCap,           \* maxChunkBatchesPerGeneration
    SidecarCap,         \* maxSidecarRequestsPerGeneration
    DetailCap,          \* maxDetailRequestsPerGeneration
    WorkerFaults        \* may the worker crash or hang?

ASSUME SessionAssumption ==
    /\ {MaxGenerations, MaxWorkerBatches, BatchCap, SidecarCap, DetailCap}
           \subseteq Nat
    /\ WorkerFaults \in BOOLEAN

VARIABLES
    gen,             \* generationId of the current session, 0 before the first
    hpc,             \* where the import thread is
    cancelRequested, \* request.isCancelled()
    cancelEvent,     \* the event the worker watches
    detailService,   \* request.nextDetail is set
    deadlinePassed,  \* steady_clock::now() >= generationDeadline
    sidecars,        \* sidecarRequestCount
    details,         \* result.detailRequestCount
    reusable,        \* pooledLease->reusable
    wpc,             \* where the worker is
    wgen,            \* its generationId_
    wbatch,          \* its batchesPublished_
    wdetail,         \* its DetailService()
    toWorker,        \* the control input pipe
    fromWorker,      \* the control output pipe
    window,          \* what the current session's output section holds
    delivered,       \* per generation, the contents given to onBatch
    announced,       \* per generation, the contents the worker announced
    lateBatches,     \* onBatch calls since the token fired or time was up
    outcome          \* per generation, the result of RunImportSession

hostVars == <<gen, hpc, cancelRequested, cancelEvent, detailService,
              deadlinePassed, sidecars, details, reusable>>
workerVars == <<wpc, wgen, wbatch, wdetail>>
dataVars == <<window, delivered, announced, lateBatches, outcome>>
vars == <<hostVars, workerVars, toWorker, fromWorker, dataVars>>

Generations == 1..MaxGenerations
NoBatch == MaxWorkerBatches + 1
Detail == MaxWorkerBatches + 2      \* a replayed region instead of a batch
Contents == 0..Detail

Message(op, g, arg) == [op |-> op, gen |-> g, arg |-> arg]

Init ==
    /\ gen = 0 /\ hpc = "idle"
    /\ cancelRequested = FALSE /\ cancelEvent = FALSE
    /\ detailService = FALSE /\ deadlinePassed = FALSE
    /\ sidecars = 0 /\ details = 0 /\ reusable = FALSE
    /\ wpc = "dispatch" /\ wgen = 0 /\ wbatch = 0 /\ wdetail = FALSE
    /\ toWorker = <<>> /\ fromWorker = <<>>
    /\ window = NoBatch
    /\ delivered = [g \in Generations |-> <<>>]
    /\ announced = [g \in Generations |-> <<>>]
    /\ lateBatches = 0
    /\ outcome = [g \in Generations |-> "open"]

-----------------------------------------------------------------------------
(* The host: one session at a time on this worker.                          *)

\* RunImportSession returns; the lease destructor follows.
End(how, reuse) ==
    /\ hpc' = "release"
    /\ outcome' = [outcome EXCEPT ![gen] = how]
    /\ reusable' = reuse

\* A write fails once the worker's end of the pipe is gone.
WriteFails == wpc = "exited"
Send(m) == toWorker' = Append(toWorker, m)

\* New window, event and deadline; then the Start request.
StartSession ==
    /\ hpc = "idle" /\ gen < MaxGenerations
    /\ gen' = gen + 1
    /\ cancelRequested' = FALSE /\ cancelEvent' = FALSE
    /\ deadlinePassed' = FALSE
    /\ detailService' \in BOOLEAN
    /\ sidecars' = 0 /\ details' = 0 /\ reusable' = FALSE
    /\ window' = NoBatch /\ lateBatches' = 0
    /\ IF WriteFails
       THEN /\ hpc' = "release"
            /\ outcome' = [outcome EXCEPT ![gen'] = "crashed"]
            /\ UNCHANGED toWorker
       ELSE /\ hpc' = "read"
            /\ Send(Message("Start", gen', detailService'))
            /\ UNCHANGED outcome
    /\ UNCHANGED <<workerVars, fromWorker, delivered, announced>>

\* Seeded bug: the probe after onBatch is missing.
ProbeIgnored == FALSE
\* cancelProbe: a fired token also sets the worker's event.
Probe == cancelRequested

\* ValidateAndCopySection and onBatch, for the content the window holds now.
Deliver ==
    /\ delivered' = [delivered EXCEPT ![gen] = Append(@, window)]
    /\ lateBatches' = IF cancelRequested \/ deadlinePassed
                      THEN lateBatches + 1 ELSE lateBatches

\* A message is taken from the pipe whatever else holds: buffered bytes win
\* over the token and over the deadline.
Receive(where, m) ==
    /\ hpc = where
    /\ fromWorker # <<>>
    /\ m = Head(fromWorker)
    /\ fromWorker' = Tail(fromWorker)

\* acceptBatch must refuse at the batch cap; it may refuse any batch, for a
\* section that does not validate or a limit of its contents.
MustReject == Len(delivered[gen]) >= BatchCap

\* The claim of a notice, checked before the window is looked at.
InOrder(m) == m.gen = gen /\ m.arg = Len(delivered[gen])

ReadBatchReady ==
    \E g \in Generations, i \in Contents : LET m == Message("BatchReady", g, i) IN
        /\ Receive("read", m)
        /\ \/ /\ deadlinePassed
              /\ End("deadline", FALSE)
              /\ UNCHANGED <<cancelEvent, delivered, lateBatches>>
           \/ /\ ~deadlinePassed
              /\ End("rejected", FALSE)
              /\ UNCHANGED <<cancelEvent, delivered, lateBatches>>
           \/ /\ ~deadlinePassed
              /\ InOrder(m) /\ ~MustReject
              /\ Deliver
              /\ cancelEvent' = (cancelEvent \/ Probe)
              /\ hpc' = IF Probe THEN "grace" ELSE "ack"
              /\ UNCHANGED <<outcome, reusable>>
        /\ UNCHANGED <<gen, cancelRequested, detailService, deadlinePassed,
                       sidecars, details, workerVars, toWorker, window,
                       announced>>

\* ChunkBatchConsumed: only now may the worker touch the window again.
WriteAck ==
    /\ hpc = "ack"
    /\ IF WriteFails
       THEN End("crashed", FALSE) /\ UNCHANGED toWorker
       ELSE /\ Send(Message("Consumed", gen, Len(delivered[gen]) - 1))
            /\ hpc' = "read"
            /\ UNCHANGED <<outcome, reusable>>
    /\ UNCHANGED <<gen, cancelRequested, cancelEvent, detailService,
                   deadlinePassed, sidecars, details, workerVars, fromWorker,
                   window, delivered, announced, lateBatches>>

\* Seeded bug: a sidecar that is unavailable gets no answer.
UnavailableUnanswered == {TRUE, FALSE}
\* Found or unavailable, a serviced request is answered.
SidecarUnanswered == {FALSE}

\* Seeded bug: one request too many is counted before the cap bites.
SidecarsOverCap == sidecars > SidecarCap
SidecarsAtCap == sidecars >= SidecarCap

ReadSidecarRequest ==
    \E g \in Generations : LET m == Message("RequestSidecar", g, 0) IN
        /\ Receive("read", m)
        /\ IF deadlinePassed
           THEN End("deadline", FALSE) /\ UNCHANGED <<sidecars, toWorker>>
           ELSE IF g # gen \/ SidecarsAtCap
           THEN End("rejected", FALSE) /\ UNCHANGED <<sidecars, toWorker>>
           ELSE /\ sidecars' = sidecars + 1
                /\ IF WriteFails
                   THEN End("crashed", FALSE) /\ UNCHANGED toWorker
                   ELSE /\ \E lost \in SidecarUnanswered :
                              IF lost THEN UNCHANGED toWorker
                                      ELSE Send(Message("Sidecar", gen, 0))
                        /\ UNCHANGED <<hpc, outcome, reusable>>
        /\ UNCHANGED <<gen, cancelRequested, cancelEvent, detailService,
                       deadlinePassed, details, workerVars, window, delivered,
                       announced, lateBatches>>

\* The terminal batch is accepted by the same rules. A token that fired by
\* then ends the session without waiting for the worker. Otherwise the whole
\* import is checked, the source file too, and with it done the import is
\* complete or the detail replay begins.
ReadChunksReady ==
    \E g \in Generations, i \in Contents : LET m == Message("ChunksReady", g, i) IN
        /\ Receive("read", m)
        /\ \/ /\ End("rejected", FALSE)
              /\ UNCHANGED <<cancelEvent, delivered, lateBatches>>
           \/ /\ g = gen /\ ~MustReject
              /\ Deliver
              /\ cancelEvent' = (cancelEvent \/ Probe)
              /\ IF Probe THEN End("cancelled", FALSE)
                 ELSE \/ End("rejected", FALSE)
                      \/ IF detailService
                         THEN hpc' = "detail" /\ UNCHANGED <<outcome, reusable>>
                         ELSE End("complete", TRUE)
        /\ UNCHANGED <<gen, cancelRequested, detailService, deadlinePassed,
                       sidecars, details, workerVars, toWorker, window,
                       announced>>

\* A typed error means the worker is back at its request loop.
ReadGenerationError ==
    \E g \in Generations, cancelled \in BOOLEAN :
        /\ Receive("read", Message("GenerationError", g, cancelled))
        /\ IF g # gen THEN End("rejected", FALSE)
           ELSE End(IF cancelled THEN "cancelled" ELSE "workerError", TRUE)
        /\ UNCHANGED <<gen, cancelRequested, cancelEvent, detailService,
                       deadlinePassed, sidecars, details, workerVars,
                       toWorker, window, delivered, announced, lateBatches>>

\* Seeded bug: a read that waits as long as the worker lives.
WaitsForever == FALSE
\* Every read has a timeout, the reply's or what is left of the deadline.
TimesOut == TRUE

\* Nothing is buffered: the worker is gone, the token fired, or time is up.
WaitEnds(where, graceful) ==
    /\ hpc = where
    /\ fromWorker = <<>>
    /\ \/ /\ wpc = "exited"
          /\ End("crashed", FALSE)
          /\ UNCHANGED cancelEvent
       \/ /\ wpc # "exited" /\ cancelRequested
          /\ cancelEvent' = TRUE
          /\ hpc' = graceful
          /\ UNCHANGED <<outcome, reusable>>
       \/ /\ wpc # "exited" /\ ~cancelRequested /\ TimesOut
          /\ End(IF deadlinePassed THEN "deadline" ELSE "timedOut", FALSE)
          /\ UNCHANGED cancelEvent
    /\ UNCHANGED <<gen, cancelRequested, detailService, deadlinePassed,
                   sidecars, details, workerVars, toWorker, fromWorker,
                   window, delivered, announced, lateBatches>>

\* Seeded bug: whatever arrives in the grace period is taken for the answer.
AnyAcknowledges(m) == m.gen = gen
\* The forward loop insists on this generation's Cancelled; the replay takes
\* any typed error.
Acknowledges(m) ==
    /\ m.op = "GenerationError"
    /\ hpc = "grace" => m.gen = gen /\ m.arg

\* The 500 ms grace: one message, or the end of the wait.
GraceEnds ==
    /\ hpc \in {"grace", "detailGrace"}
    /\ IF fromWorker = <<>>
       THEN End("cancelled", FALSE) /\ UNCHANGED fromWorker
       ELSE /\ End("cancelled", Acknowledges(Head(fromWorker)))
            /\ fromWorker' = Tail(fromWorker)
    /\ UNCHANGED <<gen, cancelRequested, cancelEvent, detailService,
                   deadlinePassed, sidecars, details, workerVars, toWorker,
                   window, delivered, announced, lateBatches>>

\* Seeded bug: the next region is asked for before this one arrived.
RequestWithoutWaiting == "detail"
\* A single outstanding request owns the window.
AfterRequest == "detailRead"

\* One turn of the replay loop: a visible region to request, or the end of it
\* by the request cap or the caller's idleness.
DetailTurn ==
    /\ hpc = "detail"
    /\ IF deadlinePassed
       THEN End("deadline", FALSE) /\ UNCHANGED <<cancelEvent, details, toWorker>>
       ELSE IF Probe
       THEN /\ cancelEvent' = TRUE
            /\ hpc' = "detailGrace"
            /\ UNCHANGED <<outcome, reusable, details, toWorker>>
       ELSE IF wpc = "exited"
       THEN End("crashed", FALSE) /\ UNCHANGED <<cancelEvent, details, toWorker>>
       ELSE \/ /\ details < DetailCap
               /\ details' = details + 1
               /\ Send(Message("RequestDetail", gen, 0))
               /\ hpc' = AfterRequest
               /\ UNCHANGED <<cancelEvent, outcome, reusable>>
            \/ /\ Send(Message("EndDetail", gen, 0))
               /\ End("complete", TRUE)
               /\ UNCHANGED <<cancelEvent, details>>
    /\ UNCHANGED <<gen, cancelRequested, detailService, deadlinePassed,
                   sidecars, workerVars, fromWorker, window, delivered,
                   announced, lateBatches>>

ReadDetailReply ==
    /\ hpc = "detailRead" /\ fromWorker # <<>>
    /\ fromWorker' = Tail(fromWorker)
    /\ LET m == Head(fromWorker) IN
        \/ /\ m.op = "ChunksReady" /\ m.gen = gen
           /\ Deliver
           /\ hpc' = "detail"
           /\ UNCHANGED <<outcome, reusable>>
        \/ /\ End(IF m.op = "GenerationError" /\ m.gen = gen
                  THEN "workerError" ELSE "rejected", FALSE)
           /\ UNCHANGED <<delivered, lateBatches>>
    /\ UNCHANGED <<gen, cancelRequested, cancelEvent, detailService,
                   deadlinePassed, sidecars, details, workerVars, toWorker,
                   window, announced>>

\* The lease destructor: an unusable worker is killed and replaced, and with
\* it go its pipes.
ReleaseLease ==
    /\ hpc = "release"
    /\ hpc' = "idle"
    /\ IF reusable THEN UNCHANGED <<workerVars, toWorker, fromWorker>>
       ELSE /\ wpc' = "dispatch" /\ wgen' = 0 /\ wbatch' = 0 /\ wdetail' = FALSE
            /\ toWorker' = <<>> /\ fromWorker' = <<>>
    /\ UNCHANGED <<gen, cancelRequested, cancelEvent, detailService,
                   deadlinePassed, sidecars, details, reusable, dataVars>>

\* The user, a newer open, or the clock.
CancelRequest ==
    /\ hpc \notin {"idle", "release"} /\ ~cancelRequested
    /\ cancelRequested' = TRUE
    /\ UNCHANGED <<gen, hpc, cancelEvent, detailService, deadlinePassed,
                   sidecars, details, reusable, workerVars, toWorker,
                   fromWorker, dataVars>>

DeadlinePasses ==
    /\ hpc \notin {"idle", "release"} /\ ~deadlinePassed
    /\ deadlinePassed' = TRUE
    /\ UNCHANGED <<gen, hpc, cancelRequested, cancelEvent, detailService,
                   sidecars, details, reusable, workerVars, toWorker,
                   fromWorker, dataVars>>

-----------------------------------------------------------------------------
(* The worker.                                                              *)

WorkerSees == wgen = gen /\ cancelEvent
Reply(m) == fromWorker' = Append(fromWorker, m)
Report(cancelled) ==
    /\ Reply(Message("GenerationError", wgen, cancelled))
    /\ wpc' = "dispatch"

\* A request is read at the top of the loop; anything else ends the process.
Dispatch ==
    /\ wpc = "dispatch" /\ toWorker # <<>>
    /\ toWorker' = Tail(toWorker)
    /\ LET m == Head(toWorker) IN
        IF m.op = "Start"
        THEN wpc' = "work" /\ wgen' = m.gen /\ wbatch' = 0 /\ wdetail' = m.arg
        ELSE wpc' = "exited" /\ UNCHANGED <<wgen, wbatch, wdetail>>
    /\ UNCHANGED <<hostVars, fromWorker, dataVars>>

Write(content) ==
    /\ window' = IF wgen = gen THEN content ELSE window
    /\ announced' = [announced EXCEPT ![wgen] = Append(@, content)]

\* Seeded bug: the next batch is written without waiting for the host's copy.
PublishWithoutWaiting == "work"
AfterPublish == "awaitAck"

\* PublishBatch up to its wait for the acknowledgement.
PublishBatch ==
    /\ wpc = "work" /\ wbatch < MaxWorkerBatches
    /\ Write(wbatch)
    /\ Reply(Message("BatchReady", wgen, wbatch))
    /\ wpc' = AfterPublish
    /\ wbatch' = IF AfterPublish = "work" THEN wbatch + 1 ELSE wbatch
    /\ UNCHANGED <<wgen, wdetail, hostVars, toWorker, delivered, lateBatches,
                   outcome>>

\* The acknowledgement is read once the event was seen unset; anything but
\* the matching one abandons the generation.
AckRead ==
    /\ wpc = "awaitAck" /\ toWorker # <<>>
    /\ toWorker' = Tail(toWorker)
    /\ IF Head(toWorker) = Message("Consumed", wgen, wbatch)
       THEN wpc' = "work" /\ wbatch' = wbatch + 1 /\ UNCHANGED fromWorker
       ELSE Report(TRUE) /\ UNCHANGED wbatch
    /\ UNCHANGED <<wgen, wdetail, hostVars, dataVars>>

\* The event ends the work, the wait for an acknowledgement and the wait for
\* a detail request, whatever is in the pipe by then.
WorkCancelled ==
    /\ wpc \in {"work", "awaitAck", "awaitDetail"}
    /\ WorkerSees
    /\ Report(TRUE)
    /\ UNCHANGED <<wgen, wbatch, wdetail, hostVars, toWorker, dataVars>>

\* A blocking read: neither the event nor a timeout ends it.
RequestSidecar ==
    /\ wpc = "work"
    /\ Reply(Message("RequestSidecar", wgen, 0))
    /\ wpc' = "awaitSidecar"
    /\ UNCHANGED <<wgen, wbatch, wdetail, hostVars, toWorker, dataVars>>

SidecarRead ==
    /\ wpc = "awaitSidecar" /\ toWorker # <<>>
    /\ toWorker' = Tail(toWorker)
    /\ IF Head(toWorker).op = "Sidecar"
       THEN wpc' = "work" /\ UNCHANGED fromWorker
       ELSE Report(FALSE)
    /\ UNCHANGED <<wgen, wbatch, wdetail, hostVars, dataVars>>

FinishOk ==
    /\ wpc = "work"
    /\ Write(wbatch)
    /\ Reply(Message("ChunksReady", wgen, wbatch))
    /\ wpc' = IF wdetail THEN "awaitDetail" ELSE "dispatch"
    /\ UNCHANGED <<wgen, wbatch, wdetail, hostVars, toWorker, delivered,
                   lateBatches, outcome>>

FinishError ==
    /\ wpc = "work"
    /\ Report(FALSE)
    /\ UNCHANGED <<wgen, wbatch, wdetail, hostVars, toWorker, dataVars>>

\* AwaitDetail and one replay of the import, which may fail; EndDetail and
\* anything unexpected return to the request loop without a word.
DetailRead ==
    /\ wpc = "awaitDetail" /\ toWorker # <<>>
    /\ toWorker' = Tail(toWorker)
    /\ \/ /\ Head(toWorker) = Message("RequestDetail", wgen, 0)
          /\ Write(Detail)
          /\ Reply(Message("ChunksReady", wgen, Detail))
          /\ UNCHANGED wpc
       \/ /\ Head(toWorker) = Message("RequestDetail", wgen, 0)
          /\ Report(FALSE)
          /\ UNCHANGED <<window, announced>>
       \/ /\ Head(toWorker) # Message("RequestDetail", wgen, 0)
          /\ wpc' = "dispatch"
          /\ UNCHANGED <<window, announced, fromWorker>>
    /\ UNCHANGED <<wgen, wbatch, wdetail, hostVars, delivered, lateBatches,
                   outcome>>

\* A job limit, a crash, or a parser that does not come back.
WorkerFails ==
    /\ WorkerFaults
    /\ wpc \notin {"exited", "hung"}
    /\ wpc' \in {"exited", "hung"}
    /\ UNCHANGED <<wgen, wbatch, wdetail, hostVars, toWorker, fromWorker,
                   dataVars>>

-----------------------------------------------------------------------------
HostStep ==
    \/ ReadBatchReady \/ WriteAck \/ ReadSidecarRequest
    \/ ReadChunksReady \/ ReadGenerationError
    \/ WaitEnds("read", "grace") \/ WaitEnds("detailRead", "detailGrace")
    \/ GraceEnds \/ DetailTurn \/ ReadDetailReply
    \/ ReleaseLease

WorkerStep ==
    \/ Dispatch \/ PublishBatch \/ AckRead \/ WorkCancelled
    \/ RequestSidecar \/ SidecarRead \/ FinishOk \/ FinishError \/ DetailRead

Next ==
    \/ StartSession
    \/ HostStep
    \/ WorkerStep
    \/ WorkerFails
    \/ CancelRequest
    \/ DeadlinePasses

Spec == Init /\ [][Next]_vars

\* The import thread runs; nothing is assumed of the worker or the user.
FairSpec == Spec /\ WF_vars(HostStep)

-----------------------------------------------------------------------------
Outcomes == {"open", "complete", "cancelled", "deadline", "timedOut",
             "rejected", "workerError", "crashed"}
HostStates == {"idle", "read", "ack", "grace", "detail", "detailRead",
               "detailGrace", "release"}
WorkerStates == {"dispatch", "work", "awaitAck", "awaitSidecar",
                 "awaitDetail", "exited", "hung"}
ToWorker ==
    [op : {"Start"}, gen : Generations, arg : BOOLEAN]
    \cup [op : {"Consumed", "Sidecar", "RequestDetail", "EndDetail"},
          gen : Generations, arg : Nat]
FromWorker ==
    [op : {"GenerationError"}, gen : Generations, arg : BOOLEAN]
    \cup [op : {"BatchReady", "ChunksReady", "RequestSidecar"},
          gen : Generations, arg : Contents]

\* The state of both ends and of what passes between them is well formed.
TypeOK ==
    /\ gen \in 0..MaxGenerations /\ wgen \in 0..gen
    /\ hpc \in HostStates /\ wpc \in WorkerStates
    /\ {cancelRequested, cancelEvent, detailService, deadlinePassed, reusable,
        wdetail} \subseteq BOOLEAN
    /\ sidecars \in 0..SidecarCap /\ details \in 0..DetailCap
    /\ wbatch \in 0..MaxWorkerBatches
    /\ toWorker \in Seq(ToWorker) /\ fromWorker \in Seq(FromWorker)
    /\ window \in Contents
    /\ delivered \in [Generations -> Seq(Contents)]
    /\ announced \in [Generations -> Seq(Contents)]
    /\ lateBatches \in Nat
    /\ outcome \in [Generations -> Outcomes]

\* The viewer gets what the worker announced: every batch once, in order, and
\* with the bytes the window held when it was announced, although the worker
\* writes the next batch into the same window.
DeliveredAsAnnounced ==
    \A g \in Generations : IsPrefix(delivered[g], announced[g])

\* Once the user or a newer open cancelled the generation, or its time is up,
\* the viewer is handed one more batch at most.
StopsPromptly == lateBatches <= 1

\* A worker goes back to the pool only when no reply of its last generation
\* is still to come: nothing is buffered, and it is at its request loop, or
\* has the end of its detail replay still to read.
ReuseIsQuiet ==
    hpc = "release" /\ reusable =>
        /\ fromWorker = <<>>
        /\ wpc \in {"dispatch", "awaitDetail", "exited", "hung"}
        /\ wpc = "awaitDetail" => toWorker = <<Message("EndDetail", gen, 0)>>

\* The import thread and a living worker never wait for each other with
\* nothing under way between them: no generation ends by a timeout unless
\* the worker was slow, stuck or gone.
HandshakeNeverStalls ==
    ~ /\ hpc \in {"read", "detailRead"}
      /\ wpc \in {"dispatch", "awaitAck", "awaitSidecar", "awaitDetail"}
      /\ toWorker = <<>> /\ fromWorker = <<>>

\* Every generation ends and gives its worker back, also when the worker
\* hangs, whatever it sends, and whether or not anybody cancels it.
GenerationEnds == hpc # "idle" ~> hpc = "idle"

\* What a session promises to its caller.
Delivery == INSTANCE ImportDelivery
                WITH Sessions <- Generations,
                     Endings <- Outcomes \ {"open"}, Items <- Contents,
                     session <- gen, result <- outcome
ImplementsDelivery == Delivery!Spec
=============================================================================
