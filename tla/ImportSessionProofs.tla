------------------------- MODULE ImportSessionProofs -------------------------
(***************************************************************************)
(* What holds of ImportSession for any caps, any number of generations and *)
(* any worker: the state is well formed, and a stopped generation hands on *)
(* one more batch at most.                                                 *)
(***************************************************************************)
EXTENDS ImportSession, SequenceTheorems, TLAPS

\* A late batch is the last: it leaves the places in which another could be
\* accepted, but for the turn of the replay loop that looks at token and time.
LateIsLast ==
    /\ lateBatches \in {0, 1}
    /\ hpc \in {"read", "ack", "detailRead"} => lateBatches = 0
    /\ hpc = "detail" /\ lateBatches = 1 => cancelRequested \/ deadlinePassed

\* Each way the host can accept a batch, and each way back to where it could.
LEMMA LateStep == LateIsLast /\ [Next]_vars => LateIsLast'
<1> SUFFICES ASSUME LateIsLast, [Next]_vars PROVE LateIsLast'
  OBVIOUS
<1> USE DEF LateIsLast, End
<1>1. CASE StartSession
  BY <1>1 DEF StartSession
<1>2. CASE ReadBatchReady
  BY <1>2 DEF ReadBatchReady, Receive, Deliver, Probe
<1>3. CASE ReadChunksReady
  BY <1>3 DEF ReadChunksReady, Receive, Deliver, Probe
<1>4. CASE ReadDetailReply
  BY <1>4 DEF ReadDetailReply, Deliver
<1>5. CASE DetailTurn
  BY <1>5 DEF DetailTurn, Probe, AfterRequest
<1>6. CASE WaitEnds("read", "grace") \/ WaitEnds("detailRead", "detailGrace")
  BY <1>6 DEF WaitEnds
<1>7. CASE WriteAck \/ ReadSidecarRequest \/ ReadGenerationError
           \/ GraceEnds \/ ReleaseLease
  BY <1>7 DEF WriteAck, ReadSidecarRequest, ReadGenerationError, Receive,
     GraceEnds, ReleaseLease, dataVars
<1>8. CASE CancelRequest \/ DeadlinePasses
  BY <1>8 DEF CancelRequest, DeadlinePasses, dataVars
<1>9. CASE WorkerStep \/ WorkerFails \/ UNCHANGED vars
  BY <1>9 DEF WorkerStep, Dispatch, PublishBatch, AckRead, WorkCancelled,
     RequestSidecar, SidecarRead, FinishOk, FinishError, DetailRead,
     WorkerFails, vars, hostVars, dataVars, Write
<1> QED  BY <1>1, <1>2, <1>3, <1>4, <1>5, <1>6, <1>7, <1>8, <1>9
         DEF Next, HostStep

\* Although buffered bytes win over the token and over the deadline, a
\* stopped generation hands one more batch to the viewer at most.
THEOREM SessionsStopPromptly == Spec => []StopsPromptly
<1>1. Init => LateIsLast
  BY DEF Init, LateIsLast
<1>2. LateIsLast => StopsPromptly
  BY DEF LateIsLast, StopsPromptly
<1> QED  BY <1>1, <1>2, LateStep, PTL DEF Spec

-----------------------------------------------------------------------------
(***************************************************************************)
(* Type correctness.                                                       *)
(***************************************************************************)

\* Requests under way name a generation that has begun.
Sent == {m \in ToWorker : m.gen <= gen}

Serving == {"work", "awaitAck", "awaitSidecar", "awaitDetail"}

\* Where the two ends are and what they count.
Control ==
    /\ gen \in 0..MaxGenerations /\ wgen \in 0..gen
    /\ hpc \in HostStates /\ wpc \in WorkerStates
    /\ sidecars \in 0..SidecarCap /\ details \in 0..DetailCap
    /\ wbatch \in 0..MaxWorkerBatches
    /\ outcome \in [Generations -> Outcomes]
    /\ hpc # "idle" => gen \in Generations
    /\ wpc \in Serving => wgen \in Generations
    /\ wpc = "awaitAck" => wbatch < MaxWorkerBatches

\* The flags of both ends.
Flags == /\ cancelRequested \in BOOLEAN /\ cancelEvent \in BOOLEAN
         /\ detailService \in BOOLEAN /\ deadlinePassed \in BOOLEAN
         /\ reusable \in BOOLEAN /\ wdetail \in BOOLEAN

\* What passes between them.
Pipes == toWorker \in Seq(Sent) /\ fromWorker \in Seq(FromWorker)

\* What was written, announced and delivered.
Batches ==
    /\ window \in Contents
    /\ delivered \in [Generations -> Seq(Contents)]
    /\ announced \in [Generations -> Seq(Contents)]
    /\ lateBatches \in Nat
    /\ hpc = "ack" => Len(delivered[gen]) > 0

Typed == Control /\ Flags /\ Pipes /\ Batches

\* A queue gives its first element and keeps its type.
LEMMA Queue ==
    ASSUME NEW S, NEW s \in Seq(S)
    PROVE  /\ s # <<>> => Head(s) \in S /\ Tail(s) \in Seq(S)
           /\ \A e \in S : Append(s, e) \in Seq(S) /\ Len(Append(s, e)) > 0
<1>1. Len(s) \in Nat
  BY LenProperties
<1> QED  BY <1>1, HeadTailProperties, AppendProperties

\* It is the type the module states.
LEMMA TypedSuffices == Typed => TypeOK
<1> SUFFICES ASSUME Typed PROVE TypeOK
  OBVIOUS
<1>1. toWorker \in Seq(ToWorker)
  BY SeqMonotonic, Sent \subseteq ToWorker DEF Typed, Pipes, Sent
<1> QED  BY <1>1 DEF Typed, Control, Flags, Pipes, Batches, TypeOK

\* It holds before the first session.
LEMMA TypedInit == Init => Typed
<1> SUFFICES ASSUME Init PROVE Typed
  OBVIOUS
<1>1. \A S : <<>> \in Seq(S)
  BY EmptySeq
<1>2. Control
  BY SessionAssumption DEF Init, Control, HostStates, WorkerStates, Outcomes,
     Serving
<1>3. Batches
  BY <1>1, SessionAssumption DEF Init, Batches, Contents, Detail, NoBatch
<1> QED  BY <1>1, <1>2, <1>3 DEF Init, Typed, Flags, Pipes

\* What was sent stays sent.
LEMMA SentGrows ==
    ASSUME gen \in Nat, gen' \in Nat, gen <= gen', toWorker \in Seq(Sent)
    PROVE  toWorker \in Seq(Sent') /\ Sent \subseteq Sent'
<1>1. Sent \subseteq Sent'
  BY DEF Sent, ToWorker, Generations
<1> QED  BY <1>1, SeqMonotonic

\* The control state follows each step of the import thread.
LEMMA HostControl == Typed /\ (StartSession \/ HostStep) => Control'
<1> SUFFICES ASSUME Typed, StartSession \/ HostStep PROVE Control'
  OBVIOUS
<1>0. {MaxGenerations, MaxWorkerBatches, SidecarCap, DetailCap} \subseteq Nat
  BY SessionAssumption
<1> USE <1>0 DEF Typed, Control, End, Generations, HostStates, Outcomes, workerVars
<1>1. CASE StartSession
  BY <1>1 DEF StartSession
<1>2. CASE ReadBatchReady
  BY <1>2 DEF ReadBatchReady, Receive, Probe
<1>3. CASE ReadChunksReady
  BY <1>3 DEF ReadChunksReady, Receive, Probe
<1>4. CASE ReadDetailReply
  BY <1>4 DEF ReadDetailReply
<1>5. CASE DetailTurn
  BY <1>5 DEF DetailTurn, Probe, AfterRequest
<1>6. CASE WaitEnds("read", "grace") \/ WaitEnds("detailRead", "detailGrace")
  BY <1>6 DEF WaitEnds
<1>7. CASE WriteAck
  BY <1>7 DEF WriteAck
<1>8. CASE ReadSidecarRequest
  BY <1>8, SMTT(30) DEF ReadSidecarRequest, Receive, SidecarsAtCap
<1>9. CASE ReadGenerationError
  BY <1>9 DEF ReadGenerationError, Receive
<1>10. CASE GraceEnds
  BY <1>10 DEF GraceEnds, Acknowledges
<1>11. CASE ReleaseLease
  BY <1>11 DEF ReleaseLease, dataVars, WorkerStates, Serving
<1> QED  BY <1>1, <1>2, <1>3, <1>4, <1>5, <1>6, <1>7, <1>8, <1>9, <1>10, <1>11
         DEF HostStep

\* It follows each step of the worker.
LEMMA WorkerControl == Typed /\ (WorkerStep \/ WorkerFails) => Control'
<1> SUFFICES ASSUME Typed, WorkerStep \/ WorkerFails PROVE Control'
  OBVIOUS
<1>0. MaxGenerations \in Nat /\ MaxWorkerBatches \in Nat
  BY SessionAssumption
<1> USE <1>0 DEF Typed, Control, Generations, WorkerStates, Serving, Report,
                hostVars, dataVars
<1>1. CASE Dispatch
  <2>1. Head(toWorker) \in Sent
    BY <1>1, Queue DEF Dispatch, Pipes
  <2>2. Head(toWorker).gen \in 1..gen
    BY <2>1 DEF Sent, ToWorker
  <2> QED  BY <1>1, <2>2 DEF Dispatch
<1>2. CASE PublishBatch
  BY <1>2 DEF PublishBatch, AfterPublish
<1>3. CASE AckRead
  <2>1. \/ wpc' = "work" /\ wbatch' = wbatch + 1
        \/ wpc' = "dispatch" /\ wbatch' = wbatch
    BY <1>3, Zenon DEF AckRead
  <2>2. wbatch' \in 0..MaxWorkerBatches /\ wpc' # "awaitAck"
    BY <1>3, <2>1 DEF AckRead
  <2> QED  BY <1>3, <2>1, <2>2 DEF AckRead
<1>4. CASE WorkCancelled
  BY <1>4 DEF WorkCancelled
<1>5. CASE RequestSidecar \/ SidecarRead
  BY <1>5 DEF RequestSidecar, SidecarRead
<1>6. CASE FinishOk \/ FinishError
  BY <1>6 DEF FinishOk, FinishError
<1>7. CASE DetailRead
  BY <1>7 DEF DetailRead
<1>8. CASE WorkerFails
  BY <1>8 DEF WorkerFails
<1> QED  BY <1>1, <1>2, <1>3, <1>4, <1>5, <1>6, <1>7, <1>8 DEF WorkerStep

\* The messages each end sends are of the types of the pipes.
LEMMA Messages ==
    ASSUME NEW g \in Generations
    PROVE  /\ \A b \in BOOLEAN : /\ Message("Start", g, b) \in ToWorker
                                /\ Message("GenerationError", g, b) \in FromWorker
           /\ \A n \in Nat : /\ Message("Consumed", g, n) \in ToWorker
                            /\ Message("Sidecar", g, n) \in ToWorker
                            /\ Message("RequestDetail", g, n) \in ToWorker
                            /\ Message("EndDetail", g, n) \in ToWorker
           /\ \A i \in Contents : /\ Message("BatchReady", g, i) \in FromWorker
                                 /\ Message("ChunksReady", g, i) \in FromWorker
                                 /\ Message("RequestSidecar", g, i) \in FromWorker
BY DEF Message, ToWorker, FromWorker

\* What one step may do to a pipe: nothing, empty it, read from it, write to it.
Follows(q, r, S) == \/ r = q \/ r = <<>>
                    \/ q # <<>> /\ r = Tail(q)
                    \/ \E m \in S : r = Append(q, m)

\* That keeps its type.
LEMMA FollowsKeepsType ==
    ASSUME NEW S, NEW q \in Seq(S), NEW r, Follows(q, r, S)
    PROVE  r \in Seq(S)
BY Queue, EmptySeq DEF Follows

\* The import thread writes only requests of the current generation.
LEMMA HostPipes ==
    ASSUME Typed, Control', StartSession \/ HostStep
    PROVE  /\ gen <= gen'
           /\ Follows(toWorker, toWorker', Sent')
           /\ Follows(fromWorker, fromWorker', FromWorker)
<1>0. /\ gen \in Nat /\ gen' \in Nat
      /\ hpc # "idle" => gen \in Generations
      /\ hpc' # "idle" => gen' \in Generations
  BY SessionAssumption DEF Typed, Control, Generations
<1>1. \A m \in ToWorker : m.gen = gen' => m \in Sent'
  BY <1>0 DEF Sent, ToWorker, Generations
<1> USE <1>0 DEF Follows, End
<1>2. CASE StartSession
  <2>1. hpc' = "release" \/ hpc' = "read"
    BY <1>2 DEF StartSession
  <2>2. detailService' \in BOOLEAN
    BY <1>2 DEF StartSession
  <2>3. /\ Message("Start", gen', detailService') \in ToWorker
        /\ Message("Start", gen', detailService').gen = gen'
    BY <2>1, <2>2, Messages DEF Message
  <2>4. Message("Start", gen', detailService') \in Sent'
    BY <2>3, <1>1
  <2> QED  BY <1>2, <2>4 DEF StartSession, Send
<1>3. CASE ReadBatchReady
  BY <1>3 DEF ReadBatchReady, Receive
<1>4. CASE ReadChunksReady
  BY <1>4 DEF ReadChunksReady, Receive
<1>5. CASE ReadDetailReply
  BY <1>5 DEF ReadDetailReply
<1>6. CASE DetailTurn
  <2>1. gen' = gen /\ gen \in Generations
    BY <1>6 DEF DetailTurn
  <2>2. /\ Message("RequestDetail", gen, 0) \in Sent'
        /\ Message("EndDetail", gen, 0) \in Sent'
    BY <1>1, <2>1, Messages DEF Message
  <2> QED  BY <1>6, <2>2 DEF DetailTurn, Send
<1>7. CASE WaitEnds("read", "grace") \/ WaitEnds("detailRead", "detailGrace")
  BY <1>7 DEF WaitEnds
<1>8. CASE WriteAck
  <2>1. gen' = gen /\ gen \in Generations /\ hpc = "ack"
    BY <1>8 DEF WriteAck
  <2>2. Len(delivered[gen]) - 1 \in Nat
    BY <2>1, LenProperties DEF Typed, Batches
  <2>3. Message("Consumed", gen, Len(delivered[gen]) - 1) \in Sent'
    BY <1>1, <2>1, <2>2, Messages DEF Message
  <2> QED  BY <1>8, <2>3 DEF WriteAck, Send
<1>9. CASE ReadSidecarRequest
  <2>1. gen' = gen /\ gen \in Generations
    BY <1>9 DEF ReadSidecarRequest, Receive
  <2>2. Message("Sidecar", gen, 0) \in Sent'
    BY <1>1, <2>1, Messages DEF Message
  <2> QED  BY <1>9, <2>2 DEF ReadSidecarRequest, Receive, Send
<1>10. CASE ReadGenerationError
  BY <1>10 DEF ReadGenerationError, Receive
<1>11. CASE GraceEnds
  BY <1>11 DEF GraceEnds
<1>12. CASE ReleaseLease
  BY <1>12 DEF ReleaseLease
<1> QED  BY <1>2, <1>3, <1>4, <1>5, <1>6, <1>7, <1>8, <1>9, <1>10, <1>11, <1>12
         DEF HostStep

\* The worker writes only about a generation it was told of.
LEMMA WorkerPipes ==
    ASSUME Typed, WorkerStep \/ WorkerFails
    PROVE  /\ gen' = gen
           /\ Follows(toWorker, toWorker', Sent')
           /\ Follows(fromWorker, fromWorker', FromWorker)
<1>0. /\ wpc \in Serving => wgen \in Generations
      /\ wbatch \in Contents /\ Detail \in Contents /\ 0 \in Contents
  BY SessionAssumption DEF Typed, Control, Contents, Detail
<1>1. wgen \in Generations =>
        /\ \A b \in BOOLEAN : Message("GenerationError", wgen, b) \in FromWorker
        /\ Message("BatchReady", wgen, wbatch) \in FromWorker
        /\ Message("ChunksReady", wgen, wbatch) \in FromWorker
        /\ Message("ChunksReady", wgen, Detail) \in FromWorker
        /\ Message("RequestSidecar", wgen, 0) \in FromWorker
  BY <1>0, Messages
<1> USE <1>0 DEF Follows, Reply, Report, Serving, hostVars
<1>2. CASE Dispatch
  BY <1>2 DEF Dispatch
<1>3. CASE PublishBatch
  BY <1>1, <1>3 DEF PublishBatch
<1>4. CASE AckRead
  BY <1>1, <1>4 DEF AckRead
<1>5. CASE WorkCancelled
  BY <1>1, <1>5 DEF WorkCancelled
<1>6. CASE RequestSidecar
  BY <1>1, <1>6 DEF RequestSidecar
<1>7. CASE SidecarRead
  BY <1>1, <1>7 DEF SidecarRead
<1>8. CASE FinishOk
  BY <1>1, <1>8 DEF FinishOk
<1>9. CASE FinishError
  BY <1>1, <1>9 DEF FinishError
<1>10. CASE DetailRead
  BY <1>1, <1>10 DEF DetailRead
<1>11. CASE WorkerFails
  BY <1>11 DEF WorkerFails
<1> QED  BY <1>2, <1>3, <1>4, <1>5, <1>6, <1>7, <1>8, <1>9, <1>10, <1>11
         DEF WorkerStep

\* The flags stay truth values.
LEMMA FlagsStep == Typed /\ Next => Flags'
<1> SUFFICES ASSUME Typed, Next PROVE Flags'
  OBVIOUS
<1> USE DEF Typed, Flags, workerVars, hostVars, dataVars
<1>1. CASE StartSession
  BY <1>1 DEF StartSession
<1>2. CASE ReadBatchReady
  BY <1>2 DEF ReadBatchReady, End, Probe
<1>3. CASE ReadChunksReady
  BY <1>3 DEF ReadChunksReady, End, Probe
<1>4. CASE ReadDetailReply
  BY <1>4 DEF ReadDetailReply, End
<1>5. CASE DetailTurn
  BY <1>5 DEF DetailTurn, End
<1>6. CASE WaitEnds("read", "grace") \/ WaitEnds("detailRead", "detailGrace")
  BY <1>6 DEF WaitEnds, End
<1>7. CASE WriteAck
  BY <1>7 DEF WriteAck, End
<1>8. CASE ReadSidecarRequest
  BY <1>8 DEF ReadSidecarRequest, End
<1>9. CASE ReadGenerationError
  BY <1>9 DEF ReadGenerationError, End
<1>10. CASE GraceEnds
  BY <1>10 DEF GraceEnds, End, Acknowledges
<1>11. CASE ReleaseLease
  BY <1>11 DEF ReleaseLease
<1>12. CASE Dispatch
  <2>1. Head(toWorker) \in Sent
    BY <1>12, Queue DEF Dispatch, Pipes
  <2>2. Head(toWorker).op = "Start" => Head(toWorker).arg \in BOOLEAN
    BY <2>1 DEF Sent, ToWorker
  <2> QED  BY <1>12, <2>2 DEF Dispatch
<1>13. CASE PublishBatch \/ AckRead \/ WorkCancelled \/ RequestSidecar
            \/ SidecarRead \/ FinishOk \/ FinishError \/ DetailRead
  BY <1>13 DEF PublishBatch, AckRead, WorkCancelled, RequestSidecar,
     SidecarRead, FinishOk, FinishError, DetailRead
<1>14. CASE WorkerFails \/ CancelRequest \/ DeadlinePasses
  BY <1>14 DEF WorkerFails, CancelRequest, DeadlinePasses
<1> QED  BY <1>1, <1>2, <1>3, <1>4, <1>5, <1>6, <1>7, <1>8, <1>9, <1>10, <1>11,
            <1>12, <1>13, <1>14 DEF Next, HostStep, WorkerStep

\* A content added to a generation's list.
LEMMA Added ==
    ASSUME NEW f \in [Generations -> Seq(Contents)], NEW g \in Generations,
           NEW c \in Contents
    PROVE  /\ [f EXCEPT ![g] = Append(@, c)] \in [Generations -> Seq(Contents)]
           /\ Len([f EXCEPT ![g] = Append(@, c)][g]) > 0
<1>1. Append(f[g], c) \in Seq(Contents) /\ Len(Append(f[g], c)) > 0
  BY Queue
<1> QED  BY <1>1

\* The lists and the window keep their types; an acknowledgement follows a batch.
LEMMA BatchesStep == Typed /\ Control' /\ Next => Batches'
<1> SUFFICES ASSUME Typed, Control', Next PROVE Batches'
  OBVIOUS
<1>0. /\ hpc # "idle" => gen \in Generations
      /\ wpc \in Serving => wgen \in Generations
      /\ wbatch \in Contents /\ NoBatch \in Contents /\ Detail \in Contents
  BY SessionAssumption DEF Typed, Control, Contents, Detail, NoBatch
<1>1. Batches
  BY DEF Typed
<1>2. ASSUME hpc # "idle", Deliver, UNCHANGED <<gen, window, announced>>
      PROVE  Batches'
  <2>1. /\ delivered' \in [Generations -> Seq(Contents)]
        /\ Len(delivered'[gen]) > 0
    BY <1>0, <1>1, <1>2, Added DEF Deliver, Batches
  <2>2. lateBatches' \in Nat
    BY <1>1, <1>2 DEF Deliver, Batches
  <2> QED  BY <1>1, <1>2, <2>1, <2>2 DEF Batches
<1>3. ASSUME wpc \in Serving, NEW c \in Contents, Write(c),
             UNCHANGED <<hpc, gen, delivered, lateBatches>>
      PROVE  Batches'
  <2>1. announced' \in [Generations -> Seq(Contents)]
    BY <1>0, <1>1, <1>3, Added DEF Write, Batches
  <2>2. window' \in Contents
    BY <1>1, <1>3 DEF Write, Batches
  <2> QED  BY <1>1, <1>3, <2>1, <2>2 DEF Batches
<1>4. ASSUME UNCHANGED <<window, delivered, announced, lateBatches>>,
             hpc' # "ack" \/ UNCHANGED <<hpc, gen>>
      PROVE  Batches'
  BY <1>1, <1>4 DEF Batches
<1>5. CASE StartSession
  BY <1>0, <1>1, <1>5 DEF StartSession, Batches
<1>6. CASE ReadBatchReady
  <2>1. /\ hpc = "read"
        /\ UNCHANGED <<gen, window, announced>>
        /\ Deliver \/ (UNCHANGED <<delivered, lateBatches>> /\ hpc' # "ack")
    BY <1>6 DEF ReadBatchReady, Receive, End
  <2> QED  BY <1>2, <1>4, <2>1
<1>7. CASE ReadChunksReady
  <2>1. /\ hpc = "read"
        /\ UNCHANGED <<gen, window, announced>>
        /\ Deliver \/ (UNCHANGED <<delivered, lateBatches>> /\ hpc' # "ack")
    BY <1>7 DEF ReadChunksReady, Receive, End
  <2> QED  BY <1>2, <1>4, <2>1
<1>8. CASE ReadDetailReply
  <2>1. /\ hpc = "detailRead"
        /\ UNCHANGED <<gen, window, announced>>
        /\ Deliver \/ (UNCHANGED <<delivered, lateBatches>> /\ hpc' # "ack")
    BY <1>8 DEF ReadDetailReply, End
  <2> QED  BY <1>2, <1>4, <2>1
<1>9. CASE \/ WriteAck \/ ReadSidecarRequest \/ ReadGenerationError
           \/ WaitEnds("read", "grace") \/ WaitEnds("detailRead", "detailGrace")
           \/ GraceEnds \/ DetailTurn \/ ReleaseLease
  BY <1>4, <1>9 DEF WriteAck, ReadSidecarRequest, Receive,
     ReadGenerationError, WaitEnds, GraceEnds, DetailTurn, AfterRequest,
     ReleaseLease, End, dataVars
<1>10. CASE PublishBatch \/ FinishOk
  BY <1>0, <1>3, <1>10 DEF PublishBatch, FinishOk, Serving, hostVars
<1>11. CASE DetailRead
  <2>1. /\ wpc \in Serving
        /\ UNCHANGED <<hpc, gen, delivered, lateBatches>>
        /\ Write(Detail) \/ UNCHANGED <<window, announced>>
    BY <1>11 DEF DetailRead, Serving, hostVars
  <2> QED  BY <1>0, <1>3, <1>4, <2>1
<1>12. CASE \/ Dispatch \/ AckRead \/ WorkCancelled \/ RequestSidecar
            \/ SidecarRead \/ FinishError \/ WorkerFails
  BY <1>4, <1>12 DEF Dispatch, AckRead, WorkCancelled, RequestSidecar,
     SidecarRead, FinishError, WorkerFails, hostVars, dataVars
<1>13. CASE CancelRequest \/ DeadlinePasses
  BY <1>4, <1>13 DEF CancelRequest, DeadlinePasses, dataVars
<1> QED  BY <1>5, <1>6, <1>7, <1>8, <1>9, <1>10, <1>11, <1>12, <1>13
         DEF Next, HostStep, WorkerStep

\* The four parts together.
LEMMA TypedStep == Typed /\ [Next]_vars => Typed'
<1> SUFFICES ASSUME Typed, [Next]_vars PROVE Typed'
  OBVIOUS
<1>1. CASE StartSession \/ HostStep \/ WorkerStep \/ WorkerFails
  <2>1. Next
    BY <1>1 DEF Next
  <2>2. Control'
    BY <1>1, HostControl, WorkerControl
  <2>3. /\ gen <= gen'
        /\ Follows(toWorker, toWorker', Sent')
        /\ Follows(fromWorker, fromWorker', FromWorker)
    BY <1>1, <2>2, HostPipes, WorkerPipes DEF Typed, Control
  <2>4. Pipes'
    <3>1. gen \in Nat /\ gen' \in Nat
      BY <2>2, SessionAssumption DEF Typed, Control
    <3>2. toWorker \in Seq(Sent') /\ fromWorker \in Seq(FromWorker)
      BY <2>3, <3>1, SentGrows DEF Typed, Pipes
    <3>3. toWorker' \in Seq(Sent')
      BY <2>3, <3>2, FollowsKeepsType
    <3>4. fromWorker' \in Seq(FromWorker)
      BY <2>3, <3>2, FollowsKeepsType
    <3> QED  BY <3>3, <3>4 DEF Pipes
  <2> QED  BY <2>1, <2>2, <2>4, FlagsStep, BatchesStep DEF Typed
<1>2. CASE CancelRequest \/ DeadlinePasses \/ UNCHANGED vars
  <2>1. UNCHANGED <<gen, hpc, sidecars, details, workerVars, toWorker,
                    fromWorker, dataVars>>
    BY <1>2 DEF CancelRequest, DeadlinePasses, vars, hostVars
  <2>2. Control' /\ Pipes' /\ Batches'
    BY <2>1 DEF Typed, Control, Pipes, Sent, Batches, workerVars, dataVars
  <2>3. Flags'
    BY <1>2, FlagsStep DEF Next, Typed, Flags, vars, hostVars, workerVars
  <2> QED  BY <2>2, <2>3 DEF Typed
<1> QED  BY <1>1, <1>2 DEF Next

\* The state of both ends and of what passes between them is well formed: a
\* worker serves only a generation it was told of, and both count within their
\* caps.
THEOREM SessionTypes == Spec => []TypeOK
<1> QED  BY TypedInit, TypedStep, TypedSuffices, PTL DEF Spec

-----------------------------------------------------------------------------
(***************************************************************************)
(* The exchange.  Between the two ends there is one turn: the worker's     *)
(* work, a reply under way, an answer under way, or the host's own work.   *)
(* So the window is written only while nothing announced is undelivered,   *)
(* and a generation that ended well left nothing behind.                   *)
(***************************************************************************)

Gone == {"exited", "hung"}
Parked == {"dispatch", "awaitDetail"} \cup Gone
Live == {"read", "ack", "detail", "detailRead"}
Running == Live \cup {"grace", "detailGrace"}

\* The Start request of this generation, perhaps behind something the worker
\* left unread when it was reused.
Unread ==
    /\ Len(toWorker) \in {1, 2}
    /\ toWorker[Len(toWorker)] = Message("Start", gen, detailService)
    /\ Len(toWorker) = 2 => toWorker[1].op # "Start"

\* At most one answer for what the worker serves or served.
Answers ==
    /\ Len(toWorker) \in {0, 1}
    /\ Len(toWorker) = 1 => toWorker[1].op # "Start"

Undelivered == /\ fromWorker # <<>>
               /\ fromWorker[1].op \in {"BatchReady", "ChunksReady"}

\* Of a running session: the worker serves it or has its Start still to read,
\* and an error is the last it says.
InSync ==
    /\ Unread \/ Answers
    /\ Unread => fromWorker = <<>> /\ wpc \in Parked /\ wgen # gen
    /\ wpc \notin Parked => wgen = gen /\ wdetail = detailService
    /\ wpc = "awaitDetail" =>
         IF Unread THEN Len(toWorker) = 2 /\ toWorker[1].op = "EndDetail"
                   ELSE wgen = gen /\ detailService = TRUE
    /\ fromWorker # <<>> /\ fromWorker[1].op = "GenerationError" =>
         Len(fromWorker) = 1 /\ wpc \in {"dispatch"} \cup Gone

\* Of one whose host still takes batches: only one side can move it on.
OneTurn ==
    /\ cancelEvent = FALSE
    /\ Len(fromWorker) \in {0, 1}
    /\ toWorker # <<>> => fromWorker = <<>>
    /\ wpc = "work" => toWorker = <<>> /\ fromWorker = <<>> /\ hpc = "read"
    /\ hpc \in {"ack", "detail"} => toWorker = <<>> /\ fromWorker = <<>>
    /\ hpc \in {"detail", "detailRead"} => wpc \in Parked /\ Answers
    /\ hpc = "detailRead" /\ toWorker # <<>> =>
         toWorker[1] = Message("RequestDetail", gen, 0)
    /\ hpc \in {"read", "detailRead"} /\ wpc \notin Gone \cup {"work"} =>
         toWorker # <<>> \/ fromWorker # <<>>
    /\ fromWorker # <<>> =>
         /\ fromWorker[1].op = "BatchReady" => wpc \in {"awaitAck"} \cup Gone
         /\ fromWorker[1].op = "RequestSidecar" =>
              wpc \in {"awaitSidecar"} \cup Gone
         /\ fromWorker[1].op = "ChunksReady" => wpc \in Parked
    /\ hpc = "ack" => wpc \in {"awaitAck"} \cup Gone
    /\ hpc = "read" /\ wpc = "awaitDetail" /\ ~Unread => fromWorker # <<>>
    /\ announced[gen] = IF Undelivered THEN Append(delivered[gen], window)
                                       ELSE delivered[gen]

\* Of a worker that is, or is about to be, in the pool again.
AtRest ==
    /\ fromWorker = <<>> /\ wpc \in Parked
    /\ Answers
    /\ wpc = "awaitDetail" =>
         /\ Len(toWorker) = 1 /\ toWorker[1] = Message("EndDetail", gen, 0)
         /\ cancelEvent = FALSE

\* Where the import thread is decides which of them is owed.
Protocol == /\ hpc \in Running => InSync
            /\ hpc \in Live => OneTurn
            /\ hpc = "idle" \/ (hpc = "release" /\ reusable = TRUE) => AtRest

\* Element by element, and nothing of the generations to come.
Agrees(s, t) == Len(s) <= Len(t) /\ \A i \in 1..Len(s) : s[i] = t[i]
Logs == \A g \in Generations : /\ Agrees(delivered[g], announced[g])
                               /\ g > gen => /\ delivered[g] = <<>>
                                             /\ announced[g] = <<>>

Exchange == Typed /\ Protocol /\ Logs

-----------------------------------------------------------------------------
(***************************************************************************)
(* Sequences.                                                              *)
(***************************************************************************)

\* The first two elements and the length decide all that is asked of a pipe.
LEMMA QueueAt ==
    ASSUME NEW S, NEW q \in Seq(S)
    PROVE  /\ Len(q) \in Nat
           /\ q = <<>> <=> Len(q) = 0
           /\ q # <<>> => /\ Head(q) = q[1]
                          /\ Len(Tail(q)) = Len(q) - 1
                          /\ Len(q) = 1 => Tail(q) = <<>>
                          /\ Len(q) = 2 => Tail(q)[1] = q[2]
           /\ \A e \in S : /\ Len(Append(q, e)) = Len(q) + 1
                           /\ Append(q, e) # <<>>
                           /\ Append(q, e)[Len(q) + 1] = e
                           /\ \A i \in 1..Len(q) : Append(q, e)[i] = q[i]
<1>1. Len(q) \in Nat /\ (q = <<>> <=> Len(q) = 0)
  BY LenProperties, EmptySeq
<1>2. ASSUME q # <<>>
      PROVE  /\ Head(q) = q[1] /\ Tail(q) \in Seq(S)
             /\ Len(Tail(q)) = Len(q) - 1
             /\ \A i \in 1..Len(Tail(q)) : Tail(q)[i] = q[i + 1]
  BY <1>2, HeadTailProperties
<1>3. ASSUME q # <<>>, Len(q) = 1 PROVE Tail(q) = <<>>
  <2>1. Tail(q) \in Seq(S) /\ Len(Tail(q)) = 0
    BY <1>2, <1>3
  <2> QED  BY <2>1, EmptySeq
<1>4. ASSUME q # <<>>, Len(q) = 2 PROVE Tail(q)[1] = q[2]
  BY <1>2, <1>4
<1>5. \A e \in S : /\ Append(q, e) \in Seq(S)
                   /\ Len(Append(q, e)) = Len(q) + 1
                   /\ \A i \in 1..Len(q) : Append(q, e)[i] = q[i]
                   /\ Append(q, e)[Len(q) + 1] = e
  BY AppendProperties
<1>6. \A e \in S : Append(q, e) # <<>>
  BY <1>1, <1>5, EmptySeq
<1> QED  BY <1>1, <1>2, <1>3, <1>4, <1>5, <1>6

\* A list agrees with itself and with what it grows into.
LEMMA AgreesGrows ==
    ASSUME NEW S, NEW s \in Seq(S), NEW t \in Seq(S)
    PROVE  /\ Agrees(s, s)
           /\ Agrees(s, t) => \A e \in S : Agrees(s, Append(t, e))
BY QueueAt DEF Agrees

\* Agreement is the community modules' IsPrefix.
LEMMA AgreesIsPrefix ==
    ASSUME NEW S, NEW s \in Seq(S), NEW t \in Seq(S), Agrees(s, t)
    PROVE  IsPrefix(s, t)
<1>1. Len(s) \in Nat /\ Len(t) \in Nat /\ Len(s) <= Len(t)
  BY LenProperties DEF Agrees
<1>2. /\ \A i \in 1..Len(s) : s[i] \in S
      /\ \A i \in 1..Len(s) : t[i] \in S
  BY <1>1, ElementOfSeq
<1>3. /\ SubSeq(s, 1, Len(s)) \in Seq(S)
      /\ Len(SubSeq(s, 1, Len(s))) = Len(s)
      /\ \A i \in 1..Len(s) : SubSeq(s, 1, Len(s))[i] = s[i]
  BY <1>1, <1>2, SubSeqProperties
<1>4. /\ SubSeq(t, 1, Len(s)) \in Seq(S)
      /\ Len(SubSeq(t, 1, Len(s))) = Len(s)
      /\ \A i \in 1..Len(s) : SubSeq(t, 1, Len(s))[i] = t[i]
  BY <1>1, <1>2, SubSeqProperties
<1>5. SubSeq(s, 1, Len(s)) = SubSeq(t, 1, Len(s))
  BY <1>3, <1>4, SeqEqual DEF Agrees
<1> QED  BY <1>1, <1>5 DEF IsPrefix

\* The pipes as sequences of messages.
LEMMA PipesAt ==
    ASSUME Typed
    PROVE  /\ toWorker \in Seq(ToWorker) /\ fromWorker \in Seq(FromWorker)
           /\ Len(toWorker) \in Nat /\ Len(fromWorker) \in Nat
           /\ toWorker = <<>> <=> Len(toWorker) = 0
           /\ fromWorker = <<>> <=> Len(fromWorker) = 0
           /\ toWorker # <<>> => /\ Head(toWorker) = toWorker[1]
                                 /\ toWorker[1] \in ToWorker
           /\ fromWorker # <<>> => /\ Head(fromWorker) = fromWorker[1]
                                   /\ fromWorker[1] \in FromWorker
<1>1. toWorker \in Seq(ToWorker) /\ fromWorker \in Seq(FromWorker)
  BY TypedSuffices DEF TypeOK
<1> QED  BY <1>1, QueueAt, ElementOfSeq

-----------------------------------------------------------------------------
(***************************************************************************)
(* The worker.                                                             *)
(***************************************************************************)

\* What a message becomes once it is read or written, in the terms above.
LEMMA WorkerQueues ==
    ASSUME Typed
    PROVE  /\ toWorker # <<>> /\ toWorker' = Tail(toWorker) =>
                /\ Len(toWorker) = 1 => toWorker' = <<>> /\ Len(toWorker') = 0
                /\ Len(toWorker) = 2 => /\ Len(toWorker') = 1
                                        /\ toWorker'[1] = toWorker[2]
           /\ \A m \in FromWorker : fromWorker' = Append(fromWorker, m) =>
                /\ fromWorker' # <<>> /\ Len(fromWorker') = Len(fromWorker) + 1
                /\ fromWorker'[1] = IF fromWorker = <<>> THEN m ELSE fromWorker[1]
<1>1. toWorker \in Seq(ToWorker) /\ fromWorker \in Seq(FromWorker)
  BY PipesAt
<1>2. ASSUME toWorker # <<>>, toWorker' = Tail(toWorker)
      PROVE  /\ Len(toWorker) = 1 => toWorker' = <<>> /\ Len(toWorker') = 0
             /\ Len(toWorker) = 2 => /\ Len(toWorker') = 1
                                     /\ toWorker'[1] = toWorker[2]
  BY <1>1, <1>2, QueueAt
<1>3. ASSUME NEW m \in FromWorker, fromWorker' = Append(fromWorker, m)
      PROVE  /\ fromWorker' # <<>> /\ Len(fromWorker') = Len(fromWorker) + 1
             /\ fromWorker'[1] = IF fromWorker = <<>> THEN m ELSE fromWorker[1]
  <2>1. Len(fromWorker) \in Nat /\ (fromWorker = <<>> <=> Len(fromWorker) = 0)
    BY <1>1, QueueAt
  <2>2. /\ fromWorker' # <<>> /\ Len(fromWorker') = Len(fromWorker) + 1
        /\ fromWorker'[Len(fromWorker) + 1] = m
        /\ \A i \in 1..Len(fromWorker) : fromWorker'[i] = fromWorker[i]
    BY <1>1, <1>3, QueueAt
  <2> QED  BY <2>1, <2>2
<1> QED  BY <1>2, <1>3

\* A worker that is told of a generation, or finds something else.
LEMMA DispatchKeeps == Exchange /\ Dispatch => Protocol'
<1> SUFFICES ASSUME Exchange, Dispatch PROVE Protocol'
  OBVIOUS
<1>0. Typed /\ Protocol
  BY DEF Exchange
<1>1. /\ Head(toWorker) = toWorker[1] /\ toWorker # <<>>
      /\ Len(toWorker) \in Nat /\ Len(toWorker) # 0
  BY <1>0, PipesAt DEF Dispatch
<1>2. /\ Len(toWorker) = 1 => toWorker' = <<>> /\ Len(toWorker') = 0
      /\ Len(toWorker) = 2 => Len(toWorker') = 1 /\ toWorker'[1] = toWorker[2]
  BY <1>0, <1>1, WorkerQueues DEF Dispatch
<1>3. /\ UNCHANGED <<hpc, gen, reusable, cancelEvent, detailService, fromWorker,
                     announced, delivered, window>>
      /\ wpc = "dispatch"
      /\ \/ /\ toWorker[1].op = "Start" /\ wpc' = "work"
            /\ wgen' = toWorker[1].gen /\ wdetail' = toWorker[1].arg
         \/ /\ toWorker[1].op # "Start" /\ wpc' = "exited"
            /\ UNCHANGED <<wgen, wdetail>>
  BY <1>1 DEF Dispatch, hostVars, dataVars
<1>4. ASSUME hpc \in Running PROVE InSync'
  <2>0. InSync
    BY <1>0, <1>4 DEF Protocol
  <2>1. CASE Unread /\ Len(toWorker) = 1
    <3>1. toWorker[1] = Message("Start", gen, detailService)
      BY <2>1 DEF Unread
    <3>2. /\ wpc' = "work" /\ wgen' = gen /\ wdetail' = detailService
          /\ fromWorker = <<>>
      BY <1>3, <2>0, <2>1, <3>1 DEF Message, InSync
    <3>3. Answers' /\ ~Unread'
      BY <1>2, <2>1 DEF Answers, Unread
    <3> QED  BY <1>3, <3>2, <3>3 DEF InSync
  <2>2. CASE Unread /\ Len(toWorker) = 2
    <3>1. /\ toWorker[2] = Message("Start", gen, detailService)
          /\ toWorker[1].op # "Start"
      BY <2>2 DEF Unread
    <3>2. Unread' /\ wpc' = "exited" /\ wgen' = wgen
      BY <1>2, <1>3, <2>2, <3>1 DEF Unread
    <3> QED  BY <1>3, <2>0, <2>2, <3>2 DEF InSync, Parked, Gone
  <2>3. CASE Answers
    <3>1. Len(toWorker) = 1 /\ toWorker[1].op # "Start"
      BY <1>1, <2>3 DEF Answers
    <3>2. wpc' = "exited" /\ ~Unread' /\ Answers'
      BY <1>2, <1>3, <3>1 DEF Unread, Answers
    <3> QED  BY <1>3, <2>0, <3>2 DEF InSync, Parked, Gone
  <2> QED  BY <2>0, <2>1, <2>2, <2>3 DEF InSync, Unread
<1>5. ASSUME hpc \in Live PROVE OneTurn'
  <2>1. InSync /\ OneTurn
    BY <1>0, <1>5 DEF Protocol, Running
  <2>2. Undelivered' <=> Undelivered
    BY <1>3 DEF Undelivered
  <2>3. ASSUME toWorker[1].op = "Start"
        PROVE  hpc = "read" /\ toWorker' = <<>>
    <3>1. Len(toWorker) = 1
      BY <1>1, <2>1, <2>3 DEF InSync, Unread, Answers
    <3>2. hpc \notin {"ack", "detail"}
      BY <1>1, <2>1 DEF OneTurn
    <3>3. hpc # "detailRead"
      BY <1>1, <2>1, <2>3 DEF OneTurn, Message
    <3> QED  BY <1>2, <1>5, <3>1, <3>2, <3>3 DEF Live
  <2>4. fromWorker = <<>>
    BY <1>1, <2>1 DEF OneTurn
  <2>5. wpc' \in {"work", "exited"}
    BY <1>3
  <2>6. ASSUME hpc = "detailRead" PROVE toWorker' = <<>> /\ Answers'
    BY <1>1, <1>2, <2>1, <2>6 DEF OneTurn, Answers
  <2> QED  BY <1>1, <1>3, <2>1, <2>2, <2>3, <2>4, <2>5, <2>6
           DEF OneTurn, Parked, Gone
<1>6. ASSUME AtRest PROVE AtRest'
  BY <1>1, <1>2, <1>3, <1>6 DEF AtRest, Answers, Parked, Gone
<1> QED  BY <1>0, <1>3, <1>4, <1>5, <1>6 DEF Protocol

\* What the worker says, by its place in the program.
LEMMA WorkerSays ==
    ASSUME Typed, wpc \in Serving
    PROVE  /\ \A b \in BOOLEAN : Message("GenerationError", wgen, b) \in FromWorker
           /\ Message("BatchReady", wgen, wbatch) \in FromWorker
           /\ Message("ChunksReady", wgen, wbatch) \in FromWorker
           /\ Message("ChunksReady", wgen, Detail) \in FromWorker
           /\ Message("RequestSidecar", wgen, 0) \in FromWorker
<1>1. /\ wgen \in Generations
      /\ wbatch \in Contents /\ Detail \in Contents /\ 0 \in Contents
  BY SessionAssumption DEF Typed, Control, Contents, Detail
<1> QED  BY <1>1, Messages

\* A worker at work asks for a sidecar, or ends in an error.
LEMMA WorkKeeps ==
    Exchange /\ (PublishBatch \/ FinishOk \/ RequestSidecar \/ FinishError)
        => Protocol'
<1> SUFFICES ASSUME Exchange,
                    PublishBatch \/ FinishOk \/ RequestSidecar \/ FinishError
             PROVE  Protocol'
  OBVIOUS
<1>01. /\ wpc = "work"
       /\ UNCHANGED <<hpc, gen, reusable, cancelEvent, detailService, wgen,
                      wdetail, toWorker, delivered>>
  BY DEF PublishBatch, FinishOk, RequestSidecar, FinishError, Report, hostVars,
     dataVars
<1>0. /\ wpc = "work" /\ wpc \in Serving /\ wpc \notin Parked /\ Typed /\ Protocol
      /\ UNCHANGED <<hpc, gen, reusable, cancelEvent, detailService, wgen,
                     wdetail, toWorker, delivered>>
  BY <1>01 DEF Serving, Parked, Gone, Exchange
<1>1. PICK m \in FromWorker :
          /\ fromWorker' = Append(fromWorker, m)
          /\ \/ /\ m.op = "BatchReady" /\ wpc' = "awaitAck" /\ Write(wbatch)
             \/ /\ m.op = "ChunksReady" /\ Write(wbatch)
                /\ wpc' = IF wdetail THEN "awaitDetail" ELSE "dispatch"
             \/ /\ m.op = "RequestSidecar" /\ wpc' = "awaitSidecar"
                /\ UNCHANGED <<window, announced>>
             \/ /\ m.op = "GenerationError" /\ wpc' = "dispatch"
                /\ UNCHANGED <<window, announced>>
  BY <1>0, WorkerSays DEF PublishBatch, FinishOk, RequestSidecar, FinishError,
     Reply, Report, AfterPublish, Message, dataVars
<1>2. /\ fromWorker' # <<>> /\ Len(fromWorker') = Len(fromWorker) + 1
      /\ fromWorker'[1] = IF fromWorker = <<>> THEN m ELSE fromWorker[1]
      /\ fromWorker = <<>> <=> Len(fromWorker) = 0
  BY <1>0, <1>1, WorkerQueues, PipesAt
<1>3. ASSUME hpc \in Running PROVE InSync'
  <2>1. /\ ~Unread /\ Answers /\ wgen = gen /\ wdetail = detailService
        /\ fromWorker # <<>> => fromWorker[1].op # "GenerationError"
    BY <1>0, <1>3 DEF Protocol, InSync, Parked, Gone
  <2>2. ~Unread' /\ Answers'
    BY <1>0, <2>1 DEF Unread, Answers
  <2>3. wpc' = "awaitDetail" => detailService = TRUE
    BY <1>0, <1>1, <2>1 DEF Typed, Flags
  <2> QED  BY <1>0, <1>1, <1>2, <2>1, <2>2, <2>3 DEF InSync, Parked, Gone
<1>4. ASSUME hpc \in Live PROVE OneTurn'
  <2>1. InSync /\ OneTurn
    BY <1>0, <1>4 DEF Protocol, Running
  <2>2. /\ toWorker = <<>> /\ fromWorker = <<>> /\ hpc = "read" /\ wgen = gen
        /\ gen \in Generations
        /\ announced[gen] = delivered[gen]
    BY <1>0, <2>1 DEF OneTurn, InSync, Undelivered, Typed, Control, Serving
  <2>3. announced'[gen] = IF m.op \in {"BatchReady", "ChunksReady"}
                          THEN Append(delivered[gen], window') ELSE delivered[gen]
    BY <1>0, <1>1, <2>2 DEF Write, Typed, Batches
  <2>4. fromWorker'[1] = m /\ Len(fromWorker') = 1
    BY <1>2, <2>2
  <2>5. Undelivered' <=> m.op \in {"BatchReady", "ChunksReady"}
    BY <1>2, <2>4 DEF Undelivered
  <2>6. m.op = "ChunksReady" => wpc' \in Parked
    BY <1>1 DEF Parked
  <2> QED  BY <1>0, <1>1, <1>2, <2>1, <2>2, <2>3, <2>4, <2>5, <2>6 DEF OneTurn
<1> QED  BY <1>0, <1>3, <1>4 DEF Protocol, AtRest

\* A worker that waits gets its answer, and works on or gives up.
LEMMA AnswerKeeps == Exchange /\ (AckRead \/ SidecarRead) => Protocol'
<1> SUFFICES ASSUME Exchange, AckRead \/ SidecarRead PROVE Protocol'
  OBVIOUS
<1>01. /\ wpc \in {"awaitAck", "awaitSidecar"}
       /\ toWorker # <<>> /\ toWorker' = Tail(toWorker)
       /\ UNCHANGED <<hpc, gen, reusable, cancelEvent, detailService, wgen,
                      wdetail, delivered, announced, window>>
  BY DEF AckRead, SidecarRead, hostVars, dataVars
<1>0. /\ wpc \in Serving /\ wpc \notin Parked /\ Typed /\ Protocol
      /\ Len(toWorker) \in Nat /\ Len(toWorker) # 0
      /\ fromWorker = <<>> <=> Len(fromWorker) = 0
  BY <1>01, PipesAt DEF Serving, Parked, Gone, Exchange
<1>1. \/ wpc' = "work" /\ UNCHANGED fromWorker
      \/ /\ wpc' = "dispatch"
         /\ \E m \in FromWorker : /\ fromWorker' = Append(fromWorker, m)
                                  /\ m.op = "GenerationError"
  BY <1>0, WorkerSays DEF AckRead, SidecarRead, Reply, Report, Message
<1>2. \/ wpc' = "work" /\ UNCHANGED fromWorker
      \/ /\ wpc' = "dispatch"
         /\ fromWorker' # <<>> /\ Len(fromWorker') = Len(fromWorker) + 1
         /\ IF fromWorker = <<>> THEN fromWorker'[1].op = "GenerationError"
                                 ELSE fromWorker'[1] = fromWorker[1]
  BY <1>0, <1>1, WorkerQueues
<1>3. Len(toWorker) = 1 => toWorker' = <<>> /\ Len(toWorker') = 0
  BY <1>0, <1>01, WorkerQueues
<1>4. ASSUME hpc \in Running PROVE InSync' /\ Len(toWorker) = 1
  <2>1. /\ ~Unread /\ Answers /\ wgen = gen /\ wdetail = detailService
        /\ fromWorker # <<>> => fromWorker[1].op # "GenerationError"
    BY <1>0, <1>01, <1>4 DEF Protocol, InSync, Parked, Gone
  <2>2. Len(toWorker) = 1
    BY <1>0, <2>1 DEF Answers
  <2>3. ~Unread' /\ Answers'
    BY <1>3, <2>2 DEF Unread, Answers
  <2>4. fromWorker' # <<>> /\ fromWorker'[1].op = "GenerationError" =>
          Len(fromWorker') = 1 /\ wpc' = "dispatch"
    <3>1. CASE fromWorker = <<>>
      BY <1>0, <1>2, <3>1
    <3>2. CASE fromWorker # <<>>
      BY <1>2, <2>1, <3>2
    <3> QED  BY <3>1, <3>2
  <2>5. wpc' # "awaitDetail"
    BY <1>2
  <2> QED  BY <1>01, <2>1, <2>2, <2>3, <2>4, <2>5 DEF InSync
<1>5. ASSUME hpc \in Live PROVE OneTurn'
  <2>1. OneTurn /\ toWorker' = <<>>
    BY <1>0, <1>3, <1>4, <1>5 DEF Protocol, Running
  <2>2. fromWorker = <<>> /\ hpc = "read" /\ announced[gen] = delivered[gen]
    BY <1>0, <1>01, <1>5, <2>1 DEF OneTurn, Live, Undelivered
  <2>3. /\ ~Undelivered'
        /\ fromWorker' # <<>> => fromWorker'[1].op = "GenerationError"
    BY <1>2, <2>2 DEF Undelivered
  <2>4. Len(fromWorker') \in {0, 1}
    BY <1>0, <1>2, <2>2
  <2> QED  BY <1>01, <1>2, <2>1, <2>2, <2>3, <2>4 DEF OneTurn
<1> QED  BY <1>0, <1>01, <1>4, <1>5 DEF Protocol, AtRest

\* The event stops only a generation the host no longer takes batches of.
LEMMA CancelledKeeps == Exchange /\ WorkCancelled => Protocol'
<1> SUFFICES ASSUME Exchange, WorkCancelled PROVE Protocol'
  OBVIOUS
<1>01. /\ wpc \in {"work", "awaitAck", "awaitDetail"} /\ wgen = gen
       /\ cancelEvent # FALSE /\ wpc' = "dispatch"
       /\ UNCHANGED <<hpc, gen, reusable, cancelEvent, detailService, wgen,
                      wdetail, toWorker>>
  BY DEF WorkCancelled, WorkerSees, Report, hostVars, dataVars
<1>0. wpc \in Serving /\ Typed /\ Protocol
      /\ (fromWorker = <<>> <=> Len(fromWorker) = 0)
  BY <1>01, PipesAt DEF Serving, Exchange
<1>1. \E m \in FromWorker : /\ fromWorker' = Append(fromWorker, m)
                            /\ m.op = "GenerationError"
  BY <1>0, WorkerSays DEF WorkCancelled, Reply, Report, Message
<1>2. /\ fromWorker' # <<>> /\ Len(fromWorker') = Len(fromWorker) + 1
      /\ IF fromWorker = <<>> THEN fromWorker'[1].op = "GenerationError"
                              ELSE fromWorker'[1] = fromWorker[1]
  BY <1>0, <1>1, WorkerQueues
<1>3. ASSUME hpc \in Running PROVE InSync'
  <2>1. /\ ~Unread /\ Answers
        /\ fromWorker # <<>> => fromWorker[1].op # "GenerationError"
    BY <1>0, <1>01, <1>3 DEF Protocol, InSync, Gone
  <2>2. ~Unread' /\ Answers'
    BY <1>01, <2>1 DEF Unread, Answers
  <2> QED  BY <1>0, <1>01, <1>2, <2>1, <2>2 DEF InSync, Parked, Gone
<1>4. hpc \notin Live
  BY <1>0, <1>01 DEF Protocol, OneTurn
<1>5. ~AtRest
  BY <1>01 DEF AtRest, Parked, Gone
<1> QED  BY <1>0, <1>01, <1>3, <1>4, <1>5 DEF Protocol

\* A worker in the detail replay serves a region, fails, or leaves it.
LEMMA DetailKeeps == Exchange /\ DetailRead => Protocol'
<1> SUFFICES ASSUME Exchange, DetailRead PROVE Protocol'
  OBVIOUS
<1>01. /\ wpc = "awaitDetail" /\ toWorker # <<>> /\ toWorker' = Tail(toWorker)
       /\ UNCHANGED <<hpc, gen, reusable, cancelEvent, detailService, wgen,
                      wdetail, delivered>>
  BY DEF DetailRead, Report, hostVars
<1>0. /\ wpc \in Serving /\ Typed /\ Protocol
      /\ Head(toWorker) = toWorker[1] /\ Len(toWorker) \in Nat /\ Len(toWorker) # 0
      /\ fromWorker = <<>> <=> Len(fromWorker) = 0
  BY <1>01, PipesAt DEF Serving, Exchange
<1>1. \/ /\ toWorker[1].op = "RequestDetail"
         /\ \E m \in FromWorker :
              /\ fromWorker' = Append(fromWorker, m)
              /\ \/ m.op = "ChunksReady" /\ Write(Detail) /\ wpc' = wpc
                 \/ /\ m.op = "GenerationError" /\ wpc' = "dispatch"
                    /\ UNCHANGED <<window, announced>>
      \/ /\ toWorker[1] # Message("RequestDetail", wgen, 0)
         /\ wpc' = "dispatch" /\ UNCHANGED <<window, announced, fromWorker>>
  <2>1. /\ Message("ChunksReady", wgen, Detail) \in FromWorker
        /\ Message("GenerationError", wgen, FALSE) \in FromWorker
    BY <1>0, WorkerSays
  <2>2. \/ /\ toWorker[1] = Message("RequestDetail", wgen, 0)
           /\ fromWorker' = Append(fromWorker, Message("ChunksReady", wgen, Detail))
           /\ Write(Detail) /\ wpc' = wpc
        \/ /\ toWorker[1] = Message("RequestDetail", wgen, 0)
           /\ fromWorker' = Append(fromWorker, Message("GenerationError", wgen, FALSE))
           /\ wpc' = "dispatch" /\ UNCHANGED <<window, announced>>
        \/ /\ toWorker[1] # Message("RequestDetail", wgen, 0)
           /\ wpc' = "dispatch" /\ UNCHANGED <<window, announced, fromWorker>>
    BY <1>0 DEF DetailRead, Reply, Report
  <2>3. /\ Message("RequestDetail", wgen, 0).op = "RequestDetail"
        /\ Message("ChunksReady", wgen, Detail).op = "ChunksReady"
        /\ Message("GenerationError", wgen, FALSE).op = "GenerationError"
    BY DEF Message
  <2> QED  BY <2>1, <2>2, <2>3
<1>2. \/ /\ toWorker[1].op = "RequestDetail"
         /\ \E m \in FromWorker :
              /\ fromWorker' # <<>> /\ Len(fromWorker') = Len(fromWorker) + 1
              /\ fromWorker'[1] = IF fromWorker = <<>> THEN m ELSE fromWorker[1]
              /\ \/ m.op = "ChunksReady" /\ Write(Detail) /\ wpc' = wpc
                 \/ /\ m.op = "GenerationError" /\ wpc' = "dispatch"
                    /\ UNCHANGED <<window, announced>>
      \/ /\ toWorker[1] # Message("RequestDetail", wgen, 0)
         /\ wpc' = "dispatch" /\ UNCHANGED <<window, announced, fromWorker>>
  BY <1>0, <1>1, WorkerQueues
<1>3. /\ Len(toWorker) = 1 => toWorker' = <<>> /\ Len(toWorker') = 0
      /\ Len(toWorker) = 2 => Len(toWorker') = 1 /\ toWorker'[1] = toWorker[2]
  BY <1>0, <1>01, WorkerQueues
<1>4. ASSUME hpc \in Running PROVE InSync'
  <2>0. InSync
    BY <1>0, <1>4 DEF Protocol
  <2>1. CASE Unread
    <3>1. /\ Len(toWorker) = 2 /\ toWorker[1].op = "EndDetail"
          /\ fromWorker = <<>> /\ wgen # gen
          /\ toWorker[2] = Message("Start", gen, detailService)
      BY <1>01, <2>0, <2>1 DEF InSync, Unread
    <3>2. wpc' = "dispatch" /\ UNCHANGED fromWorker
      BY <1>2, <3>1
    <3>3. Unread'
      BY <1>01, <1>3, <3>1 DEF Unread
    <3> QED  BY <1>01, <3>1, <3>2, <3>3 DEF InSync, Parked, Gone
  <2>2. CASE ~Unread
    <3>1. /\ Answers /\ wgen = gen /\ detailService = TRUE
          /\ fromWorker # <<>> => fromWorker[1].op # "GenerationError"
      BY <1>01, <2>0, <2>2 DEF InSync, Gone
    <3>2. Answers' /\ ~Unread'
      BY <1>0, <1>3, <3>1 DEF Answers, Unread
    <3>3. fromWorker' # <<>> /\ fromWorker'[1].op = "GenerationError" =>
            Len(fromWorker') = 1 /\ wpc' = "dispatch"
      <4>1. CASE fromWorker = <<>>
        BY <1>0, <1>2, <4>1
      <4>2. CASE fromWorker # <<>>
        BY <1>2, <3>1, <4>2
      <4> QED  BY <4>1, <4>2
    <3>4. wpc' \in {"dispatch", "awaitDetail"}
      BY <1>01, <1>2
    <3> QED  BY <1>01, <3>1, <3>2, <3>3, <3>4 DEF InSync, Parked
  <2> QED  BY <2>1, <2>2
<1>5. ASSUME hpc \in Live PROVE OneTurn'
  <2>1. InSync /\ OneTurn
    BY <1>0, <1>5 DEF Protocol, Running
  <2>2. fromWorker = <<>> /\ hpc \in {"read", "detailRead"}
    BY <1>01, <1>5, <2>1 DEF OneTurn, Live
  <2>3. announced[gen] = delivered[gen]
    BY <2>1, <2>2 DEF OneTurn, Undelivered
  <2>4. hpc = "detailRead" => Len(toWorker) = 1 /\ ~Unread /\ wgen = gen
    BY <1>0, <1>01, <2>1, <2>2 DEF OneTurn, Answers, InSync, Unread, Message
  <2>5. ASSUME NEW m \in FromWorker, m.op = "ChunksReady", Write(Detail),
               toWorker[1].op = "RequestDetail", wpc' = wpc,
               fromWorker' # <<>>, Len(fromWorker') = 1, fromWorker'[1] = m
        PROVE  OneTurn'
    <3>1. Answers /\ wgen = gen /\ gen \in Generations
      BY <1>0, <1>01, <2>1, <2>5 DEF InSync, Typed, Control
    <3>2. toWorker' = <<>> /\ Answers'
      BY <1>0, <1>3, <3>1 DEF Answers
    <3>3. announced'[gen] = Append(delivered[gen], window')
      BY <1>0, <2>3, <2>5, <3>1 DEF Write, Typed, Batches
    <3>4. Undelivered'
      BY <2>5 DEF Undelivered
    <3> QED  BY <1>01, <2>1, <2>2, <2>5, <3>2, <3>3, <3>4 DEF OneTurn, Parked, Gone
  <2>6. ASSUME NEW m \in FromWorker, m.op = "GenerationError",
               wpc' = "dispatch", UNCHANGED <<window, announced>>,
               toWorker[1].op = "RequestDetail",
               fromWorker' # <<>>, Len(fromWorker') = 1, fromWorker'[1] = m
        PROVE  OneTurn'
    <3>1. Answers
      BY <1>0, <1>01, <2>1, <2>6 DEF InSync
    <3>2. toWorker' = <<>> /\ Answers'
      BY <1>0, <1>3, <3>1 DEF Answers
    <3>3. ~Undelivered'
      BY <2>6 DEF Undelivered
    <3> QED  BY <1>01, <2>1, <2>2, <2>3, <2>6, <3>2, <3>3 DEF OneTurn, Parked, Gone
  <2>7. ASSUME toWorker[1] # Message("RequestDetail", wgen, 0),
               wpc' = "dispatch", UNCHANGED <<window, announced, fromWorker>>
        PROVE  OneTurn'
    <3>1. hpc = "read"
      BY <1>01, <2>1, <2>2, <2>4, <2>7 DEF OneTurn
    <3>2. /\ ~Undelivered' /\ fromWorker' = <<>> /\ Len(fromWorker') \in {0, 1}
      BY <2>1, <2>2, <2>7 DEF Undelivered, OneTurn
    <3>3. toWorker' # <<>>
      <4>1. CASE Unread
        <5>1. Len(toWorker') = 1
          BY <1>01, <1>3, <2>1, <4>1 DEF InSync
        <5> QED  BY <5>1, EmptySeq
      <4>2. CASE ~Unread
        BY <1>01, <2>1, <2>2, <3>1, <4>2 DEF OneTurn
      <4> QED  BY <4>1, <4>2
    <3> QED  BY <1>01, <2>1, <2>3, <2>7, <3>1, <3>2, <3>3 DEF OneTurn
  <2> QED  BY <1>0, <1>2, <2>2, <2>5, <2>6, <2>7
<1>6. ASSUME AtRest PROVE AtRest'
  <2>1. /\ Len(toWorker) = 1 /\ toWorker[1].op # "RequestDetail"
        /\ fromWorker = <<>>
    BY <1>01, <1>6 DEF AtRest, Message
  <2>2. wpc' = "dispatch" /\ UNCHANGED fromWorker
    BY <1>2, <2>1
  <2> QED  BY <1>3, <2>1, <2>2 DEF AtRest, Answers, Parked, Gone
<1> QED  BY <1>0, <1>01, <1>4, <1>5, <1>6 DEF Protocol

-----------------------------------------------------------------------------
(***************************************************************************)
(* The import thread.                                                      *)
(***************************************************************************)

\* A session that gives its worker up owes nothing.
LEMMA GivenUp == hpc' = "release" /\ reusable' = FALSE => Protocol'
BY DEF Protocol, Running, Live

\* What an empty pair of pipes means.
LEMMA NothingUnderWay ==
    ASSUME toWorker = <<>>
    PROVE  Len(toWorker) = 0 /\ Answers /\ ~Unread
BY EmptySeq DEF Answers, Unread

\* The next session on the worker that is at hand.
LEMMA StartKeeps == Exchange /\ StartSession => Protocol'
<1> SUFFICES ASSUME Exchange, StartSession PROVE Protocol'
  OBVIOUS
<1>0. Typed /\ AtRest
  BY DEF Exchange, Protocol, StartSession
<1>1. CASE WriteFails
  BY <1>1, GivenUp DEF StartSession
<1>2. CASE ~WriteFails
  <2> DEFINE start == Message("Start", gen', detailService')
  <2>1. /\ gen' = gen + 1 /\ gen' \in Generations /\ wgen # gen'
    BY SessionAssumption, <1>0 DEF StartSession, Typed, Control, Generations
  <2>2. /\ hpc' = "read" /\ cancelEvent' = FALSE
        /\ toWorker' = Append(toWorker, start)
        /\ fromWorker' = <<>>
        /\ UNCHANGED <<wpc, wgen, wdetail, delivered, announced>>
    BY <1>0, <1>2 DEF StartSession, Send, AtRest, workerVars
  <2>3. start \in ToWorker
    BY <2>1, Messages DEF StartSession
  <2>4. /\ Len(toWorker) \in {0, 1}
        /\ Len(toWorker') = Len(toWorker) + 1 /\ toWorker' # <<>>
        /\ toWorker'[Len(toWorker) + 1] = start
        /\ Len(toWorker) = 1 => toWorker'[1] = toWorker[1]
    BY <1>0, <2>2, <2>3, PipesAt, QueueAt DEF AtRest, Answers
  <2>5. Unread'
    BY <1>0, <2>4 DEF AtRest, Answers, Unread
  <2>6. InSync'
    BY <1>0, <2>1, <2>2, <2>4, <2>5 DEF InSync, AtRest, Message
  <2>7. announced'[gen'] = delivered'[gen']
    BY <2>1, <2>2, SessionAssumption, <1>0
    DEF Exchange, Logs, Typed, Control, Generations
  <2>8. Len(fromWorker') = 0 /\ ~Undelivered'
    BY <2>2, EmptySeq DEF Undelivered
  <2>9. OneTurn'
    BY <1>0, <2>2, <2>4, <2>5, <2>7, <2>8 DEF OneTurn, AtRest, Parked, Gone
  <2> QED  BY <2>2, <2>6, <2>9 DEF Protocol
<1> QED  BY <1>1, <1>2

\* A reply the host of a running session takes is the only thing under way.
LEMMA OnlyReply ==
    ASSUME Exchange, hpc \in Live, fromWorker # <<>>
    PROVE  /\ Head(fromWorker) = fromWorker[1] /\ Tail(fromWorker) = <<>>
           /\ toWorker = <<>> /\ wpc # "work" /\ Answers /\ ~Unread
           /\ InSync /\ OneTurn /\ gen \in Generations
<1>1. Typed /\ InSync /\ OneTurn
  BY DEF Exchange, Protocol, Running
<1>2. Len(fromWorker) = 1
  BY <1>1, PipesAt DEF OneTurn
<1>3. Tail(fromWorker) = <<>> /\ Head(fromWorker) = fromWorker[1]
  BY <1>1, <1>2, PipesAt, QueueAt
<1>4. gen \in Generations
  BY <1>1 DEF Typed, Control, Live
<1> QED  BY <1>1, <1>3, <1>4, NothingUnderWay DEF OneTurn

\* A batch that is taken is the one announced.
LEMMA Taken ==
    ASSUME Exchange, hpc \in Live, Undelivered, Deliver,
           UNCHANGED <<gen, announced>>
    PROVE  delivered'[gen] = announced[gen]
<1>1. OneTurn /\ gen \in Generations
  BY OnlyReply DEF Undelivered
<1>2. delivered'[gen] = Append(delivered[gen], window)
  BY <1>1 DEF Deliver, Exchange, Typed, Batches
<1> QED  BY <1>1, <1>2 DEF OneTurn

\* With nothing under way either side is in sync.
LEMMA QuietIsInSync ==
    ASSUME Exchange, InSync, ~Unread, UNCHANGED <<gen, wpc, wgen, wdetail,
           detailService>>, Answers', ~Unread', fromWorker' = <<>>
    PROVE  InSync'
BY DEF InSync

\* The batches: taken, refused, or too late.
LEMMA BatchKeeps == Exchange /\ ReadBatchReady => Protocol'
<1> SUFFICES ASSUME Exchange, ReadBatchReady PROVE Protocol'
  OBVIOUS
<1>1. \/ hpc' = "release" /\ reusable' = FALSE
      \/ /\ Deliver /\ hpc = "read"
         /\ hpc' = "grace" \/ (hpc' = "ack" /\ cancelEvent' = cancelEvent)
         /\ fromWorker # <<>> /\ fromWorker' = Tail(fromWorker)
         /\ Head(fromWorker).op = "BatchReady"
         /\ UNCHANGED <<gen, wpc, wgen, wdetail, detailService, toWorker,
                        announced>>
  <2>1. \A g, i : Message("BatchReady", g, i).op = "BatchReady"
    BY DEF Message
  <2>2. Probe => cancelRequested
    BY DEF Probe
  <2>3. cancelEvent \in BOOLEAN
    BY DEF Exchange, Typed, Flags
  <2> QED  BY <2>1, <2>2, <2>3 DEF ReadBatchReady, Receive, End, workerVars
<1>2. CASE hpc' = "release" /\ reusable' = FALSE
  BY <1>2, GivenUp
<1>3. CASE ~(hpc' = "release" /\ reusable' = FALSE)
  <2>1. /\ Head(fromWorker) = fromWorker[1] /\ fromWorker' = <<>>
        /\ toWorker = <<>> /\ Answers /\ ~Unread /\ InSync /\ OneTurn
        /\ gen \in Generations
    BY <1>1, <1>3, OnlyReply DEF Live
  <2>2. delivered'[gen] = announced[gen]
    BY <1>1, <1>3, <2>1, Taken DEF Undelivered, Live
  <2>3. Answers' /\ ~Unread'
    BY <1>1, <1>3, <2>1, EmptySeq DEF Answers, Unread
  <2>4. InSync'
    BY <1>1, <1>3, <2>1, <2>3, QuietIsInSync
  <2>5. hpc' = "ack" => OneTurn'
    <3>1. Len(fromWorker') = 0 /\ ~Undelivered'
      BY <2>1, EmptySeq DEF Undelivered
    <3>2. wpc \in {"awaitAck"} \cup Gone
      BY <1>1, <1>3, <2>1 DEF OneTurn
    <3> QED  BY <1>1, <1>3, <2>1, <2>2, <3>1, <3>2 DEF OneTurn, Gone
  <2> QED  BY <1>1, <1>3, <2>4, <2>5 DEF Protocol, Live
<1> QED  BY <1>2, <1>3

\* The last batch ends the session or begins the replay.
LEMMA ChunksKeep == Exchange /\ ReadChunksReady => Protocol'
<1> SUFFICES ASSUME Exchange, ReadChunksReady PROVE Protocol'
  OBVIOUS
<1>1. \/ hpc' = "release" /\ reusable' = FALSE
      \/ /\ Deliver /\ hpc = "read"
         /\ fromWorker # <<>> /\ fromWorker' = Tail(fromWorker)
         /\ Head(fromWorker).op = "ChunksReady"
         /\ UNCHANGED <<gen, wpc, wgen, wdetail, detailService, toWorker,
                        announced, cancelEvent>>
         /\ \/ hpc' = "detail"
            \/ hpc' = "release" /\ detailService # TRUE
  <2>1. \A g, i : Message("ChunksReady", g, i).op = "ChunksReady"
    BY DEF Message
  <2>2. cancelEvent \in BOOLEAN
    BY DEF Exchange, Typed, Flags
  <2>3. detailService \in BOOLEAN
    BY DEF Exchange, Typed, Flags
  <2>4. CASE Probe
    BY <2>1, <2>4 DEF ReadChunksReady, Receive, End
  <2>5. CASE ~Probe
    <3>1. (cancelEvent \/ Probe) = cancelEvent
      BY <2>2, <2>5
    <3>2. CASE detailService = TRUE
      BY <2>1, <2>5, <3>1, <3>2 DEF ReadChunksReady, Receive, End, workerVars
    <3>3. CASE detailService = FALSE
      <4>1. \/ End("rejected", FALSE)
            \/ /\ Deliver /\ End("complete", TRUE) /\ cancelEvent' = cancelEvent
        <5>1. \/ End("rejected", FALSE)
              \/ /\ Deliver /\ cancelEvent' = (cancelEvent \/ Probe)
                 /\ IF Probe THEN End("cancelled", FALSE)
                    ELSE IF detailService
                    THEN hpc' = "detail" /\ UNCHANGED <<outcome, reusable>>
                    ELSE End("complete", TRUE)
          BY DEF ReadChunksReady
        <5>2. ~detailService
          BY <3>3
        <5>3. \/ End("rejected", FALSE)
              \/ /\ Deliver /\ End("complete", TRUE)
                 /\ cancelEvent' = (cancelEvent \/ Probe)
          BY <2>5, <5>1, <5>2, Zenon
        <5>4. cancelEvent' = (cancelEvent \/ Probe) => cancelEvent' = cancelEvent
          BY <2>2, <2>5
        <5> QED  BY <5>3, <5>4, Zenon
      <4>2. /\ hpc = "read" /\ fromWorker # <<>> /\ fromWorker' = Tail(fromWorker)
            /\ Head(fromWorker).op = "ChunksReady"
            /\ UNCHANGED <<gen, wpc, wgen, wdetail, detailService, toWorker,
                           announced>>
        BY <2>1 DEF ReadChunksReady, Receive, workerVars
      <4>3. detailService # TRUE
        BY <3>3
      <4> QED  BY <4>1, <4>2, <4>3 DEF End
    <3> QED  BY <2>3, <3>2, <3>3
  <2> QED  BY <2>4, <2>5
<1>2. CASE hpc' = "release" /\ reusable' = FALSE
  BY <1>2, GivenUp
<1>3. CASE ~(hpc' = "release" /\ reusable' = FALSE)
  <2>1. /\ Head(fromWorker) = fromWorker[1] /\ fromWorker' = <<>>
        /\ toWorker = <<>> /\ Answers /\ ~Unread /\ InSync /\ OneTurn
        /\ gen \in Generations
    BY <1>1, <1>3, OnlyReply DEF Live
  <2>2. delivered'[gen] = announced[gen]
    BY <1>1, <1>3, <2>1, Taken DEF Undelivered, Live
  <2>3. Answers' /\ ~Unread'
    BY <1>1, <1>3, <2>1, EmptySeq DEF Answers, Unread
  <2>4. InSync'
    BY <1>1, <1>3, <2>1, <2>3, QuietIsInSync
  <2>5. wpc \in Parked
    BY <1>1, <1>3, <2>1 DEF OneTurn
  <2>6. hpc' = "detail" => OneTurn'
    <3>1. Len(fromWorker') = 0 /\ ~Undelivered'
      BY <2>1, EmptySeq DEF Undelivered
    <3> QED  BY <1>1, <1>3, <2>1, <2>2, <2>3, <2>5, <3>1 DEF OneTurn, Parked, Gone
  <2>7. hpc' = "release" => AtRest'
    BY <1>1, <1>3, <2>1, <2>3, <2>5 DEF AtRest, InSync
  <2> QED  BY <1>1, <1>3, <2>4, <2>6, <2>7 DEF Protocol, Live
<1> QED  BY <1>2, <1>3

\* A region of the replay.
LEMMA RegionKeeps == Exchange /\ ReadDetailReply => Protocol'
<1> SUFFICES ASSUME Exchange, ReadDetailReply PROVE Protocol'
  OBVIOUS
<1>1. \/ hpc' = "release" /\ reusable' = FALSE
      \/ /\ Deliver /\ hpc = "detailRead" /\ hpc' = "detail"
         /\ fromWorker # <<>> /\ fromWorker' = Tail(fromWorker)
         /\ Head(fromWorker).op = "ChunksReady"
         /\ UNCHANGED <<gen, wpc, wgen, wdetail, detailService, toWorker,
                        announced, cancelEvent>>
  BY DEF ReadDetailReply, End, workerVars
<1>2. CASE hpc' = "release" /\ reusable' = FALSE
  BY <1>2, GivenUp
<1>3. CASE ~(hpc' = "release" /\ reusable' = FALSE)
  <2>1. /\ Head(fromWorker) = fromWorker[1] /\ fromWorker' = <<>>
        /\ toWorker = <<>> /\ Answers /\ ~Unread /\ InSync /\ OneTurn
        /\ gen \in Generations
    BY <1>1, <1>3, OnlyReply DEF Live
  <2>2. delivered'[gen] = announced[gen]
    BY <1>1, <1>3, <2>1, Taken DEF Undelivered, Live
  <2>3. Answers' /\ ~Unread'
    BY <1>1, <1>3, <2>1, EmptySeq DEF Answers, Unread
  <2>4. InSync'
    BY <1>1, <1>3, <2>1, <2>3, QuietIsInSync
  <2>5. OneTurn'
    <3>1. Len(fromWorker') = 0 /\ ~Undelivered'
      BY <2>1, EmptySeq DEF Undelivered
    <3> QED  BY <1>1, <1>3, <2>1, <2>2, <2>3, <3>1 DEF OneTurn, Parked, Gone
  <2> QED  BY <1>1, <1>3, <2>4, <2>5 DEF Protocol, Live
<1> QED  BY <1>2, <1>3

\* What the host puts into an empty pipe.
LEMMA HostSays ==
    ASSUME Typed, hpc # "idle", toWorker = <<>>,
           NEW op \in {"Consumed", "Sidecar", "RequestDetail", "EndDetail"},
           NEW n \in Nat, Send(Message(op, gen, n)), UNCHANGED detailService
    PROVE  /\ Len(toWorker') = 1 /\ toWorker' # <<>>
           /\ toWorker'[1] = Message(op, gen, n)
           /\ Answers' /\ ~Unread'
<1>1. Message(op, gen, n) \in ToWorker
  BY Messages DEF Typed, Control
<1>2. /\ Len(toWorker') = 1 /\ toWorker' # <<>>
      /\ toWorker'[1] = Message(op, gen, n)
  <2>1. Len(toWorker) = 0 /\ toWorker \in Seq(ToWorker)
    BY EmptySeq, PipesAt
  <2> QED  BY <1>1, <2>1, QueueAt DEF Send
<1>3. toWorker'[1].op = op
  BY <1>2 DEF Message
<1> QED  BY <1>2, <1>3 DEF Answers, Unread, Message

\* The acknowledgement of a batch.
LEMMA AckKeeps == Exchange /\ WriteAck => Protocol'
<1> SUFFICES ASSUME Exchange, WriteAck PROVE Protocol'
  OBVIOUS
<1>0. /\ Typed /\ InSync /\ OneTurn /\ hpc = "ack" /\ gen \in Generations
      /\ toWorker = <<>> /\ fromWorker = <<>>
  BY DEF Exchange, Protocol, WriteAck, Running, Live, OneTurn, Typed, Control
<1>1. CASE WriteFails
  BY <1>1, GivenUp DEF WriteAck, End
<1>2. CASE ~WriteFails
  <2>1. /\ hpc' = "read" /\ Send(Message("Consumed", gen, Len(delivered[gen]) - 1))
        /\ UNCHANGED <<gen, wpc, wgen, wdetail, detailService, fromWorker,
                       announced, delivered, window, cancelEvent>>
    BY <1>2 DEF WriteAck, workerVars
  <2>2. Len(delivered[gen]) - 1 \in Nat
    BY <1>0, LenProperties DEF Typed, Batches
  <2>3. toWorker' # <<>> /\ Answers' /\ ~Unread'
    BY <1>0, <2>1, <2>2, HostSays
  <2>4. InSync'
    BY <1>0, <2>1, <2>3, QuietIsInSync, NothingUnderWay
  <2>5. OneTurn'
    <3>1. ~Undelivered /\ ~Undelivered'
      BY <1>0, <2>1 DEF Undelivered
    <3> QED  BY <1>0, <2>1, <2>3, <3>1 DEF OneTurn, Gone
  <2> QED  BY <2>1, <2>4, <2>5 DEF Protocol, Live
<1> QED  BY <1>1, <1>2

\* A sidecar and its answer.
LEMMA SidecarKeeps == Exchange /\ ReadSidecarRequest => Protocol'
<1> SUFFICES ASSUME Exchange, ReadSidecarRequest PROVE Protocol'
  OBVIOUS
<1>1. \/ hpc' = "release" /\ reusable' = FALSE
      \/ /\ hpc = "read" /\ hpc' = "read"
         /\ fromWorker # <<>> /\ fromWorker' = Tail(fromWorker)
         /\ Head(fromWorker).op = "RequestSidecar"
         /\ Send(Message("Sidecar", gen, 0))
         /\ UNCHANGED <<gen, wpc, wgen, wdetail, detailService,
                        announced, delivered, window, cancelEvent>>
  <2>1. \A g : Message("RequestSidecar", g, 0).op = "RequestSidecar"
    BY DEF Message
  <2> QED  BY <2>1 DEF ReadSidecarRequest, Receive, End, SidecarUnanswered,
              workerVars
<1>2. CASE hpc' = "release" /\ reusable' = FALSE
  BY <1>2, GivenUp
<1>3. CASE ~(hpc' = "release" /\ reusable' = FALSE)
  <2>1. /\ Head(fromWorker) = fromWorker[1] /\ fromWorker' = <<>>
        /\ toWorker = <<>> /\ Answers /\ ~Unread /\ InSync /\ OneTurn
        /\ wpc # "work" /\ Typed
    BY <1>1, <1>3, OnlyReply DEF Live, Exchange
  <2>2. toWorker' # <<>> /\ Answers' /\ ~Unread'
    BY <1>1, <1>3, <2>1, HostSays
  <2>3. InSync'
    BY <1>1, <1>3, <2>1, <2>2, QuietIsInSync
  <2>4. OneTurn'
    <3>1. Len(fromWorker') = 0 /\ ~Undelivered' /\ ~Undelivered
      BY <1>1, <1>3, <2>1, EmptySeq DEF Undelivered
    <3>2. wpc \in {"awaitSidecar"} \cup Gone
      BY <1>1, <1>3, <2>1 DEF OneTurn
    <3> QED  BY <1>1, <1>3, <2>1, <2>2, <3>1, <3>2 DEF OneTurn, Gone
  <2> QED  BY <1>1, <1>3, <2>3, <2>4 DEF Protocol, Live
<1> QED  BY <1>2, <1>3

\* An error of this generation puts the worker back into the pool.
LEMMA ErrorKeeps == Exchange /\ ReadGenerationError => Protocol'
<1> SUFFICES ASSUME Exchange, ReadGenerationError PROVE Protocol'
  OBVIOUS
<1>1. /\ hpc = "read" /\ hpc' = "release"
      /\ fromWorker # <<>> /\ fromWorker' = Tail(fromWorker)
      /\ Head(fromWorker).op = "GenerationError"
      /\ UNCHANGED <<gen, wpc, cancelEvent, toWorker>>
  <2>1. \A g, b : Message("GenerationError", g, b).op = "GenerationError"
    BY DEF Message
  <2> QED  BY <2>1 DEF ReadGenerationError, Receive, End, workerVars
<1>2. /\ Head(fromWorker) = fromWorker[1] /\ fromWorker' = <<>>
      /\ toWorker = <<>> /\ InSync /\ Answers
  BY <1>1, OnlyReply DEF Live
<1>3. wpc \in {"dispatch"} \cup Gone
  BY <1>1, <1>2 DEF InSync
<1>4. AtRest'
  BY <1>1, <1>2, <1>3, EmptySeq DEF AtRest, Answers, Parked, Gone
<1> QED  BY <1>1, <1>4 DEF Protocol, Running, Live

\* A wait that ends leaves the session, or only its grace.
LEMMA WaitKeeps ==
    Exchange /\ (WaitEnds("read", "grace") \/ WaitEnds("detailRead", "detailGrace"))
        => Protocol'
<1> SUFFICES ASSUME Exchange,
                    WaitEnds("read", "grace") \/ WaitEnds("detailRead", "detailGrace")
             PROVE  Protocol'
  OBVIOUS
<1>1. \/ hpc' = "release" /\ reusable' = FALSE
      \/ /\ hpc' \in {"grace", "detailGrace"}
         /\ hpc \in {"read", "detailRead"}
         /\ UNCHANGED <<gen, wpc, wgen, wdetail, detailService, toWorker,
                        fromWorker>>
  BY DEF WaitEnds, End, workerVars
<1>2. CASE hpc' = "release" /\ reusable' = FALSE
  BY <1>2, GivenUp
<1>3. CASE ~(hpc' = "release" /\ reusable' = FALSE)
  <2>1. InSync
    BY <1>1, <1>3 DEF Exchange, Protocol, Running, Live
  <2>2. (Unread' <=> Unread) /\ (Answers' <=> Answers)
    BY <1>1, <1>3 DEF Unread, Answers
  <2>3. InSync'
    BY <1>1, <1>3, <2>1, <2>2 DEF InSync
  <2> QED  BY <1>1, <1>3, <2>3 DEF Protocol, Live
<1> QED  BY <1>2, <1>3

\* The one message of the grace decides whether the worker is used again.
LEMMA GraceKeeps == Exchange /\ GraceEnds => Protocol'
<1> SUFFICES ASSUME Exchange, GraceEnds PROVE Protocol'
  OBVIOUS
<1>0. Typed /\ InSync
  BY DEF Exchange, Protocol, GraceEnds, Running
<1>1. CASE fromWorker = <<>>
  BY <1>1, GivenUp DEF GraceEnds, End
<1>2. CASE fromWorker # <<>>
  <2>1. /\ hpc' = "release" /\ fromWorker' = Tail(fromWorker)
        /\ reusable' = Acknowledges(Head(fromWorker))
        /\ UNCHANGED <<gen, wpc, cancelEvent, toWorker>>
    BY <1>2 DEF GraceEnds, End, workerVars
  <2>2. ASSUME reusable' = TRUE PROVE AtRest'
    <3>1. fromWorker[1].op = "GenerationError"
      BY <1>0, <1>2, <2>1, <2>2, PipesAt DEF Acknowledges
    <3>2. /\ Len(fromWorker) = 1 /\ wpc \in {"dispatch"} \cup Gone
          /\ Answers
      BY <1>0, <1>2, <3>1 DEF InSync
    <3>3. fromWorker' = <<>>
      BY <1>0, <1>2, <2>1, <3>2, PipesAt, QueueAt
    <3>4. Answers'
      BY <2>1, <3>2 DEF Answers
    <3> QED  BY <2>1, <3>2, <3>3, <3>4 DEF AtRest, Parked, Gone
  <2> QED  BY <2>1, <2>2 DEF Protocol, Running, Live
<1> QED  BY <1>1, <1>2

\* A turn of the replay loop.
LEMMA TurnKeeps == Exchange /\ DetailTurn => Protocol'
<1> SUFFICES ASSUME Exchange, DetailTurn PROVE Protocol'
  OBVIOUS
<1>0. /\ Typed /\ InSync /\ OneTurn /\ hpc = "detail" /\ ~Unread /\ Answers
      /\ toWorker = <<>> /\ fromWorker = <<>>
  BY NothingUnderWay DEF Exchange, Protocol, DetailTurn, Running, Live, OneTurn
<1>1. /\ UNCHANGED <<gen, wpc, wgen, wdetail, detailService, fromWorker,
                     announced, delivered, window>>
      /\ \/ hpc' = "release" /\ reusable' = FALSE
         \/ hpc' = "detailGrace" /\ UNCHANGED toWorker
         \/ /\ hpc' = "detailRead" /\ Send(Message("RequestDetail", gen, 0))
            /\ UNCHANGED cancelEvent
         \/ /\ hpc' = "release" /\ Send(Message("EndDetail", gen, 0))
            /\ UNCHANGED cancelEvent
  BY DEF DetailTurn, End, AfterRequest, workerVars
<1>2. CASE hpc' = "release" /\ reusable' = FALSE
  BY <1>2, GivenUp
<1>3. CASE hpc' = "detailGrace" /\ UNCHANGED toWorker
  <2>1. Answers' /\ ~Unread'
    BY <1>0, <1>1, <1>3 DEF Answers, Unread
  <2>2. InSync'
    BY <1>0, <1>1, <2>1, QuietIsInSync
  <2> QED  BY <1>3, <2>2 DEF Protocol, Live
<1>4. CASE /\ hpc' = "detailRead" /\ Send(Message("RequestDetail", gen, 0))
           /\ UNCHANGED cancelEvent
  <2>1. /\ Answers' /\ ~Unread' /\ toWorker' # <<>>
        /\ toWorker'[1] = Message("RequestDetail", gen, 0)
    BY <1>0, <1>1, <1>4, HostSays
  <2>2. InSync'
    BY <1>0, <1>1, <2>1, QuietIsInSync
  <2>3. ~Undelivered /\ ~Undelivered'
    BY <1>0, <1>1 DEF Undelivered
  <2>4. OneTurn'
    BY <1>0, <1>1, <1>4, <2>1, <2>3 DEF OneTurn, Parked, Gone
  <2> QED  BY <1>4, <2>2, <2>4 DEF Protocol, Live
<1>5. CASE /\ hpc' = "release" /\ Send(Message("EndDetail", gen, 0))
           /\ UNCHANGED cancelEvent
  <2>1. /\ Answers' /\ Len(toWorker') = 1
        /\ toWorker'[1] = Message("EndDetail", gen, 0)
    BY <1>0, <1>1, <1>5, HostSays
  <2>2. AtRest'
    BY <1>0, <1>1, <1>5, <2>1 DEF OneTurn, AtRest
  <2> QED  BY <1>5, <2>2 DEF Protocol, Running, Live
<1> QED  BY <1>1, <1>2, <1>3, <1>4, <1>5

\* The lease ends: the worker is at rest or is replaced.
LEMMA ReleaseKeeps == Exchange /\ ReleaseLease => Protocol'
<1> SUFFICES ASSUME Exchange, ReleaseLease PROVE Protocol'
  OBVIOUS
<1>0. hpc = "release" /\ hpc' = "idle" /\ UNCHANGED <<gen, cancelEvent>>
  BY DEF ReleaseLease
<1>1. reusable \in BOOLEAN
  BY DEF Exchange, Typed, Flags
<1>2. CASE reusable = TRUE
  <2>1. AtRest /\ UNCHANGED <<wpc, toWorker, fromWorker>>
    BY <1>0, <1>2 DEF Exchange, Protocol, ReleaseLease, workerVars
  <2>2. AtRest'
    BY <1>0, <2>1 DEF AtRest, Answers
  <2> QED  BY <1>0, <2>2 DEF Protocol, Running, Live
<1>3. CASE reusable = FALSE
  <2>1. wpc' = "dispatch" /\ toWorker' = <<>> /\ fromWorker' = <<>>
    BY <1>3 DEF ReleaseLease
  <2>2. AtRest'
    BY <2>1, EmptySeq DEF AtRest, Answers, Parked
  <2> QED  BY <1>0, <2>2 DEF Protocol, Running, Live
<1> QED  BY <1>1, <1>2, <1>3

\* The user, the clock, and the end of the worker.
LEMMA OthersKeep ==
    Exchange /\ (CancelRequest \/ DeadlinePasses \/ WorkerFails \/ UNCHANGED vars)
        => Protocol'
<1> SUFFICES ASSUME Exchange,
                    CancelRequest \/ DeadlinePasses \/ WorkerFails \/ UNCHANGED vars
             PROVE  Protocol'
  OBVIOUS
<1>1. /\ UNCHANGED <<hpc, gen, reusable, cancelEvent, detailService, wgen,
                     wdetail, toWorker, fromWorker, announced, delivered, window>>
      /\ wpc' = wpc \/ wpc' \in Gone
  BY DEF CancelRequest, DeadlinePasses, WorkerFails, vars, hostVars, workerVars,
     dataVars, Gone
<1>2. /\ Unread' <=> Unread
      /\ Answers' <=> Answers
      /\ Undelivered' <=> Undelivered
  BY <1>1 DEF Unread, Answers, Undelivered
<1>3. InSync => InSync'
  BY <1>1, <1>2 DEF InSync, Parked, Gone
<1>4. OneTurn => OneTurn'
  BY <1>1, <1>2 DEF OneTurn, Parked, Gone
<1>5. AtRest => AtRest'
  BY <1>1, <1>2 DEF AtRest, Parked, Gone
<1> QED  BY <1>1, <1>3, <1>4, <1>5 DEF Exchange, Protocol

-----------------------------------------------------------------------------
(***************************************************************************)
(* The invariant.                                                          *)
(***************************************************************************)

\* Each step leaves what the place of the import thread owes.
LEMMA ProtocolStep == Exchange /\ [Next]_vars => Protocol'
BY StartKeeps, BatchKeeps, AckKeeps, SidecarKeeps, ChunksKeep, ErrorKeeps,
   WaitKeeps, GraceKeeps, TurnKeeps, RegionKeeps, ReleaseKeeps, DispatchKeeps,
   WorkKeeps, AnswerKeeps, CancelledKeeps, DetailKeeps, OthersKeep
   DEF Next, HostStep, WorkerStep

\* The logs grow by what is announced and by nothing else.
LEMMA LogsStep == Exchange /\ [Next]_vars => Logs'
<1> SUFFICES ASSUME Exchange, [Next]_vars PROVE Logs'
  OBVIOUS
<1>0. /\ Typed /\ Logs
      /\ gen \in Nat /\ wgen \in 0..gen
      /\ \A g \in Generations : g \in Nat
      /\ wpc \in Serving => wgen \in Generations
      /\ delivered \in [Generations -> Seq(Contents)]
      /\ announced \in [Generations -> Seq(Contents)]
  BY SessionAssumption
  DEF Exchange, Typed, Control, Batches, Generations
<1>1. ASSUME UNCHANGED <<delivered, announced>>, gen' = gen \/ gen' = gen + 1
      PROVE  Logs'
  BY <1>0, <1>1 DEF Logs
<1>2. ASSUME hpc \in Live, Undelivered, Deliver, UNCHANGED <<gen, announced>>
      PROVE  Logs'
  <2>1. delivered'[gen] = announced[gen] /\ gen \in Generations
    BY <1>2, Taken, OnlyReply DEF Exchange, Undelivered
  <2>2. \A g \in Generations : g # gen => delivered'[g] = delivered[g]
    BY <1>0, <1>2 DEF Deliver
  <2>3. Agrees(announced[gen], announced[gen])
    BY <1>0, <2>1, AgreesGrows
  <2> QED  BY <1>0, <1>2, <2>1, <2>2, <2>3 DEF Logs
<1>3. ASSUME wpc \in Serving, NEW c \in Contents, Write(c),
             UNCHANGED <<gen, delivered>>
      PROVE  Logs'
  <2>1. wgen \in Generations /\ wgen <= gen
    BY <1>0, <1>3
  <2>2. /\ announced'[wgen] = Append(announced[wgen], c)
        /\ \A g \in Generations : g # wgen => announced'[g] = announced[g]
    BY <1>0, <1>3, <2>1 DEF Write
  <2>3. Agrees(delivered[wgen], Append(announced[wgen], c))
    BY <1>0, <2>1, AgreesGrows DEF Logs
  <2>4. ~(wgen > gen)
    BY <1>0, <2>1
  <2> SUFFICES ASSUME NEW g \in Generations
               PROVE  /\ Agrees(delivered[g], announced'[g])
                      /\ g > gen => delivered[g] = <<>> /\ announced'[g] = <<>>
    BY <1>3 DEF Logs
  <2>5. CASE g = wgen
    BY <2>2, <2>3, <2>4, <2>5
  <2>6. CASE g # wgen
    BY <1>0, <2>2, <2>6 DEF Logs
  <2> QED  BY <2>5, <2>6
<1>4. CASE StartSession
  BY <1>1, <1>4 DEF StartSession
<1>5. CASE ReadBatchReady \/ ReadChunksReady \/ ReadDetailReply
  <2>1. \A g, i : /\ Message("BatchReady", g, i).op = "BatchReady"
                  /\ Message("ChunksReady", g, i).op = "ChunksReady"
    BY DEF Message
  <2>2. /\ hpc \in Live /\ UNCHANGED <<gen, announced>>
        /\ \/ UNCHANGED delivered
           \/ /\ Deliver /\ fromWorker # <<>>
              /\ Head(fromWorker).op \in {"BatchReady", "ChunksReady"}
    BY <1>5, <2>1 DEF ReadBatchReady, ReadChunksReady, ReadDetailReply, Receive,
       Live
  <2> QED  BY <1>0, <1>1, <1>2, <2>2, PipesAt DEF Undelivered
<1>6. CASE \/ WriteAck \/ ReadSidecarRequest \/ ReadGenerationError
           \/ WaitEnds("read", "grace") \/ WaitEnds("detailRead", "detailGrace")
           \/ GraceEnds \/ DetailTurn \/ ReleaseLease
  BY <1>1, <1>6 DEF WriteAck, ReadSidecarRequest, ReadGenerationError,
     WaitEnds, GraceEnds, DetailTurn, ReleaseLease, dataVars
<1>7. CASE PublishBatch \/ FinishOk
  <2>1. wbatch \in Contents
    BY SessionAssumption, <1>0 DEF Typed, Control, Contents, Detail
  <2> QED  BY <1>3, <1>7, <2>1 DEF PublishBatch, FinishOk, Serving, hostVars
<1>8. CASE DetailRead
  <2>1. Detail \in Contents
    BY SessionAssumption DEF Contents, Detail
  <2>2. /\ wpc \in Serving /\ UNCHANGED <<gen, delivered>>
        /\ Write(Detail) \/ UNCHANGED announced
    BY <1>8 DEF DetailRead, Serving, hostVars
  <2> QED  BY <1>1, <1>3, <2>1, <2>2
<1>9. CASE \/ Dispatch \/ AckRead \/ WorkCancelled \/ RequestSidecar
           \/ SidecarRead \/ FinishError \/ WorkerFails
           \/ CancelRequest \/ DeadlinePasses \/ UNCHANGED vars
  BY <1>1, <1>9 DEF Dispatch, AckRead, WorkCancelled, RequestSidecar,
     SidecarRead, FinishError, WorkerFails, CancelRequest, DeadlinePasses,
     vars, hostVars, dataVars
<1> QED  BY <1>4, <1>5, <1>6, <1>7, <1>8, <1>9 DEF Next, HostStep, WorkerStep

\* It holds of the first worker, before the first session.
LEMMA ExchangeInit == Init => Exchange
<1> SUFFICES ASSUME Init PROVE Exchange
  OBVIOUS
<1>1. Protocol
  BY EmptySeq DEF Init, Protocol, Running, Live, AtRest, Answers, Parked
<1>2. Agrees(<<>>, <<>>)
  BY EmptySeq DEF Agrees
<1>3. Logs
  BY <1>2 DEF Init, Logs
<1> QED  BY <1>1, <1>3, TypedInit DEF Exchange

\* So it holds throughout.
LEMMA ExchangeInvariant == Spec => []Exchange
<1>1. Exchange /\ [Next]_vars => Exchange'
  BY TypedStep, ProtocolStep, LogsStep DEF Exchange
<1> QED  BY <1>1, ExchangeInit, PTL DEF Spec

-----------------------------------------------------------------------------
\* The viewer gets every batch once, in the order and with the bytes the worker
\* announced, although the worker writes them all into one window.
THEOREM BatchesArriveAsAnnounced == Spec => []DeliveredAsAnnounced
<1>1. Exchange => DeliveredAsAnnounced
  <2> SUFFICES ASSUME Exchange, NEW g \in Generations
               PROVE  IsPrefix(delivered[g], announced[g])
    BY DEF DeliveredAsAnnounced
  <2>1. /\ delivered[g] \in Seq(Contents) /\ announced[g] \in Seq(Contents)
        /\ Agrees(delivered[g], announced[g])
    BY DEF Exchange, Typed, Batches, Logs
  <2> QED  BY <2>1, AgreesIsPrefix
<1> QED  BY <1>1, ExchangeInvariant, PTL

\* A worker goes back to the pool only when nothing of its last generation is
\* still to come.
THEOREM ReusedWorkersAreQuiet == Spec => []ReuseIsQuiet
<1>1. Exchange => ReuseIsQuiet
  <2> SUFFICES ASSUME Exchange, hpc = "release", reusable
               PROVE  /\ fromWorker = <<>>
                      /\ wpc \in {"dispatch", "awaitDetail", "exited", "hung"}
                      /\ wpc = "awaitDetail" =>
                           toWorker = <<Message("EndDetail", gen, 0)>>
    BY DEF ReuseIsQuiet
  <2>1. reusable = TRUE
    BY DEF Exchange, Typed, Flags
  <2>2. AtRest /\ Typed
    BY <2>1 DEF Exchange, Protocol
  <2>3. ASSUME wpc = "awaitDetail"
        PROVE  toWorker = <<Message("EndDetail", gen, 0)>>
    <3>1. /\ toWorker \in Seq(ToWorker) /\ Len(toWorker) = 1
          /\ toWorker[1] = Message("EndDetail", gen, 0)
          /\ toWorker # <<>>
      BY <2>2, <2>3, PipesAt DEF AtRest
    <3>2. toWorker[1] \in ToWorker
      BY <2>2, <3>1, PipesAt
    <3>3. /\ <<toWorker[1]>> \in Seq(ToWorker) /\ Len(<<toWorker[1]>>) = 1
          /\ <<toWorker[1]>>[1] = toWorker[1]
      BY <3>2
    <3>4. toWorker = <<toWorker[1]>>
      BY <3>1, <3>3, SeqEqual
    <3> QED  BY <3>1, <3>4
  <2> QED  BY <2>2, <2>3 DEF AtRest, Parked, Gone
<1> QED  BY <1>1, ExchangeInvariant, PTL

\* The import thread and a living worker never wait for each other with nothing
\* under way between them.
THEOREM SessionsNeverStall == Spec => []HandshakeNeverStalls
<1>1. Exchange => HandshakeNeverStalls
  BY DEF Exchange, Protocol, OneTurn, HandshakeNeverStalls, Live, Gone
<1> QED  BY <1>1, ExchangeInvariant, PTL
=============================================================================
