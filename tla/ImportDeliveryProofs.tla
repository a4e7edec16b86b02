------------------------ MODULE ImportDeliveryProofs ------------------------
(***************************************************************************)
(* ImportSession implements ImportDelivery, for any caps, any number of     *)
(* generations and any worker: initial states map to initial states and     *)
(* every step to a step of ImportDelivery or to none.                       *)
(***************************************************************************)
EXTENDS ImportSessionProofs

\* Of a worker that may still write: it can write only for the generation of
\* the session, also after the host gave the session up.
Serves ==
    /\ Unread \/ Answers
    /\ Unread => wpc \in Parked /\ wgen # gen
    /\ wpc \notin Parked => wgen = gen
    /\ wpc = "awaitDetail" =>
         IF Unread THEN Len(toWorker) = 2 /\ toWorker[1].op = "EndDetail"
                   ELSE wgen = gen

\* How the result of a session follows the import thread.
Results ==
    /\ hpc \in Running => outcome[gen] = "open"
    /\ hpc \in {"idle", "release"} /\ gen \in Generations => outcome[gen] # "open"
    /\ gen \in Generations /\ outcome[gen] = "complete" =>
         hpc = "idle" \/ (hpc = "release" /\ reusable = TRUE)
    /\ \A g \in Generations : g > gen => outcome[g] = "open"
    /\ hpc = "release" /\ reusable = FALSE => Serves \/ wpc \in Gone

\* The running worker serves too.
LEMMA SyncServes == InSync => Serves
BY DEF InSync, Serves

\* The worker stays with its generation.
LEMMA WorkerServes == Typed /\ Serves /\ WorkerStep => Serves'
<1> SUFFICES ASSUME Typed, Serves, WorkerStep PROVE Serves'
  OBVIOUS
<1>0. UNCHANGED <<gen, detailService>>
  BY DEF WorkerStep, Dispatch, PublishBatch, AckRead, WorkCancelled,
     RequestSidecar, SidecarRead, FinishOk, FinishError, DetailRead, hostVars
<1>1. ASSUME toWorker # <<>>, toWorker' = Tail(toWorker)
      PROVE  /\ Head(toWorker) = toWorker[1]
             /\ Len(toWorker) \in Nat /\ Len(toWorker) # 0
             /\ Len(toWorker) = 1 => Len(toWorker') = 0
             /\ Len(toWorker) = 2 => Len(toWorker') = 1 /\ toWorker'[1] = toWorker[2]
  BY <1>1, PipesAt, WorkerQueues
<1>2. CASE Dispatch
  <2>1. /\ toWorker # <<>> /\ toWorker' = Tail(toWorker) /\ wpc = "dispatch"
        /\ \/ /\ Head(toWorker).op = "Start" /\ wpc' = "work"
              /\ wgen' = Head(toWorker).gen
           \/ Head(toWorker).op # "Start" /\ wpc' = "exited" /\ wgen' = wgen
    BY <1>2 DEF Dispatch
  <2>2. CASE Unread /\ Len(toWorker) = 1
    <3>1. toWorker[1] = Message("Start", gen, detailService)
      BY <2>2 DEF Unread
    <3>2. wpc' = "work" /\ wgen' = gen
      BY <1>1, <2>1, <3>1 DEF Message
    <3>3. Len(toWorker') = 0
      BY <1>1, <2>1, <2>2
    <3>4. Answers' /\ ~Unread'
      BY <3>3 DEF Answers, Unread
    <3> QED  BY <1>0, <3>2, <3>4 DEF Serves
  <2>3. CASE Unread /\ Len(toWorker) = 2
    <3>1. wpc' = "exited" /\ wgen' = wgen
      BY <1>1, <2>1, <2>3 DEF Unread
    <3>2. Unread'
      BY <1>0, <1>1, <2>1, <2>3 DEF Unread
    <3> QED  BY <1>0, <2>3, <3>1, <3>2 DEF Serves, Parked, Gone
  <2>4. CASE Answers
    <3>1. wpc' = "exited" /\ wgen' = wgen
      BY <1>1, <2>1, <2>4 DEF Answers
    <3>2. Len(toWorker') = 0
      BY <1>1, <2>1, <2>4 DEF Answers
    <3>3. Answers' /\ ~Unread'
      BY <3>2 DEF Answers, Unread
    <3> QED  BY <1>0, <3>1, <3>3 DEF Serves, Parked, Gone
  <2> QED  BY <2>2, <2>3, <2>4 DEF Serves, Unread
<1>3. CASE PublishBatch \/ RequestSidecar \/ FinishOk \/ FinishError \/ WorkCancelled
  <2>1. /\ wpc \in {"work", "awaitAck", "awaitDetail"}
        /\ UNCHANGED <<wgen, toWorker>>
        /\ wpc' = "dispatch" \/ wpc = "work" \/ wgen = gen
        /\ wpc' # "exited"
    BY <1>3 DEF PublishBatch, RequestSidecar, FinishOk, FinishError,
       WorkCancelled, Report, AfterPublish, WorkerSees
  <2>2. wgen = gen /\ ~Unread /\ Answers
    BY <1>3, <2>1 DEF Serves, Parked, Gone, PublishBatch, RequestSidecar,
       FinishOk, FinishError, WorkCancelled, WorkerSees
  <2>3. ~Unread' /\ Answers'
    BY <1>0, <2>1, <2>2 DEF Unread, Answers
  <2> QED  BY <1>0, <2>1, <2>2, <2>3 DEF Serves
<1>4. CASE AckRead \/ SidecarRead
  <2>1. /\ wpc \in {"awaitAck", "awaitSidecar"}
        /\ toWorker # <<>> /\ toWorker' = Tail(toWorker) /\ wgen' = wgen
    BY <1>4 DEF AckRead, SidecarRead
  <2>2. wgen = gen /\ Answers
    BY <2>1 DEF Serves, Parked, Gone
  <2>3. ~Unread' /\ Answers'
    BY SMTT(30), <1>1, <2>1, <2>2 DEF Unread, Answers
  <2> QED  BY <1>0, <2>1, <2>2, <2>3 DEF Serves
<1>5. CASE DetailRead
  <2>1. /\ wpc = "awaitDetail" /\ wpc' \in {"awaitDetail", "dispatch"}
        /\ toWorker # <<>> /\ toWorker' = Tail(toWorker) /\ wgen' = wgen
        /\ Head(toWorker).op # "RequestDetail" => wpc' = "dispatch"
    BY <1>5 DEF DetailRead, Report, Message
  <2>2. CASE Unread
    <3>1. Len(toWorker) = 2 /\ toWorker[1].op = "EndDetail" /\ wgen # gen
      BY <2>1, <2>2 DEF Serves
    <3>2. Unread' /\ wpc' = "dispatch"
      BY <1>0, <1>1, <2>1, <2>2, <3>1 DEF Unread
    <3> QED  BY <1>0, <2>1, <3>1, <3>2 DEF Serves, Parked
  <2>3. CASE ~Unread
    <3>1. Answers /\ wgen = gen
      BY <2>1, <2>3 DEF Serves
    <3>2. ~Unread' /\ Answers'
      BY SMTT(30), <1>1, <2>1, <3>1 DEF Unread, Answers
    <3> QED  BY <1>0, <2>1, <3>1, <3>2 DEF Serves
  <2> QED  BY <2>2, <2>3
<1> QED  BY <1>2, <1>3, <1>4, <1>5 DEF WorkerStep

\* A write is of the session's generation, and not after it completed.
LEMMA WritesCurrent ==
    ASSUME Exchange, Results, NEW c, Write(c),
           \/ wpc = "work"
           \/ wpc = "awaitDetail" /\ toWorker # <<>> /\ toWorker[1].op = "RequestDetail"
    PROVE  wgen = gen /\ gen \in Generations /\ outcome[gen] # "complete"
<1>0. /\ Typed /\ Protocol /\ hpc \in HostStates /\ reusable \in BOOLEAN
      /\ wpc \in Serving /\ wgen \in Generations
  BY DEF Exchange, Typed, Control, Flags, Serving
<1>1. ~AtRest
  BY DEF AtRest, Parked, Gone, Message
<1>2. hpc \in Running \/ (hpc = "release" /\ reusable = FALSE)
  BY <1>0, <1>1 DEF Protocol, HostStates, Running, Live
<1>3. wpc \notin Gone
  BY DEF Gone
<1>4. Serves
  BY <1>0, <1>2, <1>3, SyncServes DEF Protocol, Results, Running
<1>5. wgen = gen
  BY <1>4 DEF Serves, Parked, Gone
<1> QED  BY <1>0, <1>2, <1>5 DEF Results, Running, Live

\* The session ends with this result; the worker is kept or not.
Ends(how) ==
    /\ hpc' = "release"
    /\ outcome' = [outcome EXCEPT ![gen] = how]
    /\ reusable' = FALSE => UNCHANGED toWorker
    /\ how = "complete" => reusable' = TRUE /\ delivered'[gen] = announced[gen]

\* What a step of the import thread in a running session comes to: it takes one
\* batch or none, and goes on or ends.
LEMMA HostMoves ==
    ASSUME Exchange, HostStep, ~ReleaseLease
    PROVE  /\ hpc \in Running
           /\ UNCHANGED <<gen, announced, wpc, wgen, detailService>>
           /\ UNCHANGED delivered \/ (Deliver /\ Undelivered /\ hpc \in Live)
           /\ \/ hpc' \in Running /\ UNCHANGED outcome
              \/ \E how \in Outcomes \ {"open"} : Ends(how)
<1>0. /\ Typed /\ reusable \in BOOLEAN
      /\ Acknowledges(Head(fromWorker)) \in BOOLEAN
  BY DEF Exchange, Typed, Flags, Acknowledges
<1>1. \A g, i : /\ Message("BatchReady", g, i).op = "BatchReady"
                /\ Message("ChunksReady", g, i).op = "ChunksReady"
  BY DEF Message
<1>2. fromWorker # <<>> => Head(fromWorker) = fromWorker[1]
  BY <1>0, PipesAt
<1> USE DEF Ends, Running, Live, Outcomes, End, workerVars
<1>3. CASE ReadBatchReady
  <2>1. /\ hpc = "read"
        /\ UNCHANGED <<gen, announced, wpc, wgen, detailService, toWorker>>
        /\ fromWorker # <<>> /\ Head(fromWorker).op = "BatchReady"
    BY <1>1, <1>3 DEF ReadBatchReady, Receive
  <2>2. \/ Deliver /\ hpc' \in {"grace", "ack"} /\ UNCHANGED outcome
        \/ /\ UNCHANGED delivered /\ hpc' = "release"
           /\ \E how \in {"deadline", "rejected"} :
                 outcome' = [outcome EXCEPT ![gen] = how]
    BY <1>3 DEF ReadBatchReady, Receive
  <2> QED  BY <1>2, <2>1, <2>2 DEF Undelivered
<1>4. CASE ReadChunksReady
  <2>1. /\ hpc = "read"
        /\ UNCHANGED <<gen, announced, wpc, wgen, detailService, toWorker>>
        /\ fromWorker # <<>> /\ Head(fromWorker).op = "ChunksReady"
    BY <1>1, <1>4 DEF ReadChunksReady, Receive
  <2>2. \/ /\ Deliver
           /\ \/ hpc' = "detail" /\ UNCHANGED outcome
              \/ End("cancelled", FALSE) \/ End("rejected", FALSE)
              \/ End("complete", TRUE)
        \/ UNCHANGED delivered /\ End("rejected", FALSE)
    BY <1>4 DEF ReadChunksReady, Receive
  <2>3. Deliver => delivered'[gen] = announced[gen]
    BY <1>2, <2>1, Taken DEF Undelivered
  <2> QED  BY <1>2, <2>1, <2>2, <2>3 DEF Undelivered
<1>5. CASE ReadDetailReply
  <2>1. /\ hpc = "detailRead"
        /\ UNCHANGED <<gen, announced, wpc, wgen, detailService, toWorker>>
        /\ fromWorker # <<>>
    BY <1>5 DEF ReadDetailReply
  <2>2. \/ /\ Deliver /\ Head(fromWorker).op = "ChunksReady"
           /\ hpc' = "detail" /\ UNCHANGED outcome
        \/ /\ UNCHANGED delivered
           /\ End("workerError", FALSE) \/ End("rejected", FALSE)
    BY <1>5 DEF ReadDetailReply
  <2> QED  BY <1>2, <2>1, <2>2 DEF Undelivered
<1>6. CASE DetailTurn
  <2>1. hpc = "detail" /\ OneTurn
    BY <1>6 DEF DetailTurn, Exchange, Protocol
  <2>2. announced[gen] = delivered[gen]
    BY <2>1 DEF OneTurn, Undelivered
  <2>3. UNCHANGED <<gen, announced, delivered, wpc, wgen, detailService>>
    BY <1>6 DEF DetailTurn
  <2>4. \/ UNCHANGED toWorker /\ (End("deadline", FALSE) \/ End("crashed", FALSE))
        \/ hpc' \in {"detailGrace", "detailRead"} /\ UNCHANGED outcome
        \/ End("complete", TRUE)
    BY <1>6 DEF DetailTurn, AfterRequest
  <2> QED  BY <2>1, <2>2, <2>3, <2>4
<1>7. CASE WriteAck
  BY <1>7 DEF WriteAck
<1>8. CASE ReadSidecarRequest
  <2>1. /\ hpc = "read"
        /\ UNCHANGED <<gen, announced, delivered, wpc, wgen, detailService>>
    BY <1>8 DEF ReadSidecarRequest, Receive
  <2>2. \/ hpc' = hpc /\ UNCHANGED outcome
        \/ /\ UNCHANGED toWorker
           /\ \/ End("deadline", FALSE) \/ End("rejected", FALSE)
              \/ End("crashed", FALSE)
    BY <1>8 DEF ReadSidecarRequest, Receive
  <2> QED  BY <2>1, <2>2
<1>9. CASE ReadGenerationError
  <2>1. /\ hpc = "read"
        /\ UNCHANGED <<gen, announced, delivered, wpc, wgen, detailService,
                       toWorker>>
    BY <1>9 DEF ReadGenerationError, Receive
  <2>2. \/ End("rejected", FALSE) \/ End("cancelled", TRUE)
        \/ End("workerError", TRUE)
    BY <1>9 DEF ReadGenerationError, Receive
  <2> QED  BY <2>1, <2>2
<1>10. CASE WaitEnds("read", "grace") \/ WaitEnds("detailRead", "detailGrace")
  <2>1. /\ hpc \in {"read", "detailRead"}
        /\ UNCHANGED <<gen, announced, delivered, wpc, wgen, detailService,
                       toWorker>>
    BY <1>10 DEF WaitEnds
  <2>2. \/ hpc' \in {"grace", "detailGrace"} /\ UNCHANGED outcome
        \/ End("crashed", FALSE) \/ End("deadline", FALSE) \/ End("timedOut", FALSE)
    BY <1>10 DEF WaitEnds
  <2> QED  BY <2>1, <2>2
<1>11. CASE GraceEnds
  <2>1. /\ hpc \in {"grace", "detailGrace"}
        /\ UNCHANGED <<gen, announced, delivered, wpc, wgen, detailService,
                       toWorker>>
        /\ hpc' = "release" /\ outcome' = [outcome EXCEPT ![gen] = "cancelled"]
    BY <1>11 DEF GraceEnds
  <2>2. Ends("cancelled")
    BY <2>1
  <2>3. "cancelled" \in Outcomes \ {"open"}
    OBVIOUS
  <2> HIDE DEF Ends, Outcomes
  <2> QED  BY <2>1, <2>2, <2>3
<1> QED  BY <1>3, <1>4, <1>5, <1>6, <1>7, <1>8, <1>9, <1>10, <1>11 DEF HostStep

\* The results follow each step.
LEMMA ResultsStep == Exchange /\ Results /\ [Next]_vars => Results'
<1> SUFFICES ASSUME Exchange, Results, [Next]_vars PROVE Results'
  OBVIOUS
<1>0. /\ Typed /\ Protocol /\ reusable \in BOOLEAN
      /\ outcome \in [Generations -> Outcomes]
      /\ gen \in 0..MaxGenerations /\ MaxGenerations \in Nat
      /\ hpc # "idle" => gen \in Generations
      /\ \A g \in Generations : g \in Nat
  BY SessionAssumption DEF Exchange, Typed, Control, Flags, Generations
<1>1. CASE StartSession
  <2>1. /\ gen' = gen + 1 /\ gen' \in Generations
        /\ hpc' = "read" \/ (hpc' = "release" /\ wpc' \in Gone)
        /\ \/ hpc' = "read" /\ UNCHANGED outcome
           \/ hpc' = "release" /\ outcome' = [outcome EXCEPT ![gen'] = "crashed"]
    BY <1>0, <1>1 DEF StartSession, WriteFails, workerVars, Gone, Generations
  <2>2. \A g \in Generations : g > gen => outcome[g] = "open"
    BY DEF Results
  <2> QED  BY <1>0, <2>1, <2>2 DEF Results, Running, Live
<1>2. CASE HostStep /\ ~ReleaseLease
  <2>1. /\ hpc \in Running /\ gen \in Generations /\ outcome[gen] = "open"
        /\ UNCHANGED <<gen, wpc, wgen, detailService>>
    BY <1>0, <1>2, HostMoves DEF Results, Running, Live
  <2>2. CASE hpc' \in Running /\ UNCHANGED outcome
    BY <2>1, <2>2 DEF Results, Running, Live
  <2>3. ASSUME NEW how \in Outcomes \ {"open"}, Ends(how) PROVE Results'
    <3>1. InSync
      BY <1>0, <2>1 DEF Protocol
    <3>2. /\ outcome'[gen] = how /\ hpc' = "release"
          /\ \A g \in Generations : g # gen => outcome'[g] = outcome[g]
      BY <1>0, <2>1, <2>3 DEF Ends
    <3>3. reusable' = FALSE => Serves'
      <4>1. ASSUME UNCHANGED toWorker PROVE Serves'
        BY <2>1, <3>1, <4>1, SyncServes DEF Serves, Unread, Answers
      <4> QED  BY <2>3, <4>1 DEF Ends
    <3> QED  BY <1>0, <2>1, <2>3, <3>2, <3>3 DEF Results, Ends, Running, Live
  <2> QED  BY <1>2, <2>2, <2>3, HostMoves
<1>3. CASE ReleaseLease
  BY <1>0, <1>3 DEF ReleaseLease, Results, Running, Live, dataVars
<1>4. CASE WorkerStep
  <2>1. UNCHANGED <<hpc, gen, reusable, outcome>> /\ wpc \notin Gone
    BY <1>4 DEF WorkerStep, Dispatch, PublishBatch, AckRead, WorkCancelled,
       RequestSidecar, SidecarRead, FinishOk, FinishError, DetailRead, hostVars,
       dataVars, Gone
  <2>2. Serves => Serves'
    BY <1>0, <1>4, WorkerServes
  <2> QED  BY <2>1, <2>2 DEF Results
<1>5. CASE WorkerFails \/ CancelRequest \/ DeadlinePasses \/ UNCHANGED vars
  <2>1. /\ UNCHANGED <<hpc, gen, reusable, outcome, wgen, toWorker, detailService>>
        /\ wpc' = wpc \/ wpc' \in Gone
    BY <1>5 DEF WorkerFails, CancelRequest, DeadlinePasses, vars, hostVars,
       workerVars, dataVars, Gone
  <2>2. (Unread' <=> Unread) /\ (Answers' <=> Answers)
    BY <2>1 DEF Unread, Answers
  <2>3. Serves => Serves' \/ wpc' \in Gone
    BY <2>1, <2>2 DEF Serves
  <2>4. wpc \in Gone => wpc' \in Gone
    BY <2>1
  <2> QED  BY <2>1, <2>3, <2>4 DEF Results
<1> QED  BY <1>1, <1>2, <1>3, <1>4, <1>5 DEF Next

\* Each step is one of ImportDelivery's or none.
LEMMA DeliveryStep ==
    Exchange /\ Results /\ [Next]_vars => [Delivery!Next]_(Delivery!vars)
<1> SUFFICES ASSUME Exchange, Results, [Next]_vars
             PROVE  Delivery!Next \/ UNCHANGED <<gen, announced, delivered, outcome>>
  BY DEF Delivery!vars
<1>0. /\ Typed /\ Protocol
      /\ outcome \in [Generations -> Outcomes]
      /\ delivered \in [Generations -> Seq(Contents)]
      /\ announced \in [Generations -> Seq(Contents)]
      /\ hpc # "idle" => gen \in Generations
  BY DEF Exchange, Typed, Control, Batches
<1>1. CASE StartSession
  <2>1. /\ gen' = gen + 1 /\ gen' \in Generations
        /\ hpc = "idle" /\ UNCHANGED <<announced, delivered>>
        /\ \/ UNCHANGED outcome
           \/ outcome' = [outcome EXCEPT ![gen'] = "crashed"]
    BY <1>0, <1>1, SessionAssumption
    DEF StartSession, Typed, Control, Generations
  <2>2. /\ gen \in Generations => outcome[gen] # "open"
        /\ outcome[gen'] = "open"
    BY <1>0, <2>1, SessionAssumption DEF Results, Typed, Control, Generations
  <2>3. outcome = [outcome EXCEPT ![gen'] = "open"]
    BY <1>0, <2>1, <2>2
  <2>4. \E how \in {"open"} \cup ((Outcomes \ {"open"}) \ {"complete"}) :
            outcome' = [outcome EXCEPT ![gen'] = how]
    BY <2>1, <2>3 DEF Outcomes
  <2> QED  BY <2>1, <2>2, <2>4 DEF Delivery!Next, Delivery!Begin
<1>2. CASE HostStep /\ ~ReleaseLease
  <2>1. /\ hpc \in Running /\ gen \in Generations /\ outcome[gen] = "open"
        /\ UNCHANGED <<gen, announced>>
        /\ UNCHANGED delivered \/ (Deliver /\ Undelivered /\ hpc \in Live)
        /\ \/ UNCHANGED outcome
           \/ \E how \in Outcomes \ {"open"} : Ends(how)
    BY <1>0, <1>2, HostMoves DEF Results, Running, Live
  <2>2. Delivery!TakeNext \/ UNCHANGED delivered
    <3> SUFFICES ASSUME Deliver, Undelivered, hpc \in Live PROVE Delivery!TakeNext
      BY <2>1
    <3>1. announced[gen] = Append(delivered[gen], window)
      BY <1>0 DEF Protocol, OneTurn
    <3>2. delivered[gen] \in Seq(Contents) /\ window \in Contents
      BY <1>0, <2>1 DEF Typed, Batches
    <3>3. /\ Len(delivered[gen]) \in Nat
          /\ Len(announced[gen]) = Len(delivered[gen]) + 1
          /\ announced[gen][Len(delivered[gen]) + 1] = window
      BY <3>1, <3>2, QueueAt
    <3>4. delivered' = [delivered EXCEPT ![gen] =
                          Append(@, announced[gen][Len(delivered[gen]) + 1])]
      BY <3>3 DEF Deliver
    <3> QED  BY <3>3, <3>4 DEF Delivery!TakeNext
  <2>3. \E how \in {"open"} \cup (Outcomes \ {"open"}) :
            /\ outcome' = [outcome EXCEPT ![gen] = how]
            /\ how = "complete" => delivered'[gen] = announced[gen]
    <3>1. CASE UNCHANGED outcome
      <4>1. outcome' = [outcome EXCEPT ![gen] = "open"]
        BY <1>0, <2>1, <3>1
      <4>2. "open" \in {"open"} \cup (Outcomes \ {"open"}) /\ "open" # "complete"
        OBVIOUS
      <4> WITNESS "open" \in {"open"} \cup (Outcomes \ {"open"})
      <4> QED  BY <4>1, <4>2
    <3>2. CASE \E how \in Outcomes \ {"open"} : Ends(how)
      <4>1. PICK how \in Outcomes \ {"open"} : Ends(how)
        BY <3>2
      <4>2. how \in {"open"} \cup (Outcomes \ {"open"})
        BY <4>1
      <4>3. /\ outcome' = [outcome EXCEPT ![gen] = how]
            /\ how = "complete" => delivered'[gen] = announced[gen]
        BY <4>1 DEF Ends
      <4> QED  BY <4>2, <4>3
    <3> QED  BY <2>1, <3>1, <3>2
  <2> QED  BY <2>1, <2>2, <2>3 DEF Delivery!Next, Delivery!Serve
<1>3. ASSUME NEW c \in Contents, Write(c), UNCHANGED <<gen, delivered, outcome>>,
             \/ wpc = "work"
             \/ /\ wpc = "awaitDetail" /\ toWorker # <<>>
                /\ toWorker[1].op = "RequestDetail"
      PROVE  Delivery!Next
  <2>1. wgen = gen /\ gen \in Generations /\ outcome[gen] # "complete"
    BY <1>3, WritesCurrent
  <2>2. announced' = [announced EXCEPT ![gen] = Append(@, c)]
    BY <1>3, <2>1 DEF Write
  <2> QED  BY <1>3, <2>1, <2>2 DEF Delivery!Next, Delivery!Announce
<1>4. CASE PublishBatch \/ FinishOk
  <2>1. wbatch \in Contents
    BY SessionAssumption, <1>0 DEF Typed, Control, Contents, Detail
  <2> QED  BY <1>3, <1>4, <2>1 DEF PublishBatch, FinishOk, hostVars
<1>5. CASE DetailRead
  <2>1. Detail \in Contents
    BY SessionAssumption DEF Contents, Detail
  <2>2. wpc = "awaitDetail" /\ toWorker # <<>>
    BY <1>5 DEF DetailRead
  <2>3. UNCHANGED <<gen, delivered, outcome>>
    BY <1>5 DEF DetailRead, hostVars
  <2>4. \/ UNCHANGED announced
        \/ Write(Detail) /\ Head(toWorker) = Message("RequestDetail", wgen, 0)
    BY <1>5 DEF DetailRead
  <2>5. Message("RequestDetail", wgen, 0).op = "RequestDetail"
    BY DEF Message
  <2>6. Head(toWorker) = toWorker[1]
    BY <1>0, <2>2, PipesAt
  <2>7. CASE UNCHANGED announced
    BY <2>3, <2>7
  <2>8. CASE Write(Detail) /\ Head(toWorker) = Message("RequestDetail", wgen, 0)
    <3>1. toWorker[1].op = "RequestDetail"
      BY <2>5, <2>6, <2>8
    <3> QED  BY <1>3, <2>1, <2>2, <2>3, <2>8, <3>1
  <2> QED  BY <2>4, <2>7, <2>8
<1>6. CASE \/ Dispatch \/ AckRead \/ WorkCancelled \/ RequestSidecar
           \/ SidecarRead \/ FinishError \/ WorkerFails
           \/ CancelRequest \/ DeadlinePasses \/ ReleaseLease \/ UNCHANGED vars
  BY <1>6 DEF Dispatch, AckRead, WorkCancelled, RequestSidecar, SidecarRead,
     FinishError, WorkerFails, CancelRequest, DeadlinePasses, ReleaseLease,
     vars, hostVars, dataVars
<1> QED  BY <1>1, <1>2, <1>4, <1>5, <1>6 DEF Next, WorkerStep

\* A session of the import protocol, with its pipes, one window, timeouts,
\* cancellation and a worker that may fail and is used again, delivers what
\* ImportDelivery promises.
THEOREM SessionsImplementDelivery == Spec => ImplementsDelivery
<1>1. Init => Delivery!Init
  BY DEF Init, Delivery!Init
<1>2. Init => Results
  <2> SUFFICES ASSUME Init PROVE Results
    OBVIOUS
  <2>1. 0 \notin Generations
    BY SessionAssumption DEF Generations
  <2> QED  BY <2>1 DEF Init, Results, Running, Live
<1> QED  BY <1>1, <1>2, ExchangeInvariant, ResultsStep, DeliveryStep, PTL
         DEF Spec, Delivery!Spec, ImplementsDelivery
=============================================================================
