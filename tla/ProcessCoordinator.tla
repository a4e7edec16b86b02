------------------------ MODULE ProcessCoordinator ------------------------
(***************************************************************************)
(* The broker's process manager: ProcessCoordinator (ImportSession.cpp)    *)
(* with the WorkerPool it owns, the import threads that lease a process    *)
(* from it, and the UI thread that starts, cancels, joins and shuts down.  *)
(*                                                                         *)
(* One instance of this module is one coordinator: the general worker pool *)
(* (ExitAfterUse = FALSE, prewarmed by PrepareAsync) or a dedicated host   *)
(* (ExitAfterUse = TRUE, one slot, launched by PrepareNow on demand).      *)
(*                                                                         *)
(* A step is a mutex-protected block, or a block between two of them.      *)
(* pool_ is non-null exactly when ready_ is set, so `ready` stands for     *)
(* both and `slots` is meaningful only while it is TRUE.                   *)
(***************************************************************************)
EXTENDS Naturals, FiniteSets

CONSTANTS
    Sessions,           \* import threads that can exist at one time
    PoolSize,           \* poolSize_
    ExitAfterUse,       \* exitAfterUse_
    WorkerFaults,       \* may a child die, hang or miss the cancel grace?
    MaxLaunchFailures   \* bound on the launches that fail in one behaviour;
                        \* PoolSize of them exhaust a pool

ASSUME CoordinatorAssumption ==
    /\ PoolSize \in Nat \ {0}
    /\ ExitAfterUse \in BOOLEAN
    /\ ExitAfterUse => PoolSize = 1
    /\ WorkerFaults \in BOOLEAN
    /\ MaxLaunchFailures \in Nat

VARIABLES
    initializing,   \* initializing_
    ready,          \* ready_, and pool_ is not null
    stopping,       \* stopping_
    initializer,    \* initializer_: "none", "running", "finished" (joinable)
    slots,          \* pool_->workers_: the child's condition and the busy flag
    pc,             \* where each import thread is
    lease,          \* Lease::index of each import thread, NoSlot without one
    attempt,        \* 1, or 2 for the one retry of a host route
    cancelled,      \* the generation's cancellation token
    outcome,        \* how the thread's last session ended
    ui,             \* the UI thread's start-up and shutdown
    aborted,        \* std::terminate was called
    launchFailures  \* launches that failed so far

coordinatorVars == <<initializing, ready, stopping, initializer, slots>>
sessionVars == <<pc, lease, attempt, cancelled, outcome>>
vars == <<coordinatorVars, sessionVars, ui, aborted, launchFailures>>

Slots == 1..PoolSize
NoSlot == 0

\* "clean": blocked reading the next Start; "serving": a request is open on
\* its pipes; "dead": exited or killed.
ProcessStates == {"clean", "serving", "dead"}
FreshSlot == [process |-> "clean", busy |-> FALSE]
\* Seeded bug: AcquireIdle does not look at the busy flag.
AnySlot == Slots
IdleSlots == {i \in Slots : ~slots[i].busy}

\* Seeded bug: the released worker keeps its busy flag.
DrainedSlotStillBusy == [FreshSlot EXCEPT !.busy = TRUE]
\* A worker whose last reply was drained, as Release leaves it.
DrainedSlot == FreshSlot

Locations == {"idle", "start", "prepare", "launching", "acquire", "leased",
              "using", "replacing", "replaced", "draining"}
HoldsLease(s) == pc[s] \in {"leased", "using", "replacing", "replaced"}

Init ==
    /\ initializing = FALSE /\ ready = FALSE /\ stopping = FALSE
    /\ initializer = "none"
    /\ slots = [i \in Slots |-> FreshSlot]
    /\ pc = [s \in Sessions |-> "idle"]
    /\ lease = [s \in Sessions |-> NoSlot]
    /\ attempt = [s \in Sessions |-> 1]
    /\ cancelled = [s \in Sessions |-> FALSE]
    /\ outcome = [s \in Sessions |-> "none"]
    /\ ui = "starting"
    /\ aborted = FALSE
    /\ launchFailures = 0

LaunchFails ==
    /\ launchFailures < MaxLaunchFailures
    /\ launchFailures' = launchFailures + 1

\* Seeded bug: only some import thread was joined.
SomeThreadJoined == \E s \in Sessions : pc[s] = "idle"
ImportThreadsJoined == \A s \in Sessions : pc[s] = "idle"

Goto(s, where) == pc' = [pc EXCEPT ![s] = where]

\* The end of RunImportSession: Fail(Cancelled) or Fail(LaunchWorker) by the
\* token as it reads now, or a session that did get a process.
EndSession(s, how) ==
    /\ Goto(s, "idle")
    /\ outcome' = [outcome EXCEPT ![s] = how]
FailSession(s) ==
    EndSession(s, IF cancelled[s] THEN "cancelled" ELSE "launchFailed")

-----------------------------------------------------------------------------
(* Preparing the pool.                                                      *)

\* PrepareAsync under its lock. Assigning to a std::thread that is still
\* joinable calls std::terminate.
PrepareAsync ==
    IF initializing \/ ready \/ stopping
    THEN UNCHANGED <<initializing, initializer, aborted>>
    ELSE IF initializer = "none"
    THEN /\ initializing' = TRUE /\ initializer' = "running"
         /\ UNCHANGED aborted
    ELSE /\ aborted' = TRUE
         /\ UNCHANGED <<initializing, initializer>>

\* The launches run unlocked and are all-or-nothing; their result is
\* published under the lock.
InstallPool(ok) ==
    /\ IF ok THEN UNCHANGED launchFailures ELSE LaunchFails
    /\ initializing' = FALSE
    /\ ready' = IF ok /\ ~stopping THEN TRUE ELSE ready
    /\ slots' = IF ok /\ ~stopping THEN [i \in Slots |-> FreshSlot] ELSE slots

InitializerThread ==
    /\ initializer = "running"
    /\ \E ok \in BOOLEAN : InstallPool(ok)
    /\ initializer' = "finished"
    /\ UNCHANGED <<stopping, sessionVars, ui, aborted>>

PrepareNowReady(s) ==
    /\ pc[s] = "prepare"
    /\ ready /\ (~initializing \/ stopping)
    /\ Goto(s, "acquire")
    /\ UNCHANGED <<coordinatorVars, lease, attempt, cancelled, outcome, ui,
                   aborted, launchFailures>>

PrepareNowRefused(s) ==
    /\ pc[s] = "prepare"
    /\ ~ready
    /\ stopping \/ (initializing /\ cancelled[s])
    /\ FailSession(s)
    /\ UNCHANGED <<coordinatorVars, lease, attempt, cancelled, ui, aborted,
                   launchFailures>>

PrepareNowLaunch(s) ==
    /\ pc[s] = "prepare"
    /\ ~initializing /\ ~ready /\ ~stopping
    /\ initializing' = TRUE
    /\ Goto(s, "launching")
    /\ UNCHANGED <<ready, stopping, initializer, slots, lease, attempt,
                   cancelled, outcome, ui, aborted, launchFailures>>

PrepareNowInstall(s) ==
    /\ pc[s] = "launching"
    /\ \E ok \in BOOLEAN : InstallPool(ok)
    /\ IF ready' THEN Goto(s, "acquire") /\ UNCHANGED outcome
                 ELSE FailSession(s)
    /\ UNCHANGED <<stopping, initializer, lease, attempt, cancelled, ui,
                   aborted>>

-----------------------------------------------------------------------------
(* One session on an import thread.                                         *)

\* RunImport: prepare the pool again, then the superseded-already check.
StartSession(s) ==
    /\ pc[s] = "start"
    /\ IF ExitAfterUse
       THEN UNCHANGED <<initializing, initializer, aborted>>
       ELSE PrepareAsync
    /\ IF cancelled[s]
       THEN FailSession(s)
       ELSE /\ Goto(s, IF ExitAfterUse THEN "prepare" ELSE "acquire")
            /\ UNCHANGED outcome
    /\ UNCHANGED <<ready, stopping, slots, lease, attempt, cancelled, ui,
                   launchFailures>>

\* Seeded bug: a waiter ignores that the pool it waits for is gone.
WaitsWithoutPool(s) == cancelled[s] \/ stopping
\* Acquire's loop ends without a lease: the token fired, or there is no pool
\* and none is being launched.
GivesUp(s) == cancelled[s] \/ stopping \/ (~initializing /\ ~ready)

\* Seeded bug: the worker handed out is not marked busy.
TakeSlotUnmarked(s, i) ==
    /\ slots' = slots
    /\ lease' = [lease EXCEPT ![s] = i]
\* Seeded bug: the index handed out is one too high.
TakeSlotOffByOne(s, i) ==
    /\ slots' = [slots EXCEPT ![i].busy = TRUE]
    /\ lease' = [lease EXCEPT ![s] = i + 1]
TakeSlot(s, i) ==
    /\ slots' = [slots EXCEPT ![i].busy = TRUE]
    /\ lease' = [lease EXCEPT ![s] = i]

AcquireIdle(s) ==
    /\ pc[s] = "acquire"
    /\ ready /\ ~GivesUp(s)
    /\ \E i \in IdleSlots :
        (\A j \in IdleSlots : i <= j) /\ TakeSlot(s, i)
    /\ Goto(s, "leased")
    /\ UNCHANGED <<initializing, ready, stopping, initializer, attempt,
                   cancelled, outcome, ui, aborted, launchFailures>>

\* Seeded bug: no second attempt.
NeverRetries(s) == FALSE
\* A host route that was not cancelled prepares and acquires once more.
RetriesOnce(s) == ExitAfterUse /\ ~cancelled[s] /\ attempt[s] = 1

AcquireNothing(s) ==
    /\ pc[s] = "acquire"
    /\ GivesUp(s)
    /\ IF RetriesOnce(s)
       THEN /\ Goto(s, "prepare")
            /\ attempt' = [attempt EXCEPT ![s] = 2]
            /\ UNCHANGED outcome
       ELSE FailSession(s) /\ UNCHANGED attempt
    /\ UNCHANGED <<coordinatorVars, lease, cancelled, ui, aborted,
                   launchFailures>>

\* Duplicate the handles into the child and send the Start request. A dead
\* child takes neither, and the session fails with an unusable lease.
SendStart(s) ==
    /\ pc[s] = "leased"
    /\ slots' = [slots EXCEPT ![lease[s]].process =
                    IF @ = "dead" THEN @ ELSE "serving"]
    /\ Goto(s, "using")
    /\ UNCHANGED <<initializing, ready, stopping, initializer, lease, attempt,
                   cancelled, outcome, ui, aborted, launchFailures>>

\* The session drained the child's last reply: Lease::reusable. The child
\* reads its next request, and Release runs in one locked block.
ReleaseReusable(s) ==
    /\ pc[s] = "using" /\ ~ExitAfterUse
    /\ slots[lease[s]].process = "serving"
    /\ slots' = [slots EXCEPT ![lease[s]] = DrainedSlot]
    /\ lease' = [lease EXCEPT ![s] = NoSlot]
    /\ EndSession(s, "served")
    /\ UNCHANGED <<initializing, ready, stopping, initializer, attempt,
                   cancelled, ui, aborted, launchFailures>>

\* Release of an unusable lease. TerminateAndReplace runs without the lock:
\* it drops the job (the kill), launches, and assigns the whole entry, whose
\* busy flag is a new PooledWorker's FALSE.
TerminateWorker(s) ==
    /\ pc[s] = "using" /\ ~ExitAfterUse
    /\ WorkerFaults \/ slots[lease[s]].process = "dead"
    /\ slots' = [slots EXCEPT ![lease[s]].process = "dead"]
    /\ Goto(s, "replacing")
    /\ UNCHANGED <<initializing, ready, stopping, initializer, lease, attempt,
                   cancelled, outcome, ui, aborted, launchFailures>>

PublishReplacement(s) ==
    /\ pc[s] = "replacing"
    /\ slots' = [slots EXCEPT ![lease[s]] = FreshSlot]
    /\ Goto(s, "replaced")
    /\ UNCHANGED <<initializing, ready, stopping, initializer, lease, attempt,
                   cancelled, outcome, ui, aborted, launchFailures>>

\* The replacement did not launch: the slot is neither refilled nor released.
ReplacementLost(s) ==
    /\ pc[s] = "replacing"
    /\ LaunchFails
    /\ lease' = [lease EXCEPT ![s] = NoSlot]
    /\ EndSession(s, "served")
    /\ UNCHANGED <<coordinatorVars, attempt, cancelled, ui, aborted>>

ReleaseReplaced(s) ==
    /\ pc[s] = "replaced"
    /\ slots' = [slots EXCEPT ![lease[s]].busy = FALSE]
    /\ lease' = [lease EXCEPT ![s] = NoSlot]
    /\ EndSession(s, "served")
    /\ UNCHANGED <<initializing, ready, stopping, initializer, attempt,
                   cancelled, ui, aborted, launchFailures>>

\* exitAfterUse_: Release moves pool_ out and clears ready_ under the lock.
\* The thread then shuts a well-behaved host down (bounded) or just drops it.
ReleaseAndExit(s) ==
    /\ pc[s] = "using" /\ ExitAfterUse
    /\ ready' = FALSE
    /\ lease' = [lease EXCEPT ![s] = NoSlot]
    /\ Goto(s, "draining")
    /\ UNCHANGED <<initializing, stopping, initializer, slots, attempt,
                   cancelled, outcome, ui, aborted, launchFailures>>

HostDrained(s) ==
    /\ pc[s] = "draining"
    /\ EndSession(s, "served")
    /\ UNCHANGED <<coordinatorVars, lease, attempt, cancelled, ui, aborted,
                   launchFailures>>

-----------------------------------------------------------------------------
(* The environment: the UI thread and the children themselves.              *)

Startup ==
    /\ ui = "starting"
    /\ ui' = "running"
    /\ IF ExitAfterUse
       THEN UNCHANGED <<initializing, initializer, aborted>>
       ELSE PrepareAsync
    /\ UNCHANGED <<ready, stopping, slots, sessionVars, launchFailures>>

\* The tokens once the open on thread s has cancelled every earlier one.
SupersededBy(s) == [t \in Sessions |-> t # s]

\* A new open cancels every earlier generation and starts its own thread.
BeginOpen(s) ==
    /\ ui \in {"running", "stopped"}
    /\ pc[s] = "idle"
    /\ Goto(s, "start")
    /\ cancelled' = SupersededBy(s)
    /\ attempt' = [attempt EXCEPT ![s] = 1]
    /\ outcome' = [outcome EXCEPT ![s] = "none"]
    /\ UNCHANGED <<coordinatorVars, lease, ui, aborted, launchFailures>>

CancelOpen(s) ==
    /\ ui \in {"running", "stopped"}
    /\ pc[s] # "idle" /\ ~cancelled[s]
    /\ cancelled' = [cancelled EXCEPT ![s] = TRUE]
    /\ UNCHANGED <<coordinatorVars, pc, lease, attempt, outcome, ui, aborted,
                   launchFailures>>

\* Exit, or a render thread that could not start: cancel, join the import
\* threads, and only then Shutdown the coordinator.
CancelAll ==
    /\ ui \in {"running", "stopped"}
    /\ ui' = "joining"
    /\ cancelled' = [s \in Sessions |-> TRUE]
    /\ UNCHANGED <<coordinatorVars, pc, lease, attempt, outcome, aborted,
                   launchFailures>>

ShutdownBegin ==
    /\ ui = "joining"
    /\ ImportThreadsJoined
    /\ ui' = IF stopping THEN "stopped" ELSE "joiningInitializer"
    /\ stopping' = TRUE
    /\ UNCHANGED <<initializing, ready, initializer, slots, sessionVars,
                   aborted, launchFailures>>

\* Seeded bug: join without asking whether there is a thread to join.
InitializerFinished == initializer = "finished"
InitializerJoined == initializer # "running"

ShutdownJoin ==
    /\ ui = "joiningInitializer"
    /\ InitializerJoined
    /\ initializer' = "none"
    /\ ui' = "takingPool"
    /\ UNCHANGED <<initializing, ready, stopping, slots, sessionVars, aborted,
                   launchFailures>>

ShutdownTakePool ==
    /\ ui = "takingPool"
    /\ ready' = FALSE
    /\ ui' = "stopped"
    /\ UNCHANGED <<initializing, stopping, initializer, slots, sessionVars,
                   aborted, launchFailures>>

ProcessDies(i) ==
    /\ WorkerFaults /\ ready
    /\ slots[i].process # "dead"
    /\ slots' = [slots EXCEPT ![i].process = "dead"]
    /\ UNCHANGED <<initializing, ready, stopping, initializer, sessionVars,
                   ui, aborted, launchFailures>>

SessionStep(s) ==
    \/ StartSession(s)
    \/ PrepareNowReady(s) \/ PrepareNowRefused(s)
    \/ PrepareNowLaunch(s) \/ PrepareNowInstall(s)
    \/ AcquireIdle(s) \/ AcquireNothing(s) \/ SendStart(s)
    \/ ReleaseReusable(s)
    \/ TerminateWorker(s) \/ PublishReplacement(s)
    \/ ReplacementLost(s) \/ ReleaseReplaced(s)
    \/ ReleaseAndExit(s) \/ HostDrained(s)

Shutdown == ShutdownBegin \/ ShutdownJoin \/ ShutdownTakePool

Next ==
    /\ ~aborted
    /\ \/ Startup \/ CancelAll \/ Shutdown \/ InitializerThread
       \/ \E s \in Sessions : SessionStep(s) \/ BeginOpen(s) \/ CancelOpen(s)
       \/ \E i \in Slots : ProcessDies(i)

Spec == Init /\ [][Next]_vars

\* Threads are scheduled, and what a thread waits for outside the coordinator
\* (a launch, a generation with its deadline, a bounded drain) ends by itself.
Fairness ==
    /\ \A s \in Sessions : WF_vars(~aborted /\ SessionStep(s))
    /\ WF_vars(~aborted /\ InitializerThread)
    /\ WF_vars(~aborted /\ (Startup \/ Shutdown))

FairSpec == Spec /\ Fairness

-----------------------------------------------------------------------------
(* Correctness.                                                             *)

\* Every variable has its type.
TypeOK ==
    /\ initializing \in BOOLEAN /\ ready \in BOOLEAN /\ stopping \in BOOLEAN
    /\ initializer \in {"none", "running", "finished"}
    /\ slots \in [Slots -> [process : ProcessStates, busy : BOOLEAN]]
    /\ pc \in [Sessions -> Locations]
    /\ lease \in [Sessions -> Slots \cup {NoSlot}]
    /\ attempt \in [Sessions -> 1..2]
    /\ cancelled \in [Sessions -> BOOLEAN]
    /\ outcome \in [Sessions ->
                        {"none", "served", "cancelled", "launchFailed"}]
    /\ ui \in {"starting", "running", "joining", "joiningInitializer",
               "takingPool", "stopped"}
    /\ aborted \in BOOLEAN
    /\ launchFailures \in 0..MaxLaunchFailures

\* AcquireIdle hands out a process nobody else is using: two sessions that
\* talk to a child never talk to the same one (WorkerPool::busy).
ExclusiveLease ==
    \A s, t \in Sessions :
        (s # t /\ {pc[s], pc[t]} \subseteq {"leased", "using"})
            => lease[s] # lease[t]

\* A leased child never still has another session's request open on its
\* pipes: Release is reached only after a drained reply or a replacement.
NoDirtyReuse ==
    \A s \in Sessions :
        pc[s] = "leased" => slots[lease[s]].process # "serving"

\* No lease outlives its pool: neither Shutdown nor the teardown of a host
\* that exits after use destroys the WorkerPool a Lease still points into.
NoLeaseOutlivesPool == \A s \in Sessions : HoldsLease(s) => ready

\* Slots that are busy although no session holds their lease.
Leaked == {i \in Slots : slots[i].busy /\
              \A s \in Sessions : HoldsLease(s) => lease[s] # i}

\* A slot that is busy without a session holding its lease was lost to a
\* replacement that did not launch: no other path through Release, and no
\* interleaving of them, loses a worker.
NoSlotLeak == ready => Cardinality(Leaked) <= launchFailures

\* As many launches failed as there are workers, and all of them are lost.  The
\* pool still counts as ready, and Acquire goes on waiting for a release.
Exhausted == launchFailures >= PoolSize /\ ready /\ Leaked = Slots

\* A generation that waited behind the previous host lease is not told that
\* the launch failed because that host exited: only a launch that did fail,
\* or Shutdown, is reported as LaunchWorker.
NoSpuriousLaunchFailure ==
    (launchFailures = 0 /\ ~stopping) =>
        \A s \in Sessions : outcome[s] # "launchFailed"

\* The wait for a process ends while the pool has a worker left: a session in
\* Acquire gets one, is cancelled by a newer open or by the user, or learns
\* that there is none.  Behind an exhausted pool, and after std::terminate, it
\* does not.
AcquireReturns ==
    \A s \in Sessions :
        (pc[s] = "acquire" /\ ~aborted)
            ~> (pc[s] # "acquire" \/ aborted \/ Exhausted)

\* Closing never hangs on the import threads or the initializer: once the UI
\* thread starts joining, Shutdown completes.
ShutdownCompletes == ui = "joining" ~> ui = "stopped"

=============================================================================
