--------------------- MODULE ProcessCoordinatorProofs ---------------------
(* Proofs about ProcessCoordinator, for every set of sessions, pool size and
   bound on failed launches.                                                *)
EXTENDS ProcessCoordinator, FiniteSetTheorems, TLAPS

SlotType == [process : ProcessStates, busy : BOOLEAN]

(* What InstallPool leaves in the slots is typed, published or not.         *)
LEMMA InstallTyped ==
  ASSUME slots \in [Slots -> SlotType], NEW ok \in BOOLEAN, InstallPool(ok),
         ready \in BOOLEAN, launchFailures \in 0..MaxLaunchFailures
  PROVE  /\ slots' \in [Slots -> SlotType]
         /\ initializing' \in BOOLEAN /\ ready' \in BOOLEAN
         /\ launchFailures' \in 0..MaxLaunchFailures
<1>1. FreshSlot \in SlotType
  BY DEF FreshSlot, SlotType, ProcessStates
<1>2. [i \in Slots |-> FreshSlot] \in [Slots -> SlotType]
  BY <1>1
<1>3. slots' \in [Slots -> SlotType]
  BY <1>2 DEF InstallPool
<1>4. initializing' \in BOOLEAN /\ ready' \in BOOLEAN
  BY DEF InstallPool
<1>5. launchFailures' \in 0..MaxLaunchFailures
  <2>1. CASE ok
    BY <2>1 DEF InstallPool
  <2>2. CASE ~ok
    BY <2>2, CoordinatorAssumption
    DEF InstallPool, LaunchFails, CoordinatorAssumption
  <2> QED
    BY <2>1, <2>2
<1> QED
  BY <1>3, <1>4, <1>5

(* Type correctness: every step of every thread keeps every variable of the
   coordinator, the sessions and the UI thread in its type.                 *)
THEOREM TypeCorrect == Spec => []TypeOK
<1>1. Init => TypeOK
  <2> SUFFICES ASSUME Init PROVE TypeOK
    OBVIOUS
  <2>1. slots \in [Slots -> [process : ProcessStates, busy : BOOLEAN]]
    BY DEF Init, FreshSlot, ProcessStates
  <2>2. /\ initializing \in BOOLEAN /\ ready \in BOOLEAN
        /\ stopping \in BOOLEAN /\ aborted \in BOOLEAN
        /\ cancelled \in [Sessions -> BOOLEAN]
    BY DEF Init
  <2>3. /\ lease \in [Sessions -> Slots \cup {NoSlot}]
        /\ attempt \in [Sessions -> 1..2]
        /\ launchFailures \in 0..MaxLaunchFailures
    BY CoordinatorAssumption DEF CoordinatorAssumption, Init
  <2>4. pc \in [Sessions -> Locations]
    BY DEF Init, Locations
  <2> QED
    BY <2>1, <2>2, <2>3, <2>4 DEF Init, TypeOK
<1>2. TypeOK /\ [Next]_vars => TypeOK'
  <2> SUFFICES ASSUME TypeOK, [Next]_vars PROVE TypeOK'
    OBVIOUS
  <2> USE CoordinatorAssumption
      DEF CoordinatorAssumption, TypeOK, Slots, FreshSlot, DrainedSlot, ProcessStates, Locations,
          NoSlot, Goto, EndSession, FailSession
  <2>1. CASE UNCHANGED vars
    BY <2>1 DEF vars, coordinatorVars, sessionVars
  <2>2. CASE Startup
    BY <2>2 DEF Startup, PrepareAsync, sessionVars
  <2>3. CASE CancelAll
    BY <2>3 DEF CancelAll, coordinatorVars
  <2>4. CASE Shutdown
    BY <2>4 DEF Shutdown, ShutdownBegin, ShutdownJoin, ShutdownTakePool,
                sessionVars
  <2>5. CASE InitializerThread
    <3>1. /\ slots' \in [Slots -> [process : ProcessStates, busy : BOOLEAN]]
          /\ initializing' \in BOOLEAN /\ ready' \in BOOLEAN
          /\ launchFailures' \in 0..MaxLaunchFailures
      BY <2>5, InstallTyped DEF InitializerThread, SlotType
    <3> QED
      BY <2>5, <3>1 DEF InitializerThread, sessionVars
  <2>6. ASSUME NEW s \in Sessions, SessionStep(s) PROVE TypeOK'
    <3>1. CASE StartSession(s)
      BY <3>1 DEF StartSession, PrepareAsync
    <3>2. CASE PrepareNowReady(s)
      BY <3>2 DEF PrepareNowReady, coordinatorVars
    <3>3. CASE PrepareNowRefused(s)
      BY <3>3 DEF PrepareNowRefused, coordinatorVars
    <3>4. CASE PrepareNowLaunch(s)
      BY <3>4 DEF PrepareNowLaunch
    <3>5. CASE PrepareNowInstall(s)
      <4>1. /\ slots' \in [Slots -> [process : ProcessStates,
                                     busy : BOOLEAN]]
            /\ initializing' \in BOOLEAN /\ ready' \in BOOLEAN
            /\ launchFailures' \in 0..MaxLaunchFailures
        BY <3>5, InstallTyped DEF PrepareNowInstall, SlotType
      <4>2. /\ pc' \in [Sessions -> Locations]
            /\ outcome' \in [Sessions ->
                              {"none", "served", "cancelled", "launchFailed"}]
        BY <3>5 DEF PrepareNowInstall
      <4> QED
        BY <3>5, <4>1, <4>2 DEF PrepareNowInstall
    <3>6. CASE AcquireIdle(s)
      <4>1. PICK i \in Slots : TakeSlot(s, i)
        BY <3>6 DEF AcquireIdle, IdleSlots
      <4>2. slots' \in [Slots -> [process : ProcessStates, busy : BOOLEAN]]
        BY <4>1 DEF TakeSlot
      <4>3. lease' \in [Sessions -> Slots \cup {NoSlot}]
        BY <4>1 DEF TakeSlot
      <4> QED
        BY <3>6, <4>2, <4>3 DEF AcquireIdle
    <3>7. CASE AcquireNothing(s)
      BY <3>7 DEF AcquireNothing, RetriesOnce, coordinatorVars
    <3>8. CASE SendStart(s)
      BY ZenonT(60), <3>8 DEF SendStart
    <3>9. CASE ReleaseReusable(s)
      BY <3>9 DEF ReleaseReusable
    <3>10. CASE TerminateWorker(s)
      BY <3>10 DEF TerminateWorker
    <3>11. CASE PublishReplacement(s)
      BY <3>11 DEF PublishReplacement
    <3>12. CASE ReplacementLost(s)
      BY <3>12 DEF ReplacementLost, LaunchFails, coordinatorVars
    <3>13. CASE ReleaseReplaced(s)
      BY <3>13 DEF ReleaseReplaced
    <3>14. CASE ReleaseAndExit(s)
      BY <3>14 DEF ReleaseAndExit
    <3>15. CASE HostDrained(s)
      BY <3>15 DEF HostDrained, coordinatorVars
    <3> QED
      BY <2>6, <3>1, <3>2, <3>3, <3>4, <3>5, <3>6, <3>7, <3>8, <3>9, <3>10,
         <3>11, <3>12, <3>13, <3>14, <3>15 DEF SessionStep
  <2>7. ASSUME NEW s \in Sessions, BeginOpen(s) \/ CancelOpen(s)
        PROVE TypeOK'
    <3>1. cancelled' \in [Sessions -> BOOLEAN]
      <4>1. CASE BeginOpen(s)
        <5>1. SupersededBy(s) \in [Sessions -> BOOLEAN]
          BY Zenon DEF SupersededBy
        <5> QED
          BY <4>1, <5>1 DEF BeginOpen
      <4>2. CASE CancelOpen(s)
        BY <4>2 DEF CancelOpen
      <4> QED
        BY <2>7, <4>1, <4>2
    <3>2. /\ pc' \in [Sessions -> Locations]
          /\ attempt' \in [Sessions -> 1..2]
          /\ outcome' \in [Sessions ->
                            {"none", "served", "cancelled", "launchFailed"}]
      BY SMTT(30), <2>7 DEF BeginOpen, CancelOpen
    <3> QED
      BY <2>7, <3>1, <3>2 DEF BeginOpen, CancelOpen, coordinatorVars
  <2>8. ASSUME NEW i \in Slots, ProcessDies(i) PROVE TypeOK'
    BY <2>8 DEF ProcessDies, sessionVars
  <2> QED
    BY <2>1, <2>2, <2>3, <2>4, <2>5, <2>6, <2>7, <2>8 DEF Next
<1> QED
  BY <1>1, <1>2, PTL DEF Spec
-----------------------------------------------------------------------------
(***************************************************************************)
(* Exclusive leases.  Release's unlocked replacement breaks them, so they  *)
(* are proved for the coordinators that never replace a worker: hosts that *)
(* exit after use, and a pool whose children always answer.                *)
(***************************************************************************)
NothingReplaced == ExitAfterUse \/ ~WorkerFaults

\* At most one thread launches a pool, and only while there is none.
LaunchInv ==
    /\ initializer = "running" => initializing
    /\ \A s \in Sessions : pc[s] = "launching" => initializing
    /\ \A s, t \in Sessions :
          pc[s] = "launching" /\ pc[t] = "launching" => s = t
    /\ initializing => ~ready
    /\ ExitAfterUse => initializer = "none"
    /\ ~ExitAfterUse =>
          \A s \in Sessions : pc[s] \notin {"prepare", "launching", "draining"}

\* Shutdown works on the pool only once every import thread is joined.
ShutdownInv ==
    ui \in {"joiningInitializer", "takingPool"} => ImportThreadsJoined

\* A lease points at a worker of the pool that is there.
LeaseInv == \A s \in Sessions : HoldsLease(s) => ready /\ lease[s] \in Slots

\* Nobody is replacing, and a worker in use is marked busy, has one user,
\* and was drained when it was handed out.
ExclusiveInv ==
    /\ \A s \in Sessions : pc[s] \notin {"replacing", "replaced"}
    /\ ~WorkerFaults => \A i \in Slots : slots[i].process # "dead"
    /\ \A s \in Sessions : HoldsLease(s) => slots[lease[s]].busy
    /\ ExclusiveLease
    /\ ready => \A i \in Slots : ~slots[i].busy => slots[i].process # "serving"
    /\ NoDirtyReuse

CoordinatorInv ==
    /\ TypeOK
    /\ LaunchInv
    /\ ShutdownInv
    /\ LeaseInv
    /\ NothingReplaced => ExclusiveInv

LEMMA LaunchStep ==
  ASSUME TypeOK, LaunchInv, [Next]_vars
  PROVE  LaunchInv'
<1> USE DEF LaunchInv, TypeOK, Goto, EndSession, FailSession
<1>1. CASE UNCHANGED vars
  BY <1>1 DEF vars, coordinatorVars, sessionVars
<1>2. CASE Startup
  BY <1>2 DEF Startup, PrepareAsync, sessionVars
<1>3. CASE CancelAll
  BY <1>3 DEF CancelAll, coordinatorVars
<1>4. CASE Shutdown
  BY <1>4 DEF Shutdown, ShutdownBegin, ShutdownJoin, InitializerJoined,
              ShutdownTakePool, sessionVars
<1>5. CASE InitializerThread
  <2>1. ~initializing' /\ initializer' = "finished" /\ pc' = pc
    BY <1>5 DEF InitializerThread, InstallPool, sessionVars
  <2>2. ~ExitAfterUse
    BY <1>5 DEF InitializerThread
  <2> QED
    BY <2>1, <2>2
<1>6. ASSUME NEW s \in Sessions, SessionStep(s) PROVE LaunchInv'
  <2>1. CASE StartSession(s)
    BY <2>1 DEF StartSession, PrepareAsync
  <2>2. CASE PrepareNowReady(s) \/ PrepareNowRefused(s) \/ PrepareNowLaunch(s)
    BY <2>2 DEF PrepareNowReady, PrepareNowRefused, PrepareNowLaunch,
                coordinatorVars
  <2>3. CASE PrepareNowInstall(s)
    <3>1. /\ ~initializing' /\ initializer' = initializer
          /\ pc'[s] # "launching"
          /\ \A t \in Sessions : t # s => pc'[t] = pc[t]
      BY <2>3 DEF PrepareNowInstall, InstallPool
    <3>2. initializer # "running" /\ ExitAfterUse
      BY <2>3 DEF PrepareNowInstall
    <3> QED
      BY <2>3, <3>1, <3>2 DEF PrepareNowInstall
  <2>4. CASE AcquireIdle(s) \/ AcquireNothing(s) \/ SendStart(s)
    BY <2>4 DEF AcquireIdle, AcquireNothing, RetriesOnce, SendStart,
                coordinatorVars
  <2>5. CASE ReleaseReusable(s) \/ TerminateWorker(s) \/ PublishReplacement(s)
             \/ ReplacementLost(s) \/ ReleaseReplaced(s)
    BY <2>5 DEF ReleaseReusable, TerminateWorker, PublishReplacement,
                ReplacementLost, ReleaseReplaced, coordinatorVars
  <2>6. CASE ReleaseAndExit(s) \/ HostDrained(s)
    BY <2>6 DEF ReleaseAndExit, HostDrained, coordinatorVars
  <2> QED
    BY <1>6, <2>1, <2>2, <2>3, <2>4, <2>5, <2>6 DEF SessionStep
<1>7. ASSUME NEW s \in Sessions, BeginOpen(s) \/ CancelOpen(s)
      PROVE  LaunchInv'
  BY <1>7 DEF BeginOpen, CancelOpen, coordinatorVars
<1>8. ASSUME NEW i \in Slots, ProcessDies(i) PROVE LaunchInv'
  BY <1>8 DEF ProcessDies, sessionVars
<1> QED
  BY <1>1, <1>2, <1>3, <1>4, <1>5, <1>6, <1>7, <1>8 DEF Next

LEMMA ShutdownStep ==
  ASSUME TypeOK, ShutdownInv, [Next]_vars
  PROVE  ShutdownInv'
<1> USE DEF ShutdownInv, ImportThreadsJoined, TypeOK
<1>1. CASE UNCHANGED vars
  BY <1>1 DEF vars, sessionVars
<1>2. CASE Startup \/ CancelAll \/ InitializerThread
  BY <1>2 DEF Startup, CancelAll, InitializerThread, sessionVars
<1>3. CASE Shutdown
  BY <1>3 DEF Shutdown, ShutdownBegin, ShutdownJoin, ShutdownTakePool,
              sessionVars
<1>4. ASSUME NEW s \in Sessions, SessionStep(s) PROVE ShutdownInv'
  <2>1. pc[s] # "idle" /\ ui' = ui
    BY <1>4 DEF SessionStep, StartSession, PrepareNowReady, PrepareNowRefused,
       PrepareNowLaunch, PrepareNowInstall, AcquireIdle, AcquireNothing,
       SendStart, ReleaseReusable, TerminateWorker, PublishReplacement,
       ReplacementLost, ReleaseReplaced, ReleaseAndExit, HostDrained
  <2> QED
    BY <2>1
<1>5. ASSUME NEW s \in Sessions, BeginOpen(s) \/ CancelOpen(s)
      PROVE  ShutdownInv'
  BY <1>5 DEF BeginOpen, CancelOpen
<1>6. ASSUME NEW i \in Slots, ProcessDies(i) PROVE ShutdownInv'
  BY <1>6 DEF ProcessDies, sessionVars
<1> QED
  BY <1>1, <1>2, <1>3, <1>4, <1>5, <1>6 DEF Next

LEMMA LeaseStep ==
  ASSUME TypeOK, LaunchInv, ShutdownInv, LeaseInv,
         NothingReplaced => ExclusiveInv, [Next]_vars
  PROVE  LeaseInv'
<1> USE DEF LeaseInv, HoldsLease, TypeOK, Goto, EndSession, FailSession
<1>1. CASE UNCHANGED vars
  BY <1>1 DEF vars, coordinatorVars, sessionVars
<1>2. CASE Startup \/ CancelAll
  BY <1>2 DEF Startup, CancelAll, coordinatorVars, sessionVars
<1>3. CASE Shutdown
  BY <1>3 DEF Shutdown, ShutdownBegin, ShutdownJoin, ShutdownTakePool,
              ShutdownInv, ImportThreadsJoined, sessionVars
<1>4. CASE InitializerThread
  BY <1>4 DEF InitializerThread, InstallPool, LaunchInv, sessionVars
<1>5. ASSUME NEW s \in Sessions, SessionStep(s) PROVE LeaseInv'
  <2>1. CASE StartSession(s)
    BY <2>1 DEF StartSession
  <2>2. CASE PrepareNowReady(s) \/ PrepareNowRefused(s) \/ PrepareNowLaunch(s)
    BY <2>2 DEF PrepareNowReady, PrepareNowRefused, PrepareNowLaunch,
                coordinatorVars
  <2>3. CASE PrepareNowInstall(s)
    <3>1. ~ready
      BY <2>3 DEF PrepareNowInstall, LaunchInv
    <3>2. /\ lease' = lease
          /\ pc'[s] \in {"acquire", "idle"}
          /\ \A t \in Sessions : t # s => pc'[t] = pc[t]
      BY <2>3 DEF PrepareNowInstall
    <3> QED
      BY <3>1, <3>2
  <2>4. CASE AcquireIdle(s)
    BY <2>4 DEF AcquireIdle, IdleSlots, TakeSlot
  <2>5. CASE AcquireNothing(s) \/ SendStart(s)
    BY <2>5 DEF AcquireNothing, SendStart, coordinatorVars
  <2>6. CASE ReleaseReusable(s) \/ TerminateWorker(s) \/ PublishReplacement(s)
             \/ ReplacementLost(s) \/ ReleaseReplaced(s)
    BY <2>6 DEF ReleaseReusable, TerminateWorker, PublishReplacement,
                ReplacementLost, ReleaseReplaced, coordinatorVars
  <2>7. CASE ReleaseAndExit(s)
    <3>1. ExclusiveLease /\ PoolSize = 1
          /\ \A t \in Sessions : pc[t] \notin {"replacing", "replaced"}
      BY <2>7, CoordinatorAssumption
      DEF ReleaseAndExit, NothingReplaced, ExclusiveInv, CoordinatorAssumption
    <3>2. \A t \in Sessions : HoldsLease(t) => t = s
      BY <2>7, <3>1 DEF ReleaseAndExit, ExclusiveLease, Slots
    <3> QED
      BY <2>7, <3>2 DEF ReleaseAndExit
  <2>8. CASE HostDrained(s)
    BY <2>8 DEF HostDrained, coordinatorVars
  <2> QED
    BY <1>5, <2>1, <2>2, <2>3, <2>4, <2>5, <2>6, <2>7, <2>8 DEF SessionStep
<1>6. ASSUME NEW s \in Sessions, BeginOpen(s) \/ CancelOpen(s)
      PROVE  LeaseInv'
  BY <1>6 DEF BeginOpen, CancelOpen, coordinatorVars
<1>7. ASSUME NEW i \in Slots, ProcessDies(i) PROVE LeaseInv'
  BY <1>7 DEF ProcessDies, sessionVars
<1> QED
  BY <1>1, <1>2, <1>3, <1>4, <1>5, <1>6, <1>7 DEF Next

(* The heart of the argument: a worker changes hands only through its busy
   flag, and every step that publishes a new pool finds no lease.           *)
LEMMA ExclusiveStep ==
  ASSUME TypeOK, LaunchInv, ShutdownInv, LeaseInv, NothingReplaced,
         ExclusiveInv, [Next]_vars
  PROVE  ExclusiveInv'
<1> USE DEF ExclusiveInv, ExclusiveLease, NoDirtyReuse, HoldsLease, TypeOK,
            LeaseInv, Goto, EndSession, FailSession
<1>1. CASE UNCHANGED vars
  BY <1>1 DEF vars, coordinatorVars, sessionVars
<1>2. CASE Startup \/ CancelAll
  BY <1>2 DEF Startup, CancelAll, coordinatorVars, sessionVars
<1>3. CASE Shutdown
  BY <1>3 DEF Shutdown, ShutdownBegin, ShutdownJoin, ShutdownTakePool,
              sessionVars
<1>4. ASSUME NEW ok \in BOOLEAN, InstallPool(ok), ~ready, lease' = lease,
             \A t \in Sessions : pc'[t] = pc[t]
                                \/ pc'[t] \in {"acquire", "idle"}
      PROVE  ExclusiveInv'
  <2>1. \A t \in Sessions : ~HoldsLease(t) /\ ~HoldsLease(t)'
    BY <1>4
  <2>2. \A i \in Slots : slots'[i] = slots[i] \/ slots'[i] = FreshSlot
    BY <1>4 DEF InstallPool
  <2>3. ready' => \A i \in Slots : slots'[i] = FreshSlot
    BY <1>4 DEF InstallPool
  <2>4. /\ \A s \in Sessions : pc'[s] \notin {"replacing", "replaced"}
        /\ ~WorkerFaults => \A i \in Slots : slots'[i].process # "dead"
        /\ ready' => \A i \in Slots :
              ~slots'[i].busy => slots'[i].process # "serving"
    BY <2>1, <2>2, <2>3 DEF FreshSlot
  <2> QED
    BY <2>1, <2>4
<1>5. CASE InitializerThread
  BY <1>4, <1>5 DEF InitializerThread, LaunchInv, sessionVars
<1>6. ASSUME NEW s \in Sessions, SessionStep(s) PROVE ExclusiveInv'
  <2>1. CASE StartSession(s)
    BY <2>1 DEF StartSession
  <2>2. CASE PrepareNowReady(s) \/ PrepareNowRefused(s) \/ PrepareNowLaunch(s)
    BY <2>2 DEF PrepareNowReady, PrepareNowRefused, PrepareNowLaunch,
                coordinatorVars
  <2>3. CASE PrepareNowInstall(s)
    <3>1. ~ready
      BY <2>3 DEF PrepareNowInstall, LaunchInv
    <3> QED
      BY <1>4, <2>3, <3>1 DEF PrepareNowInstall
  <2>4. CASE AcquireIdle(s)
    <3>1. PICK i \in Slots : ~slots[i].busy /\ TakeSlot(s, i)
      BY <2>4 DEF AcquireIdle, IdleSlots
    <3>2. \A t \in Sessions : HoldsLease(t) => lease[t] # i
      BY <3>1
    <3> QED
      BY <2>4, <3>1, <3>2 DEF AcquireIdle, TakeSlot
  <2>5. CASE AcquireNothing(s)
    BY <2>5 DEF AcquireNothing, coordinatorVars
  <2>6. CASE SendStart(s)
    BY <2>6 DEF SendStart
  <2>7. CASE ReleaseReusable(s)
    BY <2>7 DEF ReleaseReusable, DrainedSlot, FreshSlot
  <2>8. ~TerminateWorker(s)
    BY DEF TerminateWorker, NothingReplaced
  <2>9. ~PublishReplacement(s) /\ ~ReplacementLost(s) /\ ~ReleaseReplaced(s)
    BY DEF PublishReplacement, ReplacementLost, ReleaseReplaced
  <2>10. CASE ReleaseAndExit(s)
    BY <2>10 DEF ReleaseAndExit
  <2>11. CASE HostDrained(s)
    BY <2>11 DEF HostDrained, coordinatorVars
  <2> QED
    BY <1>6, <2>1, <2>2, <2>3, <2>4, <2>5, <2>6, <2>7, <2>8, <2>9, <2>10,
       <2>11 DEF SessionStep
<1>7. ASSUME NEW s \in Sessions, BeginOpen(s) \/ CancelOpen(s)
      PROVE  ExclusiveInv'
  BY <1>7 DEF BeginOpen, CancelOpen, coordinatorVars
<1>8. ASSUME NEW i \in Slots, ProcessDies(i) PROVE ExclusiveInv'
  BY <1>8 DEF ProcessDies, sessionVars
<1> QED
  BY <1>1, <1>2, <1>3, <1>5, <1>6, <1>7, <1>8 DEF Next

(* The inductive invariant of the coordinator, the import threads and the
   UI thread's shutdown holds in every reachable state.                     *)
THEOREM CoordinatorInvariant == Spec => []CoordinatorInv
<1>1. Init => LaunchInv /\ ShutdownInv /\ LeaseInv /\ ExclusiveInv
  BY DEF Init, LaunchInv, ShutdownInv, LeaseInv, HoldsLease, ExclusiveInv,
         ExclusiveLease, NoDirtyReuse, ImportThreadsJoined, FreshSlot
<1>2. TypeOK /\ CoordinatorInv /\ [Next]_vars
        => LaunchInv' /\ ShutdownInv' /\ LeaseInv'
             /\ (NothingReplaced => ExclusiveInv)'
  <2> SUFFICES ASSUME TypeOK, CoordinatorInv, [Next]_vars
               PROVE  LaunchInv' /\ ShutdownInv' /\ LeaseInv'
                        /\ (NothingReplaced => ExclusiveInv)'
    OBVIOUS
  <2>1. LaunchInv' /\ ShutdownInv' /\ LeaseInv'
    BY LaunchStep, ShutdownStep, LeaseStep DEF CoordinatorInv
  <2>2. NothingReplaced' <=> NothingReplaced
    BY DEF NothingReplaced
  <2>3. ASSUME NothingReplaced PROVE ExclusiveInv'
    BY <2>3, ExclusiveStep DEF CoordinatorInv
  <2> QED
    BY <2>1, <2>2, <2>3
<1> QED
  BY <1>1, <1>2, TypeCorrect, PTL DEF CoordinatorInv, Spec

(* Two sessions never talk to one child, in a coordinator whose host exits
   after use, and in a pool whose children always answer in time.           *)
THEOREM LeasesAreExclusive ==
  ASSUME NothingReplaced
  PROVE  Spec => []ExclusiveLease
<1>1. CoordinatorInv => ExclusiveLease
  BY DEF CoordinatorInv, ExclusiveInv
<1> QED
  BY <1>1, CoordinatorInvariant, PTL

(* Nor is a child leased that still has a request open on its pipes.        *)
THEOREM LeasesAreDrained ==
  ASSUME NothingReplaced
  PROVE  Spec => []NoDirtyReuse
<1>1. CoordinatorInv => NoDirtyReuse
  BY DEF CoordinatorInv, ExclusiveInv
<1> QED
  BY <1>1, CoordinatorInvariant, PTL

(* No lease points into a pool that Shutdown or a host's teardown has
   destroyed, whatever the children do and however launches fail.           *)
THEOREM LeasesNeverDangle == Spec => []NoLeaseOutlivesPool
<1>1. CoordinatorInv => NoLeaseOutlivesPool
  BY DEF CoordinatorInv, LeaseInv, NoLeaseOutlivesPool
<1> QED
  BY <1>1, CoordinatorInvariant, PTL

-----------------------------------------------------------------------------
(* The lost workers.                                                        *)

(* A step that leaks no slot, or one slot and counts a failed launch, keeps
   the account.                                                             *)
LEMMA LeakAccount ==
  ASSUME TypeOK, NoSlotLeak, ready,
         \/ Leaked' \subseteq Leaked /\ launchFailures' \in {launchFailures, launchFailures + 1}
         \/ /\ launchFailures' = launchFailures + 1
            /\ \E i : Leaked' \subseteq Leaked \cup {i}
  PROVE  NoSlotLeak'
<1>1. IsFiniteSet(Slots)
  BY CoordinatorAssumption, FS_Interval DEF Slots, CoordinatorAssumption
<1>2. IsFiniteSet(Leaked) /\ Cardinality(Leaked) \in Nat
      /\ Cardinality(Leaked) <= launchFailures /\ launchFailures \in Nat
  BY <1>1, FS_Subset, FS_CardinalityType, CoordinatorAssumption
  DEF Leaked, NoSlotLeak, TypeOK, CoordinatorAssumption
<1>3. NoSlotLeak' <=> (ready' => Cardinality(Leaked') <= launchFailures')
  BY DEF NoSlotLeak, Leaked
<1>4. CASE Leaked' \subseteq Leaked /\ launchFailures' \in {launchFailures, launchFailures + 1}
  <2>1. Cardinality(Leaked') <= Cardinality(Leaked) /\ Cardinality(Leaked') \in Nat
    BY <1>2, <1>4, FS_Subset, FS_CardinalityType
  <2> QED
    BY <1>2, <1>3, <1>4, <2>1
<1>5. ASSUME NEW i, Leaked' \subseteq Leaked \cup {i},
             launchFailures' = launchFailures + 1
      PROVE  NoSlotLeak'
  <2>0. /\ IsFiniteSet(Leaked \cup {i})
        /\ Cardinality(Leaked \cup {i}) =
              IF i \in Leaked THEN Cardinality(Leaked) ELSE Cardinality(Leaked) + 1
    BY <1>2, FS_AddElement
  <2>1. /\ IsFiniteSet(Leaked \cup {i}) /\ Cardinality(Leaked \cup {i}) \in Nat
        /\ Cardinality(Leaked \cup {i}) <= Cardinality(Leaked) + 1
    BY <1>2, <2>0
  <2>2. Cardinality(Leaked') <= Cardinality(Leaked \cup {i}) /\ Cardinality(Leaked') \in Nat
    BY <1>5, <2>1, FS_Subset, FS_CardinalityType
  <2> QED
    BY <1>2, <1>3, <1>5, <2>1, <2>2
<1> QED
  BY <1>4, <1>5

(* Every step keeps the account of lost workers.                            *)
LEMMA LeakStep ==
  ASSUME TypeOK, NoSlotLeak, LaunchInv, [Next]_vars
  PROVE  NoSlotLeak'
<1>1. launchFailures' \in {launchFailures, launchFailures + 1}
  BY DEF Next, vars, Startup, CancelAll, Shutdown, ShutdownBegin, ShutdownJoin,
     ShutdownTakePool, InitializerThread, InstallPool, LaunchFails, SessionStep,
     StartSession, PrepareNowReady, PrepareNowRefused, PrepareNowLaunch,
     PrepareNowInstall, AcquireIdle, AcquireNothing, SendStart,
     ReleaseReusable, TerminateWorker, PublishReplacement, ReplacementLost,
     ReleaseReplaced, ReleaseAndExit, HostDrained, BeginOpen, CancelOpen,
     ProcessDies
<1>2. ASSUME NEW ok \in BOOLEAN, InstallPool(ok), ~ready
      PROVE  NoSlotLeak'
  <2>1. ready' => slots' = [i \in Slots |-> FreshSlot]
    BY <1>2 DEF InstallPool
  <2>2. ready' => Leaked' = {}
    BY <2>1 DEF Leaked, FreshSlot
  <2>3. Cardinality({}) = 0 /\ launchFailures' \in Nat
    BY <1>1, FS_EmptySet, CoordinatorAssumption DEF TypeOK, CoordinatorAssumption
  <2>4. NoSlotLeak' <=> (ready' => Cardinality(Leaked') <= launchFailures')
    BY DEF NoSlotLeak, Leaked
  <2>5. ASSUME ready' PROVE Cardinality(Leaked') <= launchFailures'
    BY <2>2, <2>3, <2>5
  <2> QED
    BY <2>4, <2>5
<1>3. CASE ~ready /\ ~ready'
  BY <1>3 DEF NoSlotLeak
<1>4. CASE ~ready /\ ready'
  <2>1. CASE InitializerThread
    BY <1>2, <1>4, <2>1 DEF InitializerThread
  <2>2. ASSUME NEW s \in Sessions, PrepareNowInstall(s) PROVE NoSlotLeak'
    BY <1>2, <1>4, <2>2 DEF PrepareNowInstall
  <2>3. InitializerThread \/ \E s \in Sessions : PrepareNowInstall(s)
    BY <1>4 DEF Next, vars, Startup, CancelAll, Shutdown, ShutdownBegin, ShutdownJoin,
     ShutdownTakePool, SessionStep, coordinatorVars, sessionVars,
     StartSession, PrepareNowReady, PrepareNowRefused, PrepareNowLaunch,
     AcquireIdle, AcquireNothing, SendStart,
     ReleaseReusable, TerminateWorker, PublishReplacement, ReplacementLost,
     ReleaseReplaced, ReleaseAndExit, HostDrained, BeginOpen, CancelOpen,
     ProcessDies
  <2> QED
    BY <2>1, <2>2, <2>3
<1>5. CASE ready /\ ~ready'
  BY <1>5 DEF NoSlotLeak
<1>6. CASE ready /\ ready'
  <2> USE DEF Leaked, HoldsLease, TypeOK, Goto, EndSession, FailSession
  <2>1. ASSUME Leaked' \subseteq Leaked PROVE NoSlotLeak'
    BY <1>1, <1>6, <2>1, LeakAccount
  <2>2. CASE UNCHANGED vars
    BY <2>1, <2>2 DEF vars, coordinatorVars, sessionVars
  <2>3. CASE Startup \/ CancelAll \/ Shutdown
    BY <2>1, <2>3 DEF Startup, CancelAll, Shutdown, ShutdownBegin, ShutdownJoin,
       ShutdownTakePool, coordinatorVars, sessionVars
  <2>4. CASE InitializerThread
    BY <1>6, <2>4 DEF InitializerThread, LaunchInv
  <2>5. ASSUME NEW s \in Sessions, SessionStep(s) PROVE NoSlotLeak'
    <3>1. CASE StartSession(s) \/ PrepareNowReady(s) \/ PrepareNowRefused(s)
               \/ PrepareNowLaunch(s)
      <4>1. /\ slots' = slots /\ lease' = lease
            /\ ~HoldsLease(s) /\ ~HoldsLease(s)'
            /\ \A t \in Sessions : t # s => pc'[t] = pc[t]
        BY <3>1 DEF StartSession, PrepareNowReady, PrepareNowRefused,
           PrepareNowLaunch, coordinatorVars
      <4> QED
        BY <2>1, <4>1
    <3>2. ~PrepareNowInstall(s)
      BY <1>6 DEF PrepareNowInstall, LaunchInv
    <3>3. CASE AcquireIdle(s)
      <4>1. PICK i \in Slots : TakeSlot(s, i)
        BY <3>3 DEF AcquireIdle, IdleSlots
      <4>2. /\ slots' = [slots EXCEPT ![i].busy = TRUE]
            /\ lease' = [lease EXCEPT ![s] = i]
            /\ ~HoldsLease(s) /\ pc' = [pc EXCEPT ![s] = "leased"]
        BY <3>3, <4>1 DEF TakeSlot, AcquireIdle
      <4>3. HoldsLease(s)' /\ lease'[s] = i
        BY <4>2
      <4>4. \A j \in Slots : j # i => slots'[j].busy = slots[j].busy
        BY <4>2
      <4>5. \A t \in Sessions : t # s => lease'[t] = lease[t] /\ pc'[t] = pc[t]
        BY <4>2
      <4>6. Leaked' \subseteq Leaked
        BY <4>2, <4>3, <4>4, <4>5
      <4> QED
        BY <2>1, <4>6
    <3>4. CASE AcquireNothing(s) \/ SendStart(s) \/ TerminateWorker(s)
      <4>1. /\ lease' = lease
            /\ \A j \in Slots : slots'[j].busy = slots[j].busy
            /\ HoldsLease(s)' = HoldsLease(s)
            /\ \A t \in Sessions : t # s => pc'[t] = pc[t]
        BY <3>4 DEF AcquireNothing, SendStart, TerminateWorker, coordinatorVars
      <4> QED
        BY <2>1, <4>1
    <3>5. CASE PublishReplacement(s)
      <4>1. /\ lease' = lease /\ HoldsLease(s)'
            /\ \A j \in Slots : slots'[j].busy => slots[j].busy
            /\ \A t \in Sessions : t # s => pc'[t] = pc[t]
            /\ HoldsLease(s)
        BY <3>5 DEF PublishReplacement, FreshSlot
      <4> QED
        BY <2>1, <4>1
    <3>6. CASE ReleaseReusable(s) \/ ReleaseReplaced(s)
      <4>1. \A t \in Sessions : t # s => lease'[t] = lease[t] /\ pc'[t] = pc[t]
        BY <3>6 DEF ReleaseReusable, ReleaseReplaced
      <4>2. \A j \in Slots : slots'[j].busy => slots[j].busy /\ j # lease[s]
        BY <3>6 DEF ReleaseReusable, ReleaseReplaced, DrainedSlot, FreshSlot
      <4>3. Leaked' \subseteq Leaked
        BY <4>1, <4>2
      <4> QED
        BY <2>1, <4>3
    <3>7. CASE ReplacementLost(s)
      <4>1. \A t \in Sessions : t # s => lease'[t] = lease[t] /\ pc'[t] = pc[t]
        BY <3>7 DEF ReplacementLost
      <4>2. slots' = slots /\ launchFailures' = launchFailures + 1
        BY <3>7 DEF ReplacementLost, LaunchFails, coordinatorVars
      <4>3. Leaked' \subseteq Leaked \cup {lease[s]}
        BY <4>1, <4>2
      <4> HIDE DEF Leaked
      <4> QED
        BY <1>6, <4>2, <4>3, LeakAccount
    <3>8. ~ReleaseAndExit(s)
      BY <1>6 DEF ReleaseAndExit
    <3>9. CASE HostDrained(s)
      <4>1. /\ slots' = slots /\ lease' = lease
            /\ ~HoldsLease(s) /\ ~HoldsLease(s)'
            /\ \A t \in Sessions : t # s => pc'[t] = pc[t]
        BY <3>9 DEF HostDrained, coordinatorVars
      <4> QED
        BY <2>1, <4>1
    <3> QED
      BY <2>5, <3>1, <3>2, <3>3, <3>4, <3>5, <3>6, <3>7, <3>8, <3>9 DEF SessionStep
  <2>6. ASSUME NEW s \in Sessions, BeginOpen(s) \/ CancelOpen(s)
        PROVE  NoSlotLeak'
    <3>1. /\ slots' = slots /\ lease' = lease
          /\ HoldsLease(s)' = HoldsLease(s)
          /\ \A t \in Sessions : t # s => pc'[t] = pc[t]
      BY <2>6 DEF BeginOpen, CancelOpen, coordinatorVars
    <3> QED
      BY <2>1, <3>1
  <2>7. ASSUME NEW i \in Slots, ProcessDies(i) PROVE NoSlotLeak'
    <3>1. /\ lease' = lease /\ pc' = pc
          /\ \A j \in Slots : slots'[j].busy = slots[j].busy
      BY <2>7 DEF ProcessDies, sessionVars
    <3> QED
      BY <2>1, <3>1
  <2> HIDE DEF Leaked, HoldsLease, TypeOK, Goto, EndSession, FailSession
  <2> QED
    BY <2>2, <2>3, <2>4, <2>5, <2>6, <2>7 DEF Next
<1> QED
  BY <1>3, <1>4, <1>5, <1>6 DEF TypeOK

(* A worker is lost to a replacement that did not launch and to nothing
   else, for any number of import threads and workers.                      *)
THEOREM SlotsAreNotLeaked == Spec => []NoSlotLeak
<1>1. Init => NoSlotLeak
  BY DEF Init, NoSlotLeak
<1>2. CoordinatorInv /\ NoSlotLeak /\ [Next]_vars => NoSlotLeak'
  BY LeakStep DEF CoordinatorInv
<1> QED
  BY <1>1, <1>2, CoordinatorInvariant, PTL DEF Spec

-----------------------------------------------------------------------------
(***************************************************************************)
(* Failures that were none.  While no launch failed and nobody shut down,  *)
(* a pool that was asked for is there or on its way; and a generation that *)
(* takes its second turn at a host is the newest, so every other one is    *)
(* cancelled and nobody can take the host away from it again.              *)
(***************************************************************************)
\* Of two sessions that run, one is superseded; a session starts with its
\* first turn.
OneLive ==
    /\ \A s, t \in Sessions :
          s # t /\ pc[s] # "idle" /\ pc[t] # "idle" => cancelled[s] \/ cancelled[t]
    /\ \A s \in Sessions : pc[s] = "start" => attempt[s] = 1

ClosingStops == ui \in {"joiningInitializer", "takingPool"} => stopping

PoolRoute ==
    /\ initializer # "none" => initializing \/ ready
    /\ \A s \in Sessions : pc[s] = "acquire" => initializing \/ ready

SecondTurn(s) ==
    /\ attempt[s] = 2 /\ ~cancelled[s]
    /\ pc[s] \in {"prepare", "launching", "acquire"}

HostRoute ==
    \A s \in Sessions : SecondTurn(s) =>
        /\ \A t \in Sessions : ~HoldsLease(t)
        /\ pc[s] = "acquire" => initializing \/ ready

\* Has nothing happened that explains a failure?
Untroubled == launchFailures = 0 /\ ~stopping

RouteInv ==
    /\ OneLive
    /\ ClosingStops
    /\ Untroubled =>
          /\ \A s \in Sessions : outcome[s] # "launchFailed"
          /\ IF ExitAfterUse THEN HostRoute ELSE PoolRoute

(* Nothing takes a failed launch or a shutdown back.                        *)
LEMMA TroubleLasts ==
  ASSUME TypeOK, [Next]_vars, Untroubled'
  PROVE  /\ Untroubled
         /\ launchFailures' = launchFailures
<1>1. launchFailures \in Nat
  BY CoordinatorAssumption DEF TypeOK, CoordinatorAssumption
<1>2. stopping => stopping'
  BY DEF Next, vars, coordinatorVars, sessionVars, Startup, CancelAll, Shutdown, ShutdownBegin,
     ShutdownJoin,
     ShutdownTakePool, InitializerThread, SessionStep,
     StartSession, PrepareNowReady, PrepareNowRefused, PrepareNowLaunch,
     PrepareNowInstall, AcquireIdle, AcquireNothing, SendStart,
     ReleaseReusable, TerminateWorker, PublishReplacement, ReplacementLost,
     ReleaseReplaced, ReleaseAndExit, HostDrained, BeginOpen, CancelOpen,
     ProcessDies
<1>3. launchFailures' \in {launchFailures, launchFailures + 1}
  BY DEF Next, vars, Startup, CancelAll, Shutdown, ShutdownBegin,
     ShutdownJoin,
     ShutdownTakePool, InitializerThread, InstallPool, LaunchFails, SessionStep,
     StartSession, PrepareNowReady, PrepareNowRefused, PrepareNowLaunch,
     PrepareNowInstall, AcquireIdle, AcquireNothing, SendStart,
     ReleaseReusable, TerminateWorker, PublishReplacement, ReplacementLost,
     ReleaseReplaced, ReleaseAndExit, HostDrained, BeginOpen, CancelOpen,
     ProcessDies
<1> QED
  BY <1>1, <1>2, <1>3 DEF Untroubled

(* A launch that did not fail leaves a pool, unless the broker shuts down.  *)
LEMMA InstallWorks ==
  ASSUME TypeOK, NEW ok \in BOOLEAN, InstallPool(ok), Untroubled, Untroubled'
  PROVE  ready'
<1>1. launchFailures' # launchFailures + 1
  BY DEF Untroubled
<1> QED
  BY <1>1 DEF InstallPool, LaunchFails, Untroubled

(* Every other generation is superseded when one is opened.                 *)
LEMMA OneLiveStep ==
  ASSUME TypeOK, OneLive, [Next]_vars
  PROVE  OneLive'
<1> USE DEF OneLive, TypeOK, Goto, EndSession, FailSession
<1>1. CASE UNCHANGED vars
  BY <1>1 DEF vars, sessionVars
<1>2. CASE Startup \/ CancelAll \/ Shutdown \/ InitializerThread
  BY <1>2 DEF Startup, CancelAll, Shutdown, ShutdownBegin, ShutdownJoin,
     ShutdownTakePool, InitializerThread, sessionVars
<1>3. ASSUME NEW s \in Sessions, SessionStep(s) PROVE OneLive'
  <2>1. /\ cancelled' = cancelled /\ pc[s] # "idle" /\ pc'[s] # "start"
        /\ \A t \in Sessions : t # s => pc'[t] = pc[t] /\ attempt'[t] = attempt[t]
    BY <1>3 DEF SessionStep,
     StartSession, PrepareNowReady, PrepareNowRefused, PrepareNowLaunch,
     PrepareNowInstall, AcquireIdle, AcquireNothing, SendStart,
     ReleaseReusable, TerminateWorker, PublishReplacement, ReplacementLost,
     ReleaseReplaced, ReleaseAndExit, HostDrained
  <2> QED
    BY <2>1
<1>4. ASSUME NEW s \in Sessions, BeginOpen(s) PROVE OneLive'
  <2>1. /\ \A t \in Sessions : t # s => cancelled'[t] /\ pc'[t] = pc[t]
                                               /\ attempt'[t] = attempt[t]
        /\ attempt'[s] = 1
    BY <1>4 DEF BeginOpen, SupersededBy
  <2> QED
    BY <2>1
<1>5. ASSUME NEW s \in Sessions, CancelOpen(s) PROVE OneLive'
  <2>1. /\ pc' = pc /\ attempt' = attempt
        /\ \A t \in Sessions : cancelled[t] => cancelled'[t]
    BY <1>5 DEF CancelOpen
  <2> QED
    BY <2>1
<1>6. ASSUME NEW i \in Slots, ProcessDies(i) PROVE OneLive'
  BY <1>6 DEF ProcessDies, sessionVars
<1> QED
  BY <1>1, <1>2, <1>3, <1>4, <1>5, <1>6 DEF Next

(* The general pool: whoever waits, waits for something.                    *)
LEMMA PoolRouteStep ==
  ASSUME TypeOK, LaunchInv, ClosingStops, ~ExitAfterUse, Untroubled, Untroubled', PoolRoute,
         [Next]_vars
  PROVE  PoolRoute'
<1> USE DEF PoolRoute, TypeOK, Goto, EndSession, FailSession
<1>1. CASE UNCHANGED vars
  BY <1>1 DEF vars, coordinatorVars, sessionVars
<1>2. CASE Startup \/ CancelAll
  BY <1>2 DEF Startup, CancelAll, PrepareAsync, coordinatorVars, sessionVars
<1>3. CASE Shutdown
  BY <1>3 DEF Shutdown, ShutdownBegin, ShutdownJoin,
     ShutdownTakePool, coordinatorVars, sessionVars, Untroubled, ClosingStops
<1>4. CASE InitializerThread
  <2>1. ready' /\ pc' = pc
    BY <1>4, InstallWorks DEF InitializerThread, sessionVars
  <2> QED
    BY <2>1
<1>5. ASSUME NEW s \in Sessions, SessionStep(s) PROVE PoolRoute'
  <2>1. CASE StartSession(s)
    BY <2>1 DEF StartSession, PrepareAsync, Untroubled
  <2>2. CASE ~StartSession(s)
    <3>1. /\ UNCHANGED <<initializing, initializer, ready>>
          /\ pc'[s] # "acquire"
          /\ \A t \in Sessions : t # s => pc'[t] = pc[t]
      BY <1>5, <2>2 DEF SessionStep, LaunchInv, coordinatorVars, RetriesOnce,
     PrepareNowReady, PrepareNowRefused, PrepareNowLaunch,
     PrepareNowInstall, AcquireIdle, AcquireNothing, SendStart,
     ReleaseReusable, TerminateWorker, PublishReplacement, ReplacementLost,
     ReleaseReplaced, ReleaseAndExit, HostDrained
    <3> QED
      BY <3>1
  <2> QED
    BY <2>1, <2>2
<1>6. ASSUME NEW s \in Sessions, BeginOpen(s) \/ CancelOpen(s) PROVE PoolRoute'
  BY <1>6 DEF BeginOpen, CancelOpen, coordinatorVars
<1>7. ASSUME NEW i \in Slots, ProcessDies(i) PROVE PoolRoute'
  BY <1>7 DEF ProcessDies, sessionVars
<1> QED
  BY <1>1, <1>2, <1>3, <1>4, <1>5, <1>6, <1>7 DEF Next

(* A dedicated host: nobody disturbs the second turn.                       *)
LEMMA HostRouteStep ==
  ASSUME TypeOK, LaunchInv, LeaseInv, OneLive, ClosingStops, ExitAfterUse,
         Untroubled, Untroubled', HostRoute, [Next]_vars
  PROVE  HostRoute'
<1> SUFFICES ASSUME NEW s \in Sessions, SecondTurn(s)'
             PROVE  /\ \A t \in Sessions : ~HoldsLease(t)'
                    /\ pc'[s] = "acquire" => initializing' \/ ready'
  BY DEF HostRoute
<1> USE DEF TypeOK, Goto, EndSession, FailSession
<1>0. /\ attempt'[s] = 2 /\ ~cancelled'[s]
      /\ pc'[s] \in {"prepare", "launching", "acquire"}
  BY DEF SecondTurn
<1>a. ASSUME SecondTurn(s)
      PROVE  /\ \A t \in Sessions : ~HoldsLease(t)
             /\ pc[s] = "acquire" => initializing \/ ready
             /\ \A t \in Sessions : t # s /\ pc[t] # "idle" => cancelled[t]
             /\ pc[s] # "idle" /\ ~cancelled[s]
  BY <1>a DEF HostRoute, SecondTurn, OneLive
<1>1. CASE UNCHANGED vars
  BY <1>0, <1>1, <1>a DEF vars, coordinatorVars, sessionVars, SecondTurn, HoldsLease
<1>2. CASE Startup
  BY <1>0, <1>2, <1>a DEF Startup, sessionVars, SecondTurn, HoldsLease
<1>3. CASE CancelAll
  BY <1>0, <1>3 DEF CancelAll
<1>4. CASE Shutdown
  <2>1. UNCHANGED <<pc, attempt, cancelled>>
    BY <1>4 DEF Shutdown, ShutdownBegin, ShutdownJoin,
       ShutdownTakePool, sessionVars
  <2>2. UNCHANGED <<initializing, ready>> \/ ShutdownTakePool
    BY <1>4 DEF Shutdown, ShutdownBegin, ShutdownJoin
  <2>3. CASE UNCHANGED <<initializing, ready>>
    BY <1>0, <1>a, <2>1, <2>3 DEF SecondTurn, HoldsLease
  <2>4. CASE ShutdownTakePool
    BY <2>4 DEF ShutdownTakePool, ClosingStops, Untroubled
  <2> QED
    BY <2>2, <2>3, <2>4
<1>5. CASE InitializerThread
  BY <1>5 DEF InitializerThread, LaunchInv
<1>6. ASSUME NEW t \in Sessions, t # s, SessionStep(t)
      PROVE  /\ \A u \in Sessions : ~HoldsLease(u)'
             /\ pc'[s] = "acquire" => initializing' \/ ready'
  <2>1. /\ cancelled' = cancelled /\ pc[t] # "idle"
        /\ pc'[s] = pc[s] /\ attempt'[s] = attempt[s]
        /\ \A u \in Sessions : u # t => pc'[u] = pc[u]
    BY <1>6 DEF SessionStep,
     StartSession, PrepareNowReady, PrepareNowRefused, PrepareNowLaunch,
     PrepareNowInstall, AcquireIdle, AcquireNothing, SendStart,
     ReleaseReusable, TerminateWorker, PublishReplacement, ReplacementLost,
     ReleaseReplaced, ReleaseAndExit, HostDrained
  <2>2. SecondTurn(s)
    BY <1>0, <2>1 DEF SecondTurn
  <2>3. cancelled[t] /\ ~HoldsLease(t)
    BY <1>6, <1>a, <2>1, <2>2
  <2>4. CASE StartSession(t) \/ PrepareNowReady(t) \/ PrepareNowRefused(t)
             \/ PrepareNowLaunch(t) \/ AcquireNothing(t) \/ HostDrained(t)
    <3>1. /\ ~HoldsLease(t)'
          /\ ready' = ready /\ (initializing => initializing')
      BY <2>4 DEF StartSession, PrepareNowReady, PrepareNowRefused, PrepareNowLaunch,
         AcquireNothing, HostDrained, coordinatorVars, HoldsLease
    <3> QED
      BY <1>a, <2>1, <2>2, <3>1 DEF HoldsLease
  <2>5. CASE PrepareNowInstall(t)
    <3>1. ready'
      BY <2>5, InstallWorks DEF PrepareNowInstall
    <3>2. ~HoldsLease(t)'
      BY <2>5, <3>1 DEF PrepareNowInstall, HoldsLease
    <3> QED
      BY <1>a, <2>1, <2>2, <3>1, <3>2 DEF HoldsLease
  <2>6. ~AcquireIdle(t)
    BY <2>3 DEF AcquireIdle, GivesUp
  <2>7. ~SendStart(t) /\ ~ReleaseReusable(t) /\ ~TerminateWorker(t)
        /\ ~PublishReplacement(t) /\ ~ReplacementLost(t) /\ ~ReleaseReplaced(t)
        /\ ~ReleaseAndExit(t)
    BY <2>3 DEF SendStart, ReleaseReusable, TerminateWorker, PublishReplacement,
       ReplacementLost, ReleaseReplaced, ReleaseAndExit, HoldsLease
  <2> QED
    BY <1>6, <2>4, <2>5, <2>6, <2>7 DEF SessionStep
<1>7. CASE SessionStep(s)
  <2>1. /\ cancelled' = cancelled
        /\ \A u \in Sessions : u # s => pc'[u] = pc[u]
    BY <1>7 DEF SessionStep,
     StartSession, PrepareNowReady, PrepareNowRefused, PrepareNowLaunch,
     PrepareNowInstall, AcquireIdle, AcquireNothing, SendStart,
     ReleaseReusable, TerminateWorker, PublishReplacement, ReplacementLost,
     ReleaseReplaced, ReleaseAndExit, HostDrained
  <2>2. ~HoldsLease(s)'
    BY <1>0 DEF HoldsLease
  <2>3. CASE AcquireNothing(s)
    <3>1. ~initializing /\ ~ready /\ pc'[s] = "prepare"
      BY <1>0, <2>1, <2>3 DEF AcquireNothing, GivesUp, Untroubled
    <3>2. \A u \in Sessions : ~HoldsLease(u)
      BY <3>1 DEF LeaseInv
    <3> QED
      BY <2>1, <2>2, <3>1, <3>2 DEF HoldsLease
  <2>4. CASE PrepareNowReady(s)
    <3>1. SecondTurn(s) /\ ready'
      BY <1>0, <2>4 DEF PrepareNowReady, SecondTurn, coordinatorVars
    <3> QED
      BY <1>a, <2>1, <2>2, <3>1 DEF HoldsLease
  <2>5. CASE PrepareNowLaunch(s)
    <3>1. SecondTurn(s) /\ pc'[s] = "launching"
      BY <1>0, <2>5 DEF PrepareNowLaunch, SecondTurn
    <3> QED
      BY <1>a, <2>1, <2>2, <3>1 DEF HoldsLease
  <2>6. CASE PrepareNowInstall(s)
    <3>1. ready'
      BY <2>6, InstallWorks DEF PrepareNowInstall
    <3>2. SecondTurn(s)
      BY <1>0, <2>6 DEF PrepareNowInstall, SecondTurn
    <3> QED
      BY <1>a, <2>1, <2>2, <3>1, <3>2 DEF HoldsLease
  <2>7. CASE StartSession(s)
    <3>1. pc[s] = "start" /\ attempt[s] = 2
      BY <1>0, <2>7 DEF StartSession
    <3> QED
      BY <3>1 DEF OneLive
  <2>8. pc'[s] \in {"idle", "leased", "using", "replacing", "replaced", "draining"}
        \/ AcquireNothing(s) \/ PrepareNowReady(s) \/ PrepareNowLaunch(s)
        \/ PrepareNowInstall(s) \/ StartSession(s)
    BY <1>7 DEF SessionStep, PrepareNowRefused, AcquireIdle, SendStart,
     ReleaseReusable, TerminateWorker, PublishReplacement, ReplacementLost,
     ReleaseReplaced, ReleaseAndExit, HostDrained
  <2> QED
    BY <1>0, <2>3, <2>4, <2>5, <2>6, <2>7, <2>8
<1>8. ASSUME NEW t \in Sessions, BeginOpen(t)
      PROVE  FALSE
  BY <1>0, <1>8 DEF BeginOpen, SupersededBy
<1>9. ASSUME NEW t \in Sessions, CancelOpen(t)
      PROVE  /\ \A u \in Sessions : ~HoldsLease(u)'
             /\ pc'[s] = "acquire" => initializing' \/ ready'
  <2>1. SecondTurn(s)
    BY <1>0, <1>9 DEF CancelOpen, SecondTurn
  <2> QED
    BY <1>9, <1>a, <2>1 DEF CancelOpen, coordinatorVars, HoldsLease
<1>10. ASSUME NEW i \in Slots, ProcessDies(i)
       PROVE  /\ \A u \in Sessions : ~HoldsLease(u)'
              /\ pc'[s] = "acquire" => initializing' \/ ready'
  <2>1. SecondTurn(s)
    BY <1>0, <1>10 DEF ProcessDies, sessionVars, SecondTurn
  <2> QED
    BY <1>10, <1>a, <2>1 DEF ProcessDies, sessionVars, HoldsLease
<1> QED
  BY <1>1, <1>2, <1>3, <1>4, <1>5, <1>6, <1>7, <1>8, <1>9, <1>10 DEF Next

(* A shutdown that has begun is not taken back.                             *)
LEMMA ClosingStep ==
  ASSUME ClosingStops, [Next]_vars
  PROVE  ClosingStops'
BY ZenonT(60) DEF ClosingStops, Next, vars, coordinatorVars, sessionVars, Startup, CancelAll,
   Shutdown, ShutdownBegin, ShutdownJoin,
   ShutdownTakePool, InitializerThread, SessionStep,
   StartSession, PrepareNowReady, PrepareNowRefused, PrepareNowLaunch,
   PrepareNowInstall, AcquireIdle, AcquireNothing, SendStart,
   ReleaseReusable, TerminateWorker, PublishReplacement, ReplacementLost,
   ReleaseReplaced, ReleaseAndExit, HostDrained, BeginOpen, CancelOpen,
   ProcessDies

(* A session that is told of a failed launch has one to be told of.         *)
LEMMA OutcomeStep ==
  ASSUME TypeOK, LaunchInv, Untroubled, Untroubled',
         IF ExitAfterUse THEN HostRoute ELSE PoolRoute,
         \A s \in Sessions : outcome[s] # "launchFailed", [Next]_vars
  PROVE  \A s \in Sessions : outcome'[s] # "launchFailed"
<1> USE DEF TypeOK, Goto, EndSession, FailSession
<1>1. CASE \E s \in Sessions : SessionStep(s)
  <2> SUFFICES ASSUME NEW s \in Sessions, SessionStep(s)
               PROVE  \A t \in Sessions : outcome'[t] # "launchFailed"
    BY <1>1
  <2>1. CASE StartSession(s)
    BY <2>1 DEF StartSession
  <2>2. CASE PrepareNowRefused(s)
    BY <2>2 DEF PrepareNowRefused, Untroubled
  <2>3. CASE PrepareNowInstall(s)
    <3>1. ready'
      BY <2>3, InstallWorks DEF PrepareNowInstall
    <3> QED
      BY <2>3, <3>1 DEF PrepareNowInstall
  <2>4. CASE AcquireNothing(s)
    <3>1. CASE cancelled[s]
      BY <2>4, <3>1 DEF AcquireNothing, RetriesOnce
    <3>2. CASE ~cancelled[s] /\ RetriesOnce(s)
      BY <2>4, <3>2 DEF AcquireNothing
    <3>3. CASE ~cancelled[s] /\ ~RetriesOnce(s)
      <4>1. ~initializing /\ ~ready /\ pc[s] = "acquire"
        BY <2>4, <3>3 DEF AcquireNothing, GivesUp, Untroubled
      <4>2. ExitAfterUse
        BY <4>1 DEF PoolRoute
      <4>3. attempt[s] = 2
        BY <3>3, <4>2 DEF RetriesOnce
      <4> QED
        BY <3>3, <4>1, <4>2, <4>3 DEF HostRoute, SecondTurn
    <3> QED
      BY <3>1, <3>2, <3>3
  <2>5. CASE ReleaseReusable(s) \/ ReplacementLost(s) \/ ReleaseReplaced(s)
             \/ HostDrained(s)
    BY <2>5 DEF ReleaseReusable, ReplacementLost, ReleaseReplaced, HostDrained
  <2>6. CASE PrepareNowReady(s) \/ PrepareNowLaunch(s) \/ AcquireIdle(s) \/ SendStart(s)
             \/ TerminateWorker(s) \/ PublishReplacement(s) \/ ReleaseAndExit(s)
    BY <2>6 DEF PrepareNowReady, PrepareNowLaunch, AcquireIdle, SendStart,
       TerminateWorker, PublishReplacement, ReleaseAndExit
  <2> QED
    BY <2>1, <2>2, <2>3, <2>4, <2>5, <2>6 DEF SessionStep
<1>2. CASE ~\E s \in Sessions : SessionStep(s)
  BY <1>2 DEF Next, vars, sessionVars, Startup, CancelAll, Shutdown, ShutdownBegin,
     ShutdownJoin, ShutdownTakePool, InitializerThread, BeginOpen, CancelOpen, ProcessDies
<1> QED
  BY <1>1, <1>2

(* The invariant behind NoSpuriousLaunchFailure holds in every reachable
   state, of the general pool as of a dedicated host.                       *)
THEOREM RouteInvariant == Spec => []RouteInv
<1>1. Init => RouteInv
  BY DEF Init, RouteInv, OneLive, ClosingStops, PoolRoute, HostRoute, SecondTurn
<1>2. CoordinatorInv /\ RouteInv /\ [Next]_vars => RouteInv'
  <2> SUFFICES ASSUME CoordinatorInv, RouteInv, [Next]_vars PROVE RouteInv'
    OBVIOUS
  <2>1. TypeOK /\ LaunchInv /\ LeaseInv /\ OneLive /\ ClosingStops
    BY DEF CoordinatorInv, RouteInv
  <2>2. OneLive' /\ ClosingStops'
    BY <2>1, OneLiveStep, ClosingStep
  <2>3. ASSUME Untroubled'
        PROVE  /\ \A s \in Sessions : outcome'[s] # "launchFailed"
               /\ (IF ExitAfterUse THEN HostRoute ELSE PoolRoute)'
    <3>1. Untroubled
      BY <2>1, <2>3, TroubleLasts
    <3>2. /\ \A s \in Sessions : outcome[s] # "launchFailed"
          /\ IF ExitAfterUse THEN HostRoute ELSE PoolRoute
      BY <3>1 DEF RouteInv
    <3>3. \A s \in Sessions : outcome'[s] # "launchFailed"
      BY <2>1, <2>3, <3>1, <3>2, OutcomeStep
    <3>4. ExitAfterUse => HostRoute'
      BY <2>1, <2>3, <3>1, <3>2, HostRouteStep
    <3>5. ~ExitAfterUse => PoolRoute'
      BY <2>1, <2>3, <3>1, <3>2, PoolRouteStep
    <3> QED
      BY <3>3, <3>4, <3>5
  <2> QED
    BY <2>2, <2>3 DEF RouteInv
<1> QED
  BY <1>1, <1>2, CoordinatorInvariant, PTL DEF Spec

(* A generation that waited behind another's host is not told that a launch
   failed: only a launch that did fail, or Shutdown, is reported as such.   *)
THEOREM FailuresAreReal == Spec => []NoSpuriousLaunchFailure
<1>1. RouteInv => NoSpuriousLaunchFailure
  BY DEF RouteInv, NoSpuriousLaunchFailure, Untroubled
<1> QED
  BY <1>1, RouteInvariant, PTL
=============================================================================
