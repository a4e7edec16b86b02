-------------------------- MODULE ThumbnailProvider --------------------------
(***************************************************************************)
(* Concurrent thumbnail requests in one Shell surrogate: every COM object  *)
(* lives in an apartment of its own, and what they share is the allocation *)
(* ledger, the lock around the OCCT application and the quarantine that a  *)
(* contained structured exception leaves behind (ComCore.cpp,              *)
(* ThumbnailPipeline.cpp, Containment.cpp, AllocationLedger.h and the      *)
(* STEP adapter).                                                          *)
(*                                                                         *)
(* A step is a load, a compare-and-swap, the taking of the lock or what    *)
(* runs between two of them.  A structured exception that reaches the      *)
(* boundary at the COM method skips every destructor on its way (/EHsc).   *)
(***************************************************************************)
EXTENDS Integers, FiniteSets, FiniteSetsExt

CONSTANTS
    Providers,  \* apartments, each with one provider object at a time
    Kinds,      \* what the class factories create and the Shell hands over
    Step,       \* kinds of the STEP family; the others never need the lock
    Seekable,   \* kinds whose stream is seekable
    Limit,      \* kAllocationLedgerMaxBytes
    Bytes,      \* what each part of a request charges
    MaxUses,    \* per apartment, bound on the calls of Initialize and
                \* GetThumbnail
    Free        \* no owner of the lock

\* What is charged: the first two belong to the stream source, the rest to
\* one call.
SourceParts == {"cache", "backing"}
CallParts == {"materials", "working", "reservoir", "coverage", "raster"}
Parts == SourceParts \union CallParts

ASSUME ProviderAssumption ==
    /\ Step \subseteq Kinds /\ Seekable \subseteq Kinds
    /\ IsFiniteSet(Providers) /\ Free \notin Providers
    /\ Limit \in Nat
    /\ MaxUses \in [Providers -> Nat]
    /\ Bytes \in [Parts -> Nat \ {0}]

VARIABLES
    pc,          \* where each object's thread is
    kind,        \* the kind of each object
    seen,        \* `current` of TryReserve, or NotLoaded
    held,        \* the parts each object's tokens stand for
    reserved,    \* reserved_ of the ledger
    lock,        \* owner of g_occtApplicationLock
    quarantined, \* g_quarantined
    document,    \* does the call's adapter hold an OCCT document?
    late,        \* has the call's cooperative stop point passed?
    result,      \* the outcome the call is about to return; BadFormat stands
                 \* for every row of the table about the file
    suspect,     \* was the process quarantined when the call began?
    uses

callVars == <<document, late, result, suspect>>
vars == <<pc, kind, seen, held, reserved, lock, quarantined, callVars, uses>>

NotLoaded == -1

Charge(S, part) == IF part \in S THEN Bytes[part] ELSE 0
Charges(S) == Charge(S, "cache") + Charge(S, "backing") + Charge(S, "materials")
                + Charge(S, "working") + Charge(S, "reservoir")
                + Charge(S, "coverage") + Charge(S, "raster")

Outside == {"new", "ready"}
Initializing == {"cache"}
Locked == {"loading", "meshing", "closing"}
Working == CallParts \union Locked
               \union {"parse", "backing", "admit", "load", "sample", "mesh",
                       "render", "unwind", "close", "reset", "bitmap"}
InCall == Working \union {"check", "leave"}
Results == {"none", "Success", "Deadline", "LimitExceeded", "BadFormat",
            "OutOfMemory", "DecoderFailure"}

Init ==
    /\ pc = [p \in Providers |-> "new"]
    /\ kind \in [Providers -> Kinds]
    /\ seen = [p \in Providers |-> NotLoaded]
    /\ held = [p \in Providers |-> {}]
    /\ reserved = 0
    /\ lock = Free
    /\ quarantined = FALSE
    /\ document = [p \in Providers |-> FALSE]
    /\ late = [p \in Providers |-> FALSE]
    /\ result = [p \in Providers |-> "none"]
    /\ suspect = [p \in Providers |-> FALSE]
    /\ uses = [p \in Providers |-> 0]

Goto(p, place) == pc' = [pc EXCEPT ![p] = place]
Answer(p, outcome) == result' = [result EXCEPT ![p] = outcome]

\* The tokens of S are released; a token lost to a structured exception is
\* forgotten without that.
GiveBack(p, S) ==
    /\ held' = [held EXCEPT ![p] = @ \ S]
    /\ reserved' = reserved - Charges(held[p] \intersect S)

Keep == UNCHANGED <<kind, seen, held, reserved, lock, quarantined, document,
                    late, suspect, uses>>

-----------------------------------------------------------------------------
(***************************************************************************)
(* The ledger.                                                             *)
(***************************************************************************)

\* Where a request goes with a part, and without.  Without the contiguous
\* backing a seekable stream is read in ranges; without either table the
\* sampler retains less.
WithPart(part) ==
    CASE part = "cache"     -> "ready"
      [] part = "backing"   -> "admit"
      [] part = "materials" -> "parse"
      [] part = "working"   -> "load"
      [] part = "reservoir" -> "coverage"
      [] part = "coverage"  -> "mesh"
      [] part = "raster"    -> "render"

WithoutPart(p, part) ==
    CASE part = "cache"     -> "new"
      [] part = "backing"   -> IF kind[p] \in Seekable THEN "admit"
                                                        ELSE "unwind"
      [] part = "reservoir" -> "coverage"
      [] part = "coverage"  -> "mesh"
      [] OTHER              -> "unwind"

Loads(p) ==
    /\ pc[p] \in Parts /\ seen[p] = NotLoaded
    /\ seen' = [seen EXCEPT ![p] = reserved]
    /\ UNCHANGED <<pc, kind, held, reserved, lock, quarantined, callVars, uses>>

\* Seeded bug: the sum is stored, whatever came between.
SwapsSeeded(p) ==
    /\ reserved' = seen[p] + Bytes[pc[p]]
    /\ held' = [held EXCEPT ![p] = @ \union {pc[p]}]
    /\ Goto(p, WithPart(pc[p]))
    /\ seen' = [seen EXCEPT ![p] = NotLoaded]

\* compare_exchange_weak: a lost race loads the new value.
Swaps(p) ==
    IF seen[p] = reserved
    THEN /\ reserved' = reserved + Bytes[pc[p]]
         /\ held' = [held EXCEPT ![p] = @ \union {pc[p]}]
         /\ Goto(p, WithPart(pc[p]))
         /\ seen' = [seen EXCEPT ![p] = NotLoaded]
    ELSE /\ seen' = [seen EXCEPT ![p] = reserved]
         /\ UNCHANGED <<pc, reserved, held>>

TryReserve(p) ==
    /\ pc[p] \in Parts /\ seen[p] # NotLoaded
    /\ Bytes[pc[p]] <= Limit - seen[p]
    /\ Swaps(p)
    /\ UNCHANGED <<kind, lock, quarantined, callVars, uses>>

Refused(p) ==
    /\ pc[p] \in Parts /\ seen[p] # NotLoaded
    /\ Bytes[pc[p]] > Limit - seen[p]
    /\ Goto(p, WithoutPart(p, pc[p]))
    /\ seen' = [seen EXCEPT ![p] = NotLoaded]
    /\ result' = IF WithoutPart(p, pc[p]) = "unwind"
                 THEN [result EXCEPT ![p] = "LimitExceeded"] ELSE result
    /\ UNCHANGED <<kind, held, reserved, lock, quarantined, document, late,
                   suspect, uses>>

-----------------------------------------------------------------------------
(***************************************************************************)
(* The methods of one object.                                              *)
(***************************************************************************)

\* Initialize adopts the stream; only a seekable one gets the block cache.
Initialize(p) ==
    /\ pc[p] = "new" /\ uses[p] < MaxUses[p]
    /\ uses' = [uses EXCEPT ![p] = @ + 1]
    /\ Goto(p, IF kind[p] \in Seekable THEN "cache" ELSE "ready")
    /\ UNCHANGED <<kind, seen, held, reserved, lock, quarantined, callVars>>

\* The last reference: the source gives back its cache and backing.  Another
\* object may take its place.
ReleaseObject(p) ==
    /\ pc[p] = "ready"
    /\ GiveBack(p, SourceParts)
    /\ Goto(p, "new")
    /\ \E k \in Kinds : kind' = [kind EXCEPT ![p] = k]
    /\ UNCHANGED <<seen, lock, quarantined, callVars, uses>>

GetThumbnail(p) ==
    /\ pc[p] = "ready" /\ uses[p] < MaxUses[p]
    /\ uses' = [uses EXCEPT ![p] = @ + 1]
    /\ Goto(p, "check")
    /\ late' = [late EXCEPT ![p] = FALSE]
    /\ Answer(p, "none")
    /\ suspect' = [suspect EXCEPT ![p] = quarantined]
    /\ UNCHANGED <<kind, seen, held, reserved, lock, quarantined, document>>

\* The two seconds are over.
StopPointPasses(p) ==
    /\ pc[p] \in InCall /\ ~late[p]
    /\ late' = [late EXCEPT ![p] = TRUE]
    /\ UNCHANGED <<pc, kind, seen, held, reserved, lock, quarantined, document,
                   result, suspect, uses>>

\* Seeded bug: only the deadline is looked at.
RefusesSeeded(p) ==
    IF late[p] THEN Goto(p, "leave") /\ Answer(p, "Deadline")
               ELSE Goto(p, "materials") /\ UNCHANGED result

\* A quarantined process refuses before there is an adapter.
Refuses(p) ==
    IF quarantined THEN Goto(p, "leave") /\ Answer(p, "DecoderFailure")
    ELSE IF late[p] THEN Goto(p, "leave") /\ Answer(p, "Deadline")
    ELSE Goto(p, "materials") /\ UNCHANGED result

RunThumbnailPipeline(p) ==
    /\ pc[p] = "check"
    /\ Refuses(p)
    /\ Keep

\* Stages that no lock protects.
Unlocked(p) == {"parse", "admit", "sample"}
                   \union (IF kind[p] \in Step THEN {} ELSE {"load", "mesh"})

\* A checkpoint between two stages, or a stage that fails by itself.
Stops(p) ==
    \/ late[p] /\ Answer(p, "Deadline")
    \/ Answer(p, "BadFormat")

StageFails(p) ==
    /\ pc[p] \in Unlocked(p)
    /\ Stops(p)
    /\ Goto(p, "unwind")
    /\ Keep

\* The source keeps its backing from an earlier call.
Parse(p) ==
    /\ pc[p] = "parse" /\ ~late[p]
    /\ Goto(p, IF "backing" \in held[p] THEN "admit" ELSE "backing")
    /\ UNCHANGED result
    /\ Keep

\* The file is read and scanned before the adapter charges its working set.
Admit(p) ==
    /\ pc[p] = "admit" /\ ~late[p]
    /\ Goto(p, "working")
    /\ UNCHANGED result
    /\ Keep

Sample(p) ==
    /\ pc[p] = "sample" /\ ~late[p]
    /\ Goto(p, "reservoir")
    /\ UNCHANGED result
    /\ Keep

\* The sampler has samples when it could charge one of its tables.
AfterGeometry(p) ==
    IF held[p] \intersect {"reservoir", "coverage"} # {} /\ ~late[p]
    THEN Goto(p, "raster") /\ UNCHANGED result
    ELSE /\ Goto(p, "unwind")
         /\ Answer(p, IF late[p] THEN "Deadline" ELSE "BadFormat")

\* The other families parse and enumerate without a lock.
StageReturns(p) ==
    /\ kind[p] \notin Step
    /\ \/ pc[p] = "load" /\ Goto(p, "sample") /\ UNCHANGED result
       \/ pc[p] = "mesh" /\ AfterGeometry(p)
    /\ Keep

\* RunContainedStage: their faults are translated inside the stage.
StageFaults(p) ==
    /\ kind[p] \notin Step /\ pc[p] \in {"load", "mesh"}
    /\ quarantined' = TRUE
    /\ Answer(p, "DecoderFailure")
    /\ Goto(p, "unwind")
    /\ UNCHANGED <<kind, seen, held, reserved, lock, document, late, suspect,
                   uses>>

-----------------------------------------------------------------------------
(***************************************************************************)
(* The OCCT kernel, one request at a time.                                 *)
(***************************************************************************)

EntersKernel(p) ==
    /\ pc[p] \in {"load", "mesh", "close"} \ Unlocked(p)
    /\ lock = Free
    /\ lock' = p
    /\ Goto(p, CASE pc[p] = "load" -> "loading"
                 [] pc[p] = "mesh" -> "meshing"
                 [] OTHER          -> "closing")
    /\ UNCHANGED <<kind, seen, held, reserved, quarantined, callVars, uses>>

\* LoadDocument and BuildGeometry come back with their result.
KernelReturns(p) ==
    /\ pc[p] \in {"loading", "meshing"}
    /\ lock' = Free
    /\ document' = [document EXCEPT ![p] = TRUE]
    /\ \/ pc[p] = "loading" /\ ~late[p] /\ Goto(p, "sample") /\ UNCHANGED result
       \/ pc[p] = "meshing" /\ AfterGeometry(p)
       \/ Goto(p, "unwind") /\ Stops(p)
       \/ Goto(p, "unwind") /\ Answer(p, "OutOfMemory")
    /\ UNCHANGED <<kind, seen, held, reserved, quarantined, late, suspect,
                   uses>>

\* Seeded bug: the guard lies below the boundary and is not unwound.
LockAfterFaultSeeded == lock

\* The guard lies above the boundary of the two kernel passes.
LockAfterFault == Free

KernelFaults(p) ==
    /\ pc[p] \in {"loading", "meshing"}
    /\ lock' = LockAfterFault
    /\ quarantined' = TRUE
    /\ document' = [document EXCEPT ![p] = TRUE]
    /\ Answer(p, "BadFormat")
    /\ Goto(p, "unwind")
    /\ UNCHANGED <<kind, seen, held, reserved, late, suspect, uses>>

\* Reset: the document is closed under the lock, then the rest is dropped.
CloseReturns(p) ==
    /\ pc[p] = "closing"
    /\ lock' = Free
    /\ document' = [document EXCEPT ![p] = FALSE]
    /\ Goto(p, "reset")
    /\ UNCHANGED <<kind, seen, held, reserved, quarantined, late, result,
                   suspect, uses>>

\* The boundary is that of the COM method, above the guard of Reset.
CloseFaults(p) ==
    /\ pc[p] = "closing"
    /\ quarantined' = TRUE
    /\ document' = [document EXCEPT ![p] = FALSE]
    /\ held' = [held EXCEPT ![p] = @ \ CallParts]
    /\ Answer(p, "DecoderFailure")
    /\ Goto(p, "leave")
    /\ UNCHANGED <<kind, seen, reserved, lock, late, suspect, uses>>

-----------------------------------------------------------------------------
(***************************************************************************)
(* The end of the pipeline.                                                *)
(***************************************************************************)

RenderReturns(p) ==
    /\ pc[p] = "render"
    /\ GiveBack(p, {"raster"})
    /\ Answer(p, "Success") \/ Stops(p)
    /\ Goto(p, "unwind")
    /\ UNCHANGED <<kind, seen, lock, quarantined, document, late, suspect,
                   uses>>

\* Nothing contains this one before the COM method: the adapter is not reset
\* and no token of the call is released.
RenderFaults(p) ==
    /\ pc[p] = "render"
    /\ quarantined' = TRUE
    /\ document' = [document EXCEPT ![p] = FALSE]
    /\ held' = [held EXCEPT ![p] = @ \ CallParts]
    /\ Answer(p, "DecoderFailure")
    /\ Goto(p, "leave")
    /\ UNCHANGED <<kind, seen, reserved, lock, late, suspect, uses>>

\* Material table and sampler go before the adapter is reset.
Unwind(p) ==
    /\ pc[p] = "unwind"
    /\ GiveBack(p, CallParts \ {"working"})
    /\ Goto(p, IF document[p] THEN "close" ELSE "reset")
    /\ UNCHANGED <<kind, seen, lock, quarantined, callVars, uses>>

\* Seeded bug: what a failed call still holds is forgotten.
ReturnedSeeded(p) == IF result[p] = "Success" THEN CallParts ELSE {}

\* The adapter's own token.
Returned(p) == CallParts

\* RunContained rejects a success that came after the stop point.
PipelineReturns(p) ==
    /\ pc[p] = "reset"
    /\ GiveBack(p, Returned(p))
    /\ IF result[p] = "Success" /\ ~late[p]
       THEN Goto(p, "bitmap") /\ UNCHANGED result
       ELSE /\ Goto(p, "leave")
            /\ Answer(p, IF result[p] = "Success" THEN "Deadline"
                                                  ELSE result[p])
    /\ UNCHANGED <<kind, seen, lock, quarantined, document, late, suspect,
                   uses>>

CreateBitmap(p) ==
    /\ pc[p] = "bitmap"
    /\ \/ Answer(p, IF late[p] THEN "Deadline" ELSE "Success")
       \/ Answer(p, "OutOfMemory")
    /\ Goto(p, "leave")
    /\ Keep

\* The copy into the bitmap runs behind the same boundary.
BitmapFaults(p) ==
    /\ pc[p] = "bitmap"
    /\ quarantined' = TRUE
    /\ Answer(p, "DecoderFailure")
    /\ Goto(p, "leave")
    /\ UNCHANGED <<kind, seen, held, reserved, lock, document, late, suspect,
                   uses>>

Leave(p) ==
    /\ pc[p] = "leave"
    /\ Goto(p, "ready")
    /\ UNCHANGED result
    /\ Keep

-----------------------------------------------------------------------------
Reserving(p) == Loads(p) \/ TryReserve(p) \/ Refused(p)

Kernel(p) == \/ EntersKernel(p) \/ KernelReturns(p) \/ KernelFaults(p)
             \/ CloseReturns(p) \/ CloseFaults(p)

Pipeline(p) ==
    \/ RunThumbnailPipeline(p) \/ Parse(p) \/ Admit(p) \/ Sample(p)
    \/ StageReturns(p) \/ StageFails(p) \/ StageFaults(p)
    \/ RenderReturns(p) \/ RenderFaults(p)
    \/ Unwind(p) \/ PipelineReturns(p) \/ CreateBitmap(p) \/ BitmapFaults(p)
    \/ Leave(p)

Requests(p) == \/ Initialize(p) \/ ReleaseObject(p) \/ GetThumbnail(p)
               \/ StopPointPasses(p)

Next == \E p \in Providers :
            Reserving(p) \/ Kernel(p) \/ Pipeline(p) \/ Requests(p)

Spec == Init /\ [][Next]_vars

\* The thread of a call runs; the lock is not fair, but at any time only
\* finitely many requests are before a waiting one.
FairSpec == Spec /\ \A p \in Providers :
                        WF_vars(Reserving(p) \/ Kernel(p) \/ Pipeline(p))

-----------------------------------------------------------------------------
(***************************************************************************)
(* Properties.                                                             *)
(***************************************************************************)

\* The variables have their types, and a token of a call is held only while
\* the call runs.
TypeOK ==
    /\ pc \in [Providers -> Outside \union Initializing \union InCall]
    /\ seen \in [Providers -> Int]
    /\ held \in [Providers -> SUBSET Parts]
    /\ reserved \in Nat
    /\ lock \in Providers \union {Free}
    /\ quarantined \in BOOLEAN
    /\ document \in [Providers -> BOOLEAN] /\ late \in [Providers -> BOOLEAN]
    /\ suspect \in [Providers -> BOOLEAN]
    /\ result \in [Providers -> Results]
    /\ kind \in [Providers -> Kinds]
    /\ \A p \in Providers : uses[p] \in 0..MaxUses[p]
    /\ \A p \in Providers :
           pc[p] \notin Working => held[p] \subseteq SourceParts

WithinLimit == reserved <= Limit

\* What the tokens of all objects stand for.
LiveBytes(tokens) == MapThenSumSet(LAMBDA p : Charges(tokens[p]), Providers)

\* The ledger is never charged past its ceiling, covers every live token, and
\* as long as nothing was quarantined it is the sum of them: concurrent
\* requests lose no update, and no way out of a call keeps a charge.
LedgerBalances ==
    /\ WithinLimit
    /\ LiveBytes(held) <= reserved
    /\ ~quarantined => reserved = LiveBytes(held)

\* A request that begins after a contained fault runs no adapter and no
\* kernel pass, takes no byte of the ledger, and never succeeds.
LaterRequestsRefused ==
    \A p \in Providers :
        suspect[p] /\ pc[p] \in InCall =>
            /\ pc[p] \notin Working
            /\ held[p] \subseteq SourceParts
            /\ result[p] # "Success"

\* The owner of the lock went back to the Shell without releasing it.
Abandoned == lock # Free /\ pc[lock] \notin Working

\* Every request comes back to the Shell, whatever happens to the others,
\* unless it waits for a lock whose owner is gone: a call that fails on any
\* of its ways out leaves the lock to the next one.
CallsReturn ==
    \A p \in Providers :
        pc[p] \in InCall ~> \/ pc[p] \in Outside
                            \/ Abandoned /\ pc[p] \in {"load", "mesh", "close"}

\* After a contained fault "requests already in flight drain normally".
CallsInFlightDrain ==
    \A p \in Providers : pc[p] \in InCall ~> pc[p] \in Outside
=============================================================================
