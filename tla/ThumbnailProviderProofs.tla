----------------------- MODULE ThumbnailProviderProofs -----------------------
(* Proofs about ThumbnailProvider. *)
EXTENDS ThumbnailProvider, FoldLemmas, TLAPS

\* The shapes the argument needs.
Shapes ==
    /\ pc \in [Providers -> Outside \union Initializing \union InCall]
    /\ held \in [Providers -> SUBSET Parts]
    /\ suspect \in [Providers -> BOOLEAN]
    /\ result \in [Providers -> Results]
    /\ quarantined \in BOOLEAN

\* A call's tokens are gone before it makes the bitmap or leaves.
TokensOfCalls ==
    \A p \in Providers :
        pc[p] \notin Working \ {"bitmap"} => held[p] \subseteq SourceParts

\* A late request stays where it is refused.
Refusal ==
    \A p \in Providers :
        suspect[p] => /\ quarantined
                      /\ pc[p] \notin Working
                      /\ pc[p] \in InCall => result[p] # "Success"

Strengthened == Shapes /\ TokensOfCalls /\ Refusal

USE DEF Outside, Initializing, Locked, Working, InCall, Results, SourceParts,
        CallParts, Parts

\* The inductive invariant says what is wanted.
LEMMA StrengthenedSuffices == Strengthened => LaterRequestsRefused
  BY DEF Strengthened, Shapes, TokensOfCalls, Refusal, LaterRequestsRefused

\* It holds before anything was asked for.
LEMMA StrengthenedInit == Init => Strengthened
  BY DEF Init, Strengthened, Shapes, TokensOfCalls, Refusal

\* The ledger's steps: only a request that passed the quarantine, or an
\* object that adopts its stream, charges anything.
LEMMA ReservingStep ==
    ASSUME Strengthened, NEW p \in Providers, Reserving(p)
    PROVE  Strengthened'
<1> USE DEF Strengthened, Shapes, TokensOfCalls, Refusal, callVars, Goto
<1>1. CASE Loads(p)
  BY <1>1 DEF Loads
<1>2. CASE TryReserve(p)
  BY <1>2 DEF TryReserve, Swaps, WithPart
<1>3. CASE Refused(p)
  BY <1>3 DEF Refused, WithoutPart
<1> QED BY <1>1, <1>2, <1>3 DEF Reserving

\* The kernel's steps: a fault quarantines, and nobody who runs there began
\* after one.
LEMMA KernelStep ==
    ASSUME Strengthened, NEW p \in Providers, Kernel(p)
    PROVE  Strengthened'
<1> USE DEF Strengthened, Shapes, TokensOfCalls, Refusal, callVars, Goto, Answer
<1>1. CASE EntersKernel(p)
  BY <1>1 DEF EntersKernel
<1>2. CASE KernelReturns(p)
  BY <1>2 DEF KernelReturns, AfterGeometry, Stops
<1>3. CASE KernelFaults(p)
  BY <1>3 DEF KernelFaults
<1>4. CASE CloseReturns(p)
  BY <1>4 DEF CloseReturns
<1>5. CASE CloseFaults(p)
  BY <1>5 DEF CloseFaults
<1> QED BY <1>1, <1>2, <1>3, <1>4, <1>5 DEF Kernel

\* The pipeline's steps: what begins late is turned away at the check, and
\* every other way out of a call has given its tokens back.
LEMMA PipelineStep ==
    ASSUME Strengthened, NEW p \in Providers, Pipeline(p)
    PROVE  Strengthened'
<1> USE DEF Strengthened, Shapes, TokensOfCalls, Refusal, callVars, Goto,
            Answer, Keep, GiveBack
<1>1. CASE RunThumbnailPipeline(p)
  BY <1>1 DEF RunThumbnailPipeline, Refuses
<1>2. CASE Parse(p) \/ Admit(p) \/ Sample(p)
  BY <1>2 DEF Parse, Admit, Sample
<1>3. CASE StageReturns(p)
  BY <1>3 DEF StageReturns, AfterGeometry
<1>4. CASE StageFails(p)
  BY <1>4 DEF StageFails, Unlocked, Stops
<1>5. CASE StageFaults(p)
  BY <1>5 DEF StageFaults
<1>6. CASE RenderReturns(p)
  BY <1>6 DEF RenderReturns, Stops
<1>7. CASE RenderFaults(p)
  BY <1>7 DEF RenderFaults
<1>8. CASE Unwind(p)
  BY <1>8 DEF Unwind
<1>9. CASE PipelineReturns(p)
  BY <1>9 DEF PipelineReturns, Returned
<1>10. CASE CreateBitmap(p)
  BY <1>10 DEF CreateBitmap
<1>11. CASE BitmapFaults(p)
  BY <1>11 DEF BitmapFaults
<1>12. CASE Leave(p)
  BY <1>12 DEF Leave
<1> QED BY <1>1, <1>2, <1>3, <1>4, <1>5, <1>6, <1>7, <1>8, <1>9, <1>10, <1>11,
           <1>12 DEF Pipeline

\* What the Shell asks: a call begins with nothing of an earlier one in hand.
LEMMA RequestsStep ==
    ASSUME Strengthened, NEW p \in Providers, Requests(p)
    PROVE  Strengthened'
<1> USE DEF Strengthened, Shapes, TokensOfCalls, Refusal, callVars, Goto,
            Answer, GiveBack
<1>1. CASE Initialize(p)
  BY <1>1 DEF Initialize
<1>2. CASE ReleaseObject(p)
  BY <1>2 DEF ReleaseObject
<1>3. CASE GetThumbnail(p)
  BY <1>3 DEF GetThumbnail
<1>4. CASE StopPointPasses(p)
  BY <1>4 DEF StopPointPasses
<1> QED BY <1>1, <1>2, <1>3, <1>4 DEF Requests

\* After a contained fault no request that begins later runs an adapter,
\* charges the ledger or succeeds, however many apartments there are and
\* wherever their own calls are.
THEOREM QuarantineHolds == Spec => []LaterRequestsRefused
<1>1. Strengthened /\ [Next]_vars => Strengthened'
  <2> SUFFICES ASSUME Strengthened, [Next]_vars
               PROVE  Strengthened'
    OBVIOUS
  <2>1. CASE UNCHANGED vars
    BY <2>1 DEF vars, callVars, Strengthened, Shapes, TokensOfCalls, Refusal
  <2>2. CASE Next
    BY <2>2, ReservingStep, KernelStep, PipelineStep, RequestsStep DEF Next
  <2> QED BY <2>1, <2>2
<1> QED BY <1>1, StrengthenedInit, StrengthenedSuffices, PTL DEF Spec

-----------------------------------------------------------------------------
(* The ledger. *)

\* What compare-and-swap needs: the pieces are numbers, and so is the sum.
Measured ==
    /\ reserved \in Int
    /\ seen \in [Providers -> Int]
    /\ pc \in [Providers -> Outside \union Initializing \union InCall]

Bounded == Measured /\ WithinLimit

\* A set of tokens stands for at least no bytes.
LEMMA ChargesAreNatural == \A S : Charges(S) \in Nat
  BY ProviderAssumption DEF Charges, Charge

\* Only compare_exchange adds to the sum, and it adds to the value that was
\* compared with the limit; everything else gives bytes back.
LEMMA BoundedStep ==
    ASSUME Bounded, NEW p \in Providers,
           Reserving(p) \/ Kernel(p) \/ Pipeline(p) \/ Requests(p)
    PROVE  Bounded'
<1> USE ProviderAssumption, ChargesAreNatural
    DEF Bounded, Measured, WithinLimit, callVars, Goto, Answer, Keep, GiveBack,
        NotLoaded
<1>1. CASE Loads(p)
  BY <1>1 DEF Loads
<1>2. CASE TryReserve(p)
  BY <1>2 DEF TryReserve, Swaps, WithPart
<1>3. CASE Refused(p)
  BY <1>3 DEF Refused, WithoutPart
<1>4. CASE Kernel(p)
  BY <1>4 DEF Kernel, EntersKernel, KernelReturns, KernelFaults, CloseReturns,
              CloseFaults, AfterGeometry, Stops
<1>5. CASE RunThumbnailPipeline(p) \/ Parse(p) \/ Admit(p) \/ Sample(p)
  BY <1>5 DEF RunThumbnailPipeline, Refuses, Parse, Admit, Sample
<1>6. CASE StageReturns(p) \/ StageFails(p) \/ StageFaults(p)
  BY <1>6 DEF StageReturns, StageFails, StageFaults, Unlocked,
              AfterGeometry, Stops
<1>7. CASE RenderReturns(p) \/ RenderFaults(p)
  BY <1>7 DEF RenderReturns, RenderFaults, Stops
<1>8. CASE Unwind(p) \/ PipelineReturns(p)
  BY <1>8 DEF Unwind, PipelineReturns, Returned
<1>9. CASE CreateBitmap(p) \/ BitmapFaults(p) \/ Leave(p)
  BY <1>9 DEF CreateBitmap, BitmapFaults, Leave
<1>10. CASE Requests(p)
  BY <1>10 DEF Requests, Initialize, ReleaseObject, GetThumbnail,
               StopPointPasses
<1> QED BY <1>1, <1>2, <1>3, <1>4, <1>5, <1>6, <1>7, <1>8, <1>9, <1>10
           DEF Reserving, Pipeline

\* However many requests charge the ledger at once, its sum never passes the
\* ceiling.
THEOREM CeilingHolds == Spec => []WithinLimit
<1>1. Init => Bounded
  BY ProviderAssumption
     DEF Init, Bounded, Measured, WithinLimit, NotLoaded
<1>2. Bounded /\ [Next]_vars => Bounded'
  <2> SUFFICES ASSUME Bounded, [Next]_vars
               PROVE  Bounded'
    OBVIOUS
  <2>1. CASE UNCHANGED vars
    BY <2>1 DEF vars, Bounded, Measured, WithinLimit
  <2>2. CASE Next
    BY <2>2, BoundedStep DEF Next
  <2> QED BY <2>1, <2>2
<1>3. Bounded => WithinLimit
  BY DEF Bounded
<1> QED BY <1>1, <1>2, <1>3, PTL DEF Spec

-----------------------------------------------------------------------------
(* The balance of the ledger. *)

\* The tokens of the call that a place of it may hold.
Kept(place) ==
    CASE place \in {"parse", "backing", "admit", "working"} -> {"materials"}
      [] place \in {"load", "loading", "sample", "reservoir"} ->
             {"materials", "working"}
      [] place = "coverage" -> {"materials", "working", "reservoir"}
      [] place \in {"mesh", "meshing", "raster"} -> CallParts \ {"raster"}
      [] place \in {"render", "unwind", "close", "closing", "reset"} -> CallParts
      [] OTHER -> {}

\* A part is charged where no token stands for it yet.
Fresh ==
    \A p \in Providers :
        /\ held[p] \subseteq SourceParts \union Kept(pc[p])
        /\ pc[p] \in {"new", "cache"} => held[p] = {}
        /\ pc[p] = "backing" => "backing" \notin held[p]

Typed == TypeOK /\ uses \in [Providers -> Nat]

Balanced ==
    /\ LiveBytes(held) <= reserved
    /\ ~quarantined => reserved = LiveBytes(held)

Ledger == Typed /\ Fresh /\ Balanced

\* What each object is charged for.
Held(h) == [p \in Providers |-> Charges(h[p])]

\* The sum over the objects.
LEMMA LiveIsTotal ==
    ASSUME NEW h
    PROVE  LiveBytes(h) = Total(Held(h), Providers)
<1> DEFINE sum == CHOOSE it : it = [s \in SUBSET Providers |->
                IF s = {} THEN 0
                ELSE Charges(h[CHOOSE x \in s : TRUE]) + it[s \ {CHOOSE x \in s : TRUE}]]
<1>1. LiveBytes(h) = sum[Providers]
  BY DEF LiveBytes, MapThenSumSet, MapThenFoldSet
<1>2. \A p \in Providers : Held(h)[p] = Charges(h[p]) /\ Held(h)[p] \in Nat
  BY ChargesAreNatural DEF Held
<1>3. IsFiniteSet(Providers) /\ Chooses(Choosing(Providers), Providers)
  BY ProviderAssumption, ChosenFromSet
<1>4. PICK it : IsSum(it, Held(h), Providers, Choosing(Providers))
  BY <1>2, <1>3, SumExists
<1>5. it = [s \in SUBSET Providers |->
                IF s = {} THEN 0
                ELSE Charges(h[CHOOSE x \in s : TRUE]) + it[s \ {CHOOSE x \in s : TRUE}]]
  BY <1>2, <1>4 DEF IsSum, Choosing
<1>6. sum = [s \in SUBSET Providers |->
                IF s = {} THEN 0
                ELSE Charges(h[CHOOSE x \in s : TRUE]) + sum[s \ {CHOOSE x \in s : TRUE}]]
  BY <1>5
<1> HIDE DEF sum
<1>7. IsSum(sum, Held(h), Providers, Choosing(Providers))
  BY <1>2, <1>6 DEF IsSum, Choosing
<1> QED BY <1>1, <1>2, <1>3, <1>7, TotalIsSum

\* One object's tokens change: the sum changes by as much.
LEMMA LiveChanges ==
    ASSUME Typed, NEW p \in Providers, NEW S, held' = [held EXCEPT ![p] = S]
    PROVE  /\ LiveBytes(held) \in Nat /\ LiveBytes(held') \in Nat
           /\ LiveBytes(held') + Charges(held[p]) = LiveBytes(held) + Charges(S)
<1> DEFINE f == Held(held)
           g == Held(held')
<1>1. held'[p] = S /\ \A q \in Providers \ {p} : held'[q] = held[q]
  BY DEF Typed, TypeOK
<1>2. /\ f[p] = Charges(held[p]) /\ g[p] = Charges(S)
      /\ \A q \in Providers : f[q] \in Nat /\ g[q] \in Nat
      /\ \A q \in Providers \ {p} : g[q] = f[q]
  BY <1>1, ChargesAreNatural DEF Held
<1>3. LiveBytes(held) = Total(f, Providers) /\ LiveBytes(held') = Total(g, Providers)
  BY LiveIsTotal
<1>4. IsFiniteSet(Providers)
  BY ProviderAssumption
<1> HIDE DEF f, g
<1>5. Total(g, Providers) + f[p] = Total(f, Providers) + g[p]
  BY <1>2, <1>4, TotalUpdate
<1>6. Total(f, Providers) \in Nat /\ Total(g, Providers) \in Nat
  BY <1>2, <1>4, TotalType
<1> QED BY <1>2, <1>3, <1>5, <1>6

\* Tokens given up take their charge with them, and no other.
LEMMA ChargesSplit ==
    ASSUME NEW S, NEW T
    PROVE  /\ Charges(S) = Charges(S \intersect T) + Charges(S \ T)
           /\ \A part \in Parts \ S : Charges(S \union {part}) = Charges(S) + Bytes[part]
  BY ProviderAssumption DEF Charges, Charge

\* No step charges a part that is charged already, and every other one
\* releases what it forgets, unless it leaves a quarantine behind.
Moves(p) ==
    \/ UNCHANGED <<held, reserved>> /\ (quarantined => quarantined')
    \/ /\ pc[p] \in Parts \ held[p]
       /\ held' = [held EXCEPT ![p] = @ \union {pc[p]}]
       /\ reserved' = reserved + Bytes[pc[p]]
       /\ UNCHANGED quarantined
    \/ (\E S : GiveBack(p, S)) /\ UNCHANGED quarantined
    \/ /\ \E S : held' = [held EXCEPT ![p] = @ \ S]
       /\ UNCHANGED reserved /\ quarantined'

\* Which move each step is.
LEMMA StepMoves ==
    ASSUME Typed, Fresh, NEW p \in Providers,
           Reserving(p) \/ Kernel(p) \/ Pipeline(p) \/ Requests(p)
    PROVE  Moves(p)
<1> USE DEF Keep, callVars
<1>1. CASE Loads(p)
  BY <1>1 DEF Loads, Moves
<1>2. CASE TryReserve(p)
  <2>1. pc[p] \in Parts \ held[p]
    BY <1>2 DEF TryReserve, Fresh, Kept
  <2> QED BY <1>2, <2>1 DEF TryReserve, Swaps, Moves
<1>3. CASE Refused(p)
  BY <1>3 DEF Refused, Moves
<1>4. CASE EntersKernel(p) \/ KernelReturns(p) \/ CloseReturns(p)
  BY <1>4 DEF EntersKernel, KernelReturns, CloseReturns, Moves
<1>5. CASE KernelFaults(p)
  BY <1>5 DEF KernelFaults, Moves
<1>6. CASE CloseFaults(p) \/ RenderFaults(p)
  BY <1>6 DEF CloseFaults, RenderFaults, Moves
<1>7. CASE RunThumbnailPipeline(p) \/ Parse(p) \/ Admit(p) \/ Sample(p)
  BY <1>7 DEF RunThumbnailPipeline, Parse, Admit, Sample, Moves
<1>8. CASE StageReturns(p) \/ StageFails(p) \/ StageFaults(p)
  BY <1>8 DEF StageReturns, StageFails, StageFaults, Moves
<1>9. CASE RenderReturns(p) \/ Unwind(p) \/ PipelineReturns(p)
  BY <1>9 DEF RenderReturns, Unwind, PipelineReturns, Moves
<1>10. CASE CreateBitmap(p) \/ BitmapFaults(p) \/ Leave(p)
  BY <1>10 DEF CreateBitmap, BitmapFaults, Leave, Moves
<1>11. CASE Initialize(p) \/ GetThumbnail(p) \/ StopPointPasses(p)
  BY <1>11 DEF Initialize, GetThumbnail, StopPointPasses, Moves
<1>12. CASE ReleaseObject(p)
  BY <1>12 DEF ReleaseObject, Moves
<1> QED BY <1>1, <1>2, <1>3, <1>4, <1>5, <1>6, <1>7, <1>8, <1>9, <1>10, <1>11,
           <1>12 DEF Reserving, Kernel, Pipeline, Requests

\* No move loses a byte of a live token.
LEMMA MoveBalances ==
    ASSUME Typed, Balanced, NEW p \in Providers, Moves(p)
    PROVE  Balanced' /\ reserved' \in Nat
<1> USE DEF Typed, TypeOK
<1>1. CASE UNCHANGED <<held, reserved>> /\ (quarantined => quarantined')
  BY <1>1 DEF Balanced
<1>2. CASE /\ pc[p] \in Parts \ held[p]
           /\ held' = [held EXCEPT ![p] = @ \union {pc[p]}]
           /\ reserved' = reserved + Bytes[pc[p]]
           /\ UNCHANGED quarantined
  <2>1. /\ LiveBytes(held) \in Nat /\ LiveBytes(held') \in Nat
        /\ LiveBytes(held') + Charges(held[p])
             = LiveBytes(held) + Charges(held[p] \union {pc[p]})
    BY <1>2, LiveChanges
  <2>2. /\ Charges(held[p] \union {pc[p]}) = Charges(held[p]) + Bytes[pc[p]]
        /\ Charges(held[p]) \in Nat /\ Bytes[pc[p]] \in Nat
    BY <1>2, ChargesSplit, ChargesAreNatural, ProviderAssumption
  <2>3. LiveBytes(held') = LiveBytes(held) + Bytes[pc[p]]
    BY <2>1, <2>2
  <2> QED BY <1>2, <2>1, <2>2, <2>3 DEF Balanced
<1>3. ASSUME NEW S, GiveBack(p, S), UNCHANGED quarantined
      PROVE  Balanced' /\ reserved' \in Nat
  <2>1. /\ held' = [held EXCEPT ![p] = held[p] \ S]
        /\ reserved' = reserved - Charges(held[p] \intersect S)
    BY <1>3 DEF GiveBack
  <2>2. /\ LiveBytes(held) \in Nat /\ LiveBytes(held') \in Nat
        /\ LiveBytes(held') + Charges(held[p]) = LiveBytes(held) + Charges(held[p] \ S)
    BY <2>1, LiveChanges
  <2>3. /\ Charges(held[p]) = Charges(held[p] \intersect S) + Charges(held[p] \ S)
        /\ Charges(held[p] \intersect S) \in Nat /\ Charges(held[p] \ S) \in Nat
    BY ChargesSplit, ChargesAreNatural
  <2>4. LiveBytes(held') + Charges(held[p] \intersect S) = LiveBytes(held)
    BY <2>2, <2>3
  <2> QED BY <1>3, <2>1, <2>2, <2>3, <2>4 DEF Balanced
<1>4. ASSUME NEW S, held' = [held EXCEPT ![p] = @ \ S],
             UNCHANGED reserved, quarantined'
      PROVE  Balanced' /\ reserved' \in Nat
  <2>1. /\ LiveBytes(held) \in Nat /\ LiveBytes(held') \in Nat
        /\ LiveBytes(held') + Charges(held[p]) = LiveBytes(held) + Charges(held[p] \ S)
    BY <1>4, LiveChanges
  <2>2. /\ Charges(held[p]) = Charges(held[p] \intersect S) + Charges(held[p] \ S)
        /\ Charges(held[p] \intersect S) \in Nat /\ Charges(held[p] \ S) \in Nat
    BY ChargesSplit, ChargesAreNatural
  <2>3. LiveBytes(held') <= LiveBytes(held)
    BY <2>1, <2>2
  <2> QED BY <1>4, <2>1, <2>3 DEF Balanced
<1> QED BY <1>1, <1>2, <1>3, <1>4 DEF Moves

\* Each step takes the object to a place that may hold what it has.
LEMMA FreshStep ==
    ASSUME Typed, Fresh, NEW p \in Providers,
           Reserving(p) \/ Kernel(p) \/ Pipeline(p) \/ Requests(p)
    PROVE  Fresh'
<1> USE DEF Typed, TypeOK, Fresh, Kept, Keep, callVars, Goto, Answer, GiveBack
<1>1. CASE Loads(p)
  BY <1>1 DEF Loads
<1>2. CASE TryReserve(p)
  BY <1>2 DEF TryReserve, Swaps, WithPart
<1>3. CASE Refused(p)
  BY <1>3 DEF Refused, WithoutPart
<1>4. CASE EntersKernel(p)
  BY <1>4 DEF EntersKernel
<1>5. CASE KernelReturns(p)
  BY <1>5 DEF KernelReturns, AfterGeometry, Stops
<1>6. CASE KernelFaults(p) \/ CloseReturns(p) \/ CloseFaults(p)
  BY <1>6 DEF KernelFaults, CloseReturns, CloseFaults
<1>7. CASE RunThumbnailPipeline(p) \/ Parse(p) \/ Admit(p) \/ Sample(p)
  BY <1>7 DEF RunThumbnailPipeline, Refuses, Parse, Admit, Sample
<1>8. CASE StageReturns(p) \/ StageFails(p) \/ StageFaults(p)
  BY <1>8 DEF StageReturns, StageFails, StageFaults, Unlocked, AfterGeometry,
              Stops
<1>9. CASE RenderReturns(p) \/ RenderFaults(p)
  BY <1>9 DEF RenderReturns, RenderFaults, Stops
<1>10. CASE Unwind(p) \/ PipelineReturns(p)
  BY <1>10 DEF Unwind, PipelineReturns, Returned
<1>11. CASE CreateBitmap(p) \/ BitmapFaults(p) \/ Leave(p)
  BY <1>11 DEF CreateBitmap, BitmapFaults, Leave
<1>12. CASE Requests(p)
  BY <1>12 DEF Requests, Initialize, ReleaseObject, GetThumbnail,
               StopPointPasses
<1> QED BY <1>1, <1>2, <1>3, <1>4, <1>5, <1>6, <1>7, <1>8, <1>9, <1>10, <1>11,
           <1>12 DEF Reserving, Kernel, Pipeline

\* The types of all but the sum.
Plain ==
    /\ pc \in [Providers -> Outside \union Initializing \union InCall]
    /\ seen \in [Providers -> Int]
    /\ held \in [Providers -> SUBSET Parts]
    /\ lock \in Providers \union {Free}
    /\ quarantined \in BOOLEAN
    /\ document \in [Providers -> BOOLEAN] /\ late \in [Providers -> BOOLEAN]
    /\ suspect \in [Providers -> BOOLEAN]
    /\ result \in [Providers -> Results]
    /\ kind \in [Providers -> Kinds]
    /\ uses \in [Providers -> Nat]
    /\ \A p \in Providers : uses[p] \in 0..MaxUses[p]

\* A call counts once, and no further than the bound.
LEMMA UsesCount ==
    ASSUME Plain, NEW p \in Providers, uses[p] < MaxUses[p],
           uses' = [uses EXCEPT ![p] = @ + 1]
    PROVE  uses' \in [Providers -> Nat] /\ \A q \in Providers : uses'[q] \in 0..MaxUses[q]
<1>1. \A q \in Providers : MaxUses[q] \in Nat
  BY ProviderAssumption
<1>2. uses' \in [Providers -> Nat]
  BY DEF Plain
<1>3. ASSUME NEW q \in Providers PROVE uses'[q] \in 0..MaxUses[q]
  <2>1. uses[q] \in Nat /\ uses[q] <= MaxUses[q] /\ uses[q] >= 0
    BY <1>1 DEF Plain
  <2>2. uses'[q] = IF q = p THEN uses[q] + 1 ELSE uses[q]
    BY DEF Plain
  <2> QED BY <1>1, <2>1, <2>2
<1> QED BY <1>2, <1>3

\* Each step keeps them.
LEMMA PlainStep ==
    ASSUME Plain, reserved \in Nat, NEW p \in Providers,
           Reserving(p) \/ Kernel(p) \/ Pipeline(p) \/ Requests(p)
    PROVE  Plain'
<1> USE DEF Plain, Keep, callVars, Goto, Answer, GiveBack, NotLoaded
<1>1. CASE Loads(p)
  BY <1>1 DEF Loads
<1>2. CASE TryReserve(p)
  BY <1>2 DEF TryReserve, Swaps, WithPart
<1>3. CASE Refused(p)
  BY <1>3 DEF Refused, WithoutPart
<1>4. CASE EntersKernel(p)
  BY <1>4 DEF EntersKernel
<1>5. CASE KernelReturns(p)
  BY <1>5 DEF KernelReturns, AfterGeometry, Stops
<1>6. CASE KernelFaults(p) \/ CloseReturns(p)
  BY ZenonT(60), <1>6 DEF KernelFaults, CloseReturns, LockAfterFault
<1>13. CASE CloseFaults(p)
  BY <1>13 DEF CloseFaults
<1>14. CASE RenderFaults(p)
  BY <1>14 DEF RenderFaults
<1>7. CASE RunThumbnailPipeline(p) \/ Parse(p) \/ Admit(p) \/ Sample(p)
  BY <1>7 DEF RunThumbnailPipeline, Refuses, Parse, Admit, Sample
<1>8. CASE StageReturns(p) \/ StageFails(p) \/ StageFaults(p)
  BY ZenonT(60), <1>8 DEF StageReturns, StageFails, StageFaults, Unlocked, AfterGeometry,
              Stops
<1>9. CASE RenderReturns(p)
  BY <1>9 DEF RenderReturns, Stops
<1>10. CASE Unwind(p) \/ PipelineReturns(p)
  BY <1>10 DEF Unwind, PipelineReturns, Returned
<1>11. CASE CreateBitmap(p) \/ BitmapFaults(p) \/ Leave(p)
  BY ZenonT(60), <1>11 DEF CreateBitmap, BitmapFaults, Leave
<1>12. CASE Requests(p)
  <2>1. CASE Initialize(p)
    BY <2>1, UsesCount DEF Initialize
  <2>2. CASE ReleaseObject(p)
    BY <2>2 DEF ReleaseObject
  <2>3. CASE GetThumbnail(p)
    <3>1. suspect' \in [Providers -> BOOLEAN] /\ late' \in [Providers -> BOOLEAN]
      BY <2>3 DEF GetThumbnail
    <3>2. /\ pc' \in [Providers -> Outside \union Initializing \union InCall]
          /\ result' \in [Providers -> Results]
      BY <2>3 DEF GetThumbnail
    <3> QED BY <2>3, <3>1, <3>2, UsesCount DEF GetThumbnail
  <2>4. CASE StopPointPasses(p)
    BY <2>4 DEF StopPointPasses
  <2> QED BY <1>12, <2>1, <2>2, <2>3, <2>4 DEF Requests
<1> QED BY <1>1, <1>2, <1>3, <1>4, <1>5, <1>6, <1>7, <1>8, <1>9, <1>10, <1>11,
           <1>12, <1>13, <1>14 DEF Reserving, Kernel, Pipeline

\* With the places of the tokens they are all of the types.
LEMMA TypedIsPlain == Fresh => (Typed <=> Plain /\ reserved \in Nat)
  BY DEF Typed, TypeOK, Plain, Fresh, Kept

\* Nothing is held at first.
LEMMA LedgerInit == Init => Ledger
<1> SUFFICES ASSUME Init PROVE Ledger
  OBVIOUS
<1>1. Plain /\ reserved \in Nat /\ Fresh
  <2>1. Plain
    <3>1. \A p \in Providers : MaxUses[p] \in Nat /\ uses[p] = 0
      BY ProviderAssumption DEF Init
    <3>2. \A p \in Providers : uses[p] \in 0..MaxUses[p]
      BY <3>1
    <3>3. /\ pc \in [Providers -> Outside \union Initializing \union InCall]
          /\ seen \in [Providers -> Int]
          /\ held \in [Providers -> SUBSET Parts]
          /\ result \in [Providers -> Results]
          /\ kind \in [Providers -> Kinds]
          /\ uses \in [Providers -> Nat]
      BY DEF Init, NotLoaded
    <3>6. lock \in Providers \union {Free} /\ quarantined \in BOOLEAN
      BY DEF Init
    <3>4. document \in [Providers -> BOOLEAN] /\ late \in [Providers -> BOOLEAN]
      BY DEF Init
    <3>5. suspect \in [Providers -> BOOLEAN]
      BY DEF Init
    <3> QED BY <3>2, <3>3, <3>4, <3>5, <3>6 DEF Plain
  <2>2. Fresh
    BY DEF Init, Fresh, Kept
  <2> QED BY <2>1, <2>2 DEF Init
<1>2. Typed
  BY <1>1, TypedIsPlain
<1>3. \A q \in Providers : Held(held)[q] = 0
  BY DEF Init, Held, Charges, Charge
<1>4. Total(Held(held), Providers) = 0
  BY <1>3, ProviderAssumption, TotalZero
<1>5. LiveBytes(held) = 0
  BY <1>4, LiveIsTotal
<1> QED BY <1>1, <1>2, <1>5 DEF Init, Ledger, Balanced

\* Every step keeps the balance.
LEMMA LedgerNext == Ledger /\ [Next]_vars => Ledger'
<1> SUFFICES ASSUME Ledger, [Next]_vars PROVE Ledger'
  OBVIOUS
<1>1. CASE UNCHANGED vars
  BY <1>1 DEF vars, callVars, Ledger, Typed, TypeOK, Fresh, Balanced
<1>2. ASSUME NEW p \in Providers,
             Reserving(p) \/ Kernel(p) \/ Pipeline(p) \/ Requests(p)
      PROVE  Ledger'
  <2>1. Typed /\ Fresh /\ Balanced /\ Plain /\ reserved \in Nat
    BY TypedIsPlain DEF Ledger
  <2>2. Balanced' /\ reserved' \in Nat
    BY <1>2, <2>1, StepMoves, MoveBalances
  <2>3. Plain' /\ Fresh'
    BY <1>2, <2>1, PlainStep, FreshStep
  <2>4. Typed'
    BY <2>2, <2>3, TypedIsPlain DEF Typed, TypeOK, Plain, Fresh, Kept
  <2> QED BY <2>2, <2>3, <2>4 DEF Ledger
<1> QED BY <1>1, <1>2 DEF Next

\* Every variable keeps its type, and a token of a call is never held once
\* the call is over, whichever way it ended.
THEOREM ProviderTypes == Spec => []TypeOK
<1>1. Ledger => TypeOK
  BY DEF Ledger, Typed
<1> QED BY <1>1, LedgerInit, LedgerNext, PTL DEF Spec

\* However many requests charge and release at once, and whichever way they
\* end, the ledger covers every live token, and before any quarantine it is
\* exactly their sum.
THEOREM LedgerIsBalanced == Spec => []LedgerBalances
<1>1. Ledger /\ WithinLimit => LedgerBalances
  BY DEF Ledger, Balanced, LedgerBalances
<1>2. Spec => []Ledger
  BY LedgerInit, LedgerNext, PTL DEF Spec
<1> QED BY <1>1, <1>2, CeilingHolds, PTL
=============================================================================
