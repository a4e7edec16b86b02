-------------------------- MODULE UploadRingProofs --------------------------
(***************************************************************************)
(* Proofs about the upload lane, for every size, capacity and number of    *)
(* models.  The invariants, each resting on the ones before it:            *)
(*   IInv      a copy not yet submitted reads the current buffer through   *)
(*             the open batch, a submitted one completes no later than the *)
(*             last fence, behind which a buffer retires;                  *)
(*   SpaceInv  what is charged is the sum of what is pending, recorded,    *)
(*             given to a call or lost, and a copy from the current buffer *)
(*             lies in what is charged since its allocation, going round;  *)
(*   PubInv    a publication is never behind an earlier fence than the     *)
(*             copies of its cluster, and no ready cluster is being copied;*)
(*   OwnInv    a copy belongs to the model being uploaded or to one that   *)
(*             retired behind its fence;                                   *)
(*   BatchInv  before the first fault no wait leaves the event set, and no *)
(*             batch is open ahead of the GPU.                             *)
(***************************************************************************)
EXTENDS UploadRing, FoldLemmas, TLAPS

Entries == [occupied : Nat, fence : Nat]
Occupied(entries) == [i \in DOMAIN entries |-> entries[i].occupied]

\* The bytes of a queue are the sum of what its entries occupy.
LEMMA BytesIsTotal ==
  ASSUME NEW e \in Seq(Entries)
  PROVE  /\ Occupied(e) \in Seq(Nat) /\ Len(Occupied(e)) = Len(e)
         /\ Bytes(e) = SeqTotal(Occupied(e)) /\ Bytes(e) \in Nat
<1> DEFINE D == DOMAIN e
           sum == CHOOSE it : it = [s \in SUBSET D |->
                    IF s = {} THEN 0
                    ELSE e[CHOOSE x \in s : TRUE].occupied + it[s \ {CHOOSE x \in s : TRUE}]]
<1>0. D = 1 .. Len(e) /\ Len(e) \in Nat /\ \A i \in D : e[i] \in Entries
  BY LenProperties, ElementOfSeq
<1>1. Bytes(e) = sum[D]
  BY DEF Bytes, FoldSeq, FoldFunction, FoldFunctionOnSet, MapThenFoldSet
<1>2. \A i \in D : Occupied(e)[i] = e[i].occupied /\ Occupied(e)[i] \in Nat
  BY <1>0 DEF Occupied, Entries
<1>3. IsFiniteSet(D) /\ Chooses(Choosing(D), D)
  BY IndicesFinite, ChosenFromSet
<1>t. Occupied(e) \in Seq(Nat) /\ Len(Occupied(e)) = Len(e) /\ DOMAIN Occupied(e) = D
  BY <1>0, <1>2, IsASeq, LenProperties DEF Occupied
<1> HIDE DEF D
<1>4. PICK it : IsSum(it, Occupied(e), D, Choosing(D))
  BY <1>2, <1>3, SumExists
<1>5. it = [s \in SUBSET D |->
                IF s = {} THEN 0
                ELSE e[CHOOSE x \in s : TRUE].occupied + it[s \ {CHOOSE x \in s : TRUE}]]
  BY ZenonT(60), <1>2, <1>4 DEF IsSum, Choosing
<1>6. sum = [s \in SUBSET D |->
                IF s = {} THEN 0
                ELSE e[CHOOSE x \in s : TRUE].occupied + sum[s \ {CHOOSE x \in s : TRUE}]]
  BY <1>5
<1> HIDE DEF sum
<1>7. IsSum(sum, Occupied(e), D, Choosing(D))
  BY <1>2, <1>6 DEF IsSum, Choosing
<1>8. Bytes(e) = Total(Occupied(e), D)
  BY <1>1, <1>2, <1>3, <1>7, TotalIsSum
<1> QED
  BY <1>t, <1>8, SeqTotalType DEF SeqTotal

(* Nothing occupies nothing; one entry more adds what it occupies.          *)
LEMMA BytesAppend ==
  /\ Bytes(<<>>) = 0
  /\ \A e \in Seq(Entries), n \in Entries : Bytes(Append(e, n)) = Bytes(e) + n.occupied
<1>1. Bytes(<<>>) = 0
  <2>1. <<>> \in Seq(Entries) /\ Occupied(<<>>) = <<>>
    BY DEF Occupied
  <2> QED
    BY <2>1, BytesIsTotal, SeqTotalType
<1>2. ASSUME NEW e \in Seq(Entries), NEW n \in Entries
      PROVE  Bytes(Append(e, n)) = Bytes(e) + n.occupied
  <2>1. Append(e, n) \in Seq(Entries) /\ n.occupied \in Nat
    BY DEF Entries
  <2>2. Occupied(Append(e, n)) = Append(Occupied(e), n.occupied)
    BY LenProperties, AppendProperties DEF Occupied
  <2> QED
    BY <2>1, <2>2, BytesIsTotal, SeqTotalAppend
<1> QED
  BY <1>1, <1>2

(* One queue behind another.                                                *)
LEMMA BytesConcat ==
  ASSUME NEW e \in Seq(Entries), NEW f \in Seq(Entries)
  PROVE  e \o f \in Seq(Entries) /\ Bytes(e \o f) = Bytes(e) + Bytes(f)
<1>1. e \o f \in Seq(Entries)
  OBVIOUS
<1>2. Occupied(e \o f) = Occupied(e) \o Occupied(f)
  <2>0. Occupied(e) \in Seq(Nat) /\ Occupied(f) \in Seq(Nat) /\ Occupied(e \o f) \in Seq(Nat)
    BY <1>1, BytesIsTotal
  <2>1. /\ Len(Occupied(e \o f)) = Len(e) + Len(f)
        /\ Len(Occupied(e) \o Occupied(f)) = Len(e) + Len(f)
    <3>1. Len(e \o f) = Len(e) + Len(f)
      BY ConcatProperties
    <3>2. Len(Occupied(e \o f)) = Len(e \o f)
      BY <1>1, BytesIsTotal
    <3>3. Len(Occupied(e) \o Occupied(f)) = Len(Occupied(e)) + Len(Occupied(f))
      BY <2>0, ConcatProperties
    <3> QED
      BY <3>1, <3>2, <3>3, BytesIsTotal
  <2>2. ASSUME NEW i \in 1 .. Len(e) + Len(f)
        PROVE  Occupied(e \o f)[i] = (Occupied(e) \o Occupied(f))[i]
    BY SMTT(30), <1>1, <2>0, <2>1, BytesIsTotal, LenProperties, ConcatProperties DEF Occupied
  <2>3. Occupied(e) \o Occupied(f) \in Seq(Nat)
    BY <2>0, ConcatProperties
  <2> QED
    BY <2>0, <2>1, <2>2, <2>3, SeqEqual
<1> QED
  BY <1>1, <1>2, BytesIsTotal, SeqTotalConcat

(* Submitting a batch changes its fences, not what it occupies.             *)
LEMMA BytesStamped ==
  ASSUME NEW e \in Seq(Entries), NEW n \in Nat
  PROVE  Stamped(e, n) \in Seq(Entries) /\ Bytes(Stamped(e, n)) = Bytes(e)
<1>0. DOMAIN e = 1 .. Len(e) /\ Len(e) \in Nat /\ \A i \in DOMAIN e : e[i] \in Entries
  BY LenProperties, ElementOfSeq
<1>1. DOMAIN Stamped(e, n) = DOMAIN e
  BY DEF Stamped
<1>2. \A i \in DOMAIN e : /\ Stamped(e, n)[i] \in Entries
                          /\ Stamped(e, n)[i].occupied = e[i].occupied
  BY <1>0 DEF Stamped, Entries
<1>3. Stamped(e, n) \in Seq(Entries)
  BY <1>0, <1>1, <1>2, IsASeq DEF Stamped
<1>4. Occupied(Stamped(e, n)) = Occupied(e)
  BY <1>1, <1>2 DEF Occupied
<1> QED
  BY <1>3, <1>4, BytesIsTotal

(* What has completed is a prefix of a queue.                               *)
LEMMA CompletedPrefix ==
  ASSUME NEW S, NEW q \in Seq(S)
  PROVE  /\ CompletedCount(q) \in 0 .. Len(q)
         /\ \A i \in 1 .. CompletedCount(q) : Done(q[i])
<1> DEFINE I == {i \in 1 .. Len(q) : NotDone(q[i])}
<1>0. Len(q) \in Nat
  BY LenProperties
<1>1. SelectInSeq(q, NotDone) = IF I # {} THEN Min(I) ELSE 0
  BY DEF SelectInSeq, NotDone, Done
<1>2. CASE I = {}
  <2>1. CompletedCount(q) = Len(q)
    BY <1>1, <1>2 DEF CompletedCount
  <2>2. ASSUME NEW j \in 1 .. Len(q) PROVE Done(q[j])
    BY <1>2, <2>2 DEF NotDone
  <2> QED
    BY <1>0, <2>1, <2>2
<1>3. CASE I # {}
  <2>1. I \in SUBSET Nat
    OBVIOUS
  <2> HIDE DEF I
  <2>2. PICK i \in I : \A j \in I : i <= j
    BY <1>3, <2>1, LeastNumber
  <2>3. Min(I) \in I /\ \A j \in I : Min(I) <= j
    BY <2>2 DEF Min
  <2> USE DEF I
  <2>4. Min(I) \in 1 .. Len(q) /\ CompletedCount(q) = Min(I) - 1
    BY <1>1, <1>3, <2>3 DEF CompletedCount
  <2>5. ASSUME NEW j \in 1 .. CompletedCount(q) PROVE Done(q[j])
    BY <1>0, <2>3, <2>4 DEF NotDone
  <2> QED
    BY <1>0, <2>4, <2>5
<1> QED
  BY <1>2, <1>3

(* A queue is what has completed, then what waits.                          *)
LEMMA QueueSplits ==
  ASSUME NEW S, NEW q \in Seq(S)
  PROVE  /\ Completed(q) \in Seq(S) /\ Waiting(q) \in Seq(S)
         /\ q = Completed(q) \o Waiting(q)
<1> DEFINE n == CompletedCount(q)
<1>1. n \in 0 .. Len(q) /\ Len(q) \in Nat
  BY CompletedPrefix, LenProperties
<1>2. /\ DOMAIN q = 1 .. Len(q)
      /\ \A i \in 1 .. Len(q) : q[i] \in S
  BY LenProperties, ElementOfSeq
<1> HIDE DEF n
<1>3. SubSeq(q, 1, n) \in Seq(S) /\ SubSeq(q, n + 1, Len(q)) \in Seq(S)
  BY <1>1, <1>2, SubSeqProperties
<1>4. SubSeq(q, 1, n) \o SubSeq(q, n + 1, Len(q)) = SubSeq(q, 1, Len(q))
  <2>1. 1 \in 1 .. Len(q) + 1 /\ n \in 1 - 1 .. Len(q) /\ Len(q) \in n .. Len(q)
    BY <1>1
  <2> QED
    BY <2>1, ConcatAdjacentSubSeq
<1>5. SubSeq(q, 1, Len(q)) = q
  BY SubSeqFull
<1> QED
  BY <1>3, <1>4, <1>5 DEF Completed, Waiting, n

(* So reclaiming frees every byte of what has completed, once.              *)
LEMMA BytesReclaimed ==
  ASSUME NEW e \in Seq(Entries)
  PROVE  /\ Waiting(e) \in Seq(Entries)
         /\ Bytes(Completed(e)) \in Nat /\ Bytes(Waiting(e)) \in Nat
         /\ Bytes(e) = Bytes(Completed(e)) + Bytes(Waiting(e))
  BY QueueSplits, BytesConcat, BytesIsTotal

-----------------------------------------------------------------------------
(* What each operation of the ring changes.                                 *)

RingFields ==
    {"buffer", "capacity", "offset", "used", "open", "recorded", "bytes", "toPublish",
     "pending", "publications", "retired", "last", "signalled", "copies"}
CopyFields == {"number", "cluster", "generation", "buffer", "at", "size", "fence"}

(* Submitting: what was recorded moves behind what is pending.              *)
LEMMA FlushedFields ==
  ASSUME NEW r, DOMAIN r = RingFields
  PROVE  LET f == Flushed(r) IN
         /\ DOMAIN f = RingFields /\ f.open = FALSE
         /\ f.buffer = r.buffer /\ f.capacity = r.capacity /\ f.offset = r.offset
         /\ f.used = r.used /\ f.retired = r.retired
         /\ (r.open /\ r.recorded # <<>>) =>
               /\ f.recorded = <<>> /\ f.toPublish = <<>> /\ f.bytes = 0
               /\ f.pending = r.pending \o Stamped(r.recorded, r.signalled + 1)
               /\ f.publications = r.publications \o Stamped(r.toPublish, r.signalled + 1)
               /\ f.last = r.signalled + 1 /\ f.signalled = r.signalled + 1
               /\ f.copies = {[c EXCEPT !.fence = IF @ = 0 THEN r.signalled + 1 ELSE @]
                                : c \in r.copies}
         /\ ~(r.open /\ r.recorded # <<>>) =>
               /\ f.recorded = r.recorded /\ f.toPublish = r.toPublish /\ f.bytes = r.bytes
               /\ f.pending = r.pending /\ f.publications = r.publications
               /\ f.last = r.last /\ f.signalled = r.signalled /\ f.copies = r.copies
<1> DEFINE f == Flushed(r)
<1>1. CASE r.open /\ r.recorded # <<>>
  <2> DEFINE u == Submitted(r)
  <2>1. f = [u EXCEPT !.open = FALSE]
    BY <1>1 DEF Flushed
  <2>2. /\ DOMAIN u = RingFields
        /\ u.buffer = r.buffer /\ u.capacity = r.capacity /\ u.offset = r.offset
        /\ u.used = r.used /\ u.retired = r.retired
        /\ u.recorded = <<>> /\ u.toPublish = <<>> /\ u.bytes = 0
        /\ u.pending = r.pending \o Stamped(r.recorded, r.signalled + 1)
        /\ u.publications = r.publications \o Stamped(r.toPublish, r.signalled + 1)
        /\ u.last = r.signalled + 1 /\ u.signalled = r.signalled + 1
        /\ u.copies = {[c EXCEPT !.fence = IF @ = 0 THEN r.signalled + 1 ELSE @]
                         : c \in r.copies}
    BY DEF Submitted, RingFields
  <2> HIDE DEF u
  <2> QED
    BY <1>1, <2>1, <2>2 DEF RingFields
<1>2. CASE ~(r.open /\ r.recorded # <<>>)
  <2>1. f = [r EXCEPT !.open = FALSE]
    BY <1>2 DEF Flushed
  <2> HIDE DEF f
  <2>2. /\ DOMAIN f = RingFields /\ f.open = FALSE
        /\ f.buffer = r.buffer /\ f.capacity = r.capacity /\ f.offset = r.offset
        /\ f.used = r.used /\ f.retired = r.retired
        /\ f.recorded = r.recorded /\ f.toPublish = r.toPublish /\ f.bytes = r.bytes
        /\ f.pending = r.pending /\ f.publications = r.publications
        /\ f.last = r.last /\ f.signalled = r.signalled /\ f.copies = r.copies
    BY <2>1 DEF RingFields
  <2> QED
    BY <1>2, <2>2 DEF f
<1> QED
  BY <1>1, <1>2

(* Growing: a fresh buffer, nothing pending in it.                          *)
LEMMA GrownFields ==
  ASSUME NEW r, DOMAIN r = RingFields
  PROVE  LET g == Grown(r)
             f == BatchSubmitted(r)
         IN
         /\ DOMAIN f = RingFields => DOMAIN g = RingFields
         /\ DOMAIN f = RingFields =>
               /\ g.buffer = f.buffer + 1 /\ g.capacity = GrownCapacity(f)
               /\ g.offset = 0 /\ g.used = 0 /\ g.pending = <<>>
               /\ g.open = f.open /\ g.recorded = f.recorded /\ g.toPublish = f.toPublish
               /\ g.bytes = f.bytes /\ g.publications = f.publications
               /\ g.last = f.last /\ g.signalled = f.signalled /\ g.copies = f.copies
<1> DEFINE f == BatchSubmitted(r)
<1>1. Grown(r) = [f EXCEPT
         !.retired = @ \cup {[buffer |-> f.buffer, fence |-> f.last]},
         !.pending = <<>>, !.buffer = @ + 1, !.capacity = GrownCapacity(f),
         !.offset = 0, !.used = 0]
  BY DEF Grown, FlushedToGrow
<1> HIDE DEF f
<1> QED
  BY <1>1 DEF RingFields, f

(* Reclaiming: the front of the queue goes, and its bytes with it.          *)
LEMMA ReclaimedFields ==
  ASSUME NEW r, DOMAIN r = RingFields
  PROVE  LET s == Reclaimed(r) IN
         /\ DOMAIN s = RingFields
         /\ s.used = r.used - Bytes(Completed(r.pending))
         /\ s.pending = Waiting(r.pending)
         /\ s.buffer = r.buffer /\ s.capacity = r.capacity /\ s.offset = r.offset
         /\ s.open = r.open /\ s.recorded = r.recorded /\ s.toPublish = r.toPublish
         /\ s.bytes = r.bytes /\ s.publications = r.publications
         /\ s.last = r.last /\ s.signalled = r.signalled /\ s.copies = r.copies
  BY DEF Reclaimed, RingFields

(* Allocating: the cursor moves, and what is skipped is charged too.        *)
LEMMA AllocatedFields ==
  ASSUME NEW r, NEW c, DOMAIN r = RingFields
  PROVE  LET s == Allocated(r, c) IN
         /\ DOMAIN s = RingFields
         /\ s.offset = CursorAfter(r, c) /\ s.used = r.used + c.size + Padding(r, c)
         /\ s.buffer = r.buffer /\ s.capacity = r.capacity
         /\ s.open = r.open /\ s.recorded = r.recorded /\ s.toPublish = r.toPublish
         /\ s.bytes = r.bytes /\ s.pending = r.pending /\ s.publications = r.publications
         /\ s.last = r.last /\ s.signalled = r.signalled /\ s.copies = r.copies
  BY DEF Allocated, RingFields

(* The signal of WaitForIdle.                                               *)
LEMMA SignalledFields ==
  ASSUME NEW r, DOMAIN r = RingFields
  PROVE  LET s == Signalled(r) IN
         /\ DOMAIN s = RingFields /\ s.signalled = r.signalled + 1
         /\ s.buffer = r.buffer /\ s.capacity = r.capacity /\ s.offset = r.offset
         /\ s.used = r.used /\ s.open = r.open /\ s.recorded = r.recorded
         /\ s.toPublish = r.toPublish /\ s.bytes = r.bytes /\ s.pending = r.pending
         /\ s.publications = r.publications /\ s.last = r.last /\ s.copies = r.copies
  BY DEF Signalled, RingFields

\* The copy and the publication a call records, and the batch with them.
NewCopy(r, c) ==
    [number |-> model.copies + 1, cluster |-> model.queued + 1,
     generation |-> model.token, buffer |-> r.buffer,
     at |-> c.at, size |-> c.size, fence |-> 0]
NewPublication == [cluster |-> model.queued + 1, generation |-> model.token, fence |-> 0]
WithCopy(r, c) ==
    [r EXCEPT
        !.open = TRUE, !.copies = @ \cup {NewCopy(r, c)},
        !.recorded = Append(@, [occupied |-> Charge(c), fence |-> 0]),
        !.toPublish = IF c.publish THEN Append(@, NewPublication) ELSE @,
        !.bytes = @ + c.size]

(* Recording: the open batch takes the copy, and is submitted when full.    *)
LEMMA RecordedFields ==
  ASSUME NEW r, NEW c, DOMAIN r = RingFields
  PROVE  LET s == WithCopy(r, c) IN
         /\ Recorded(r, c) = IF s.bytes >= MaxBatchBytes THEN Flushed(s) ELSE s
         /\ DOMAIN s = RingFields /\ s.open = TRUE
         /\ s.copies = r.copies \cup {NewCopy(r, c)}
         /\ s.recorded = Append(r.recorded, [occupied |-> c.occupied, fence |-> 0])
         /\ s.toPublish = IF c.publish THEN Append(r.toPublish, NewPublication)
                                       ELSE r.toPublish
         /\ s.bytes = r.bytes + c.size
         /\ s.buffer = r.buffer /\ s.capacity = r.capacity /\ s.offset = r.offset
         /\ s.used = r.used /\ s.pending = r.pending /\ s.publications = r.publications
         /\ s.last = r.last /\ s.signalled = r.signalled
<1>1. Recorded(r, c) = IF WithCopy(r, c).bytes >= MaxBatchBytes
                          THEN Flushed(WithCopy(r, c)) ELSE WithCopy(r, c)
  BY DEF Recorded, WithCopy, NewCopy, NewPublication
<1> QED
  BY <1>1 DEF WithCopy, RingFields, Charge

-----------------------------------------------------------------------------
(* The fences, and the buffers behind them.                                 *)

\* The fences are numbers, and the GPU is never ahead of what was signalled.
Counters(r, k) ==
    /\ r.last \in Nat /\ r.signalled \in Nat /\ k \in Nat
    /\ r.last <= r.signalled /\ k <= r.signalled
    /\ r.bytes \in Nat

\* A copy that is still unsubmitted belongs to the open batch and reads the
\* current buffer; a submitted one is not complete yet but will be with "last".
CopyFence(r, k, c) ==
    /\ DOMAIN c = CopyFields
    /\ c.fence \in Nat
    /\ c.fence = 0 => r.open /\ c.buffer = r.buffer
    /\ c.fence # 0 => k < c.fence /\ c.fence <= r.last

\* Where a copy reads: the current buffer, or one that retires behind it.
CopySource(r, c) ==
    \/ c.buffer = r.buffer
    \/ \E b \in r.retired : b.buffer = c.buffer /\ c.fence <= b.fence

RingInv(r, k) ==
    /\ DOMAIN r = RingFields
    /\ Counters(r, k)
    /\ r.open \in BOOLEAN
    /\ \E S : r.recorded \in Seq(S)
    /\ r.open => r.recorded # <<>> /\ r.bytes > 0
    /\ \A b \in r.retired : b.fence \in Nat
    /\ \A c \in r.copies : CopyFence(r, k, c) /\ CopySource(r, c)

\* A call that may still be given space copies at least one byte.
CallInv ==
    /\ DOMAIN call = {"size", "align", "publish", "at", "occupied"}
    /\ pc \in {"reclaim", "grow", "wait", "begin"} => call.size \in Nat \ {0}

IInv == RingInv(ring, completed) /\ CallInv

(* A ring that differs in nothing the invariant looks at.                   *)
LEMMA SameLane ==
  ASSUME NEW r, NEW s, NEW k, RingInv(r, k),
         DOMAIN s = RingFields, s.buffer = r.buffer, s.open = r.open,
         s.recorded = r.recorded, s.bytes = r.bytes, s.last = r.last,
         s.signalled = r.signalled, s.copies = r.copies,
         \A b \in s.retired : b.fence \in Nat,
         \A b \in r.retired : b.fence > k => b \in s.retired
  PROVE  RingInv(s, k)
<1>1. ASSUME NEW c \in s.copies PROVE CopyFence(s, k, c) /\ CopySource(s, c)
  BY DEF RingInv, CopyFence, CopySource, Counters
<1> QED
  BY <1>1 DEF RingInv, Counters

(* FlushBatch submits everything recorded, behind a fence not yet signalled. *)
LEMMA FlushedRing ==
  ASSUME NEW r, NEW k, RingInv(r, k)
  PROVE  /\ RingInv(Flushed(r), k)
         /\ ~Flushed(r).open
         /\ Flushed(r).buffer = r.buffer
         /\ \A c \in Flushed(r).copies : c.fence # 0
<1> DEFINE f == Flushed(r)
<1>1. CASE r.open
  <2>1. r.recorded # <<>>
    BY <1>1 DEF RingInv
  <2>2. f = [Submitted(r) EXCEPT !.open = FALSE]
    BY <1>1, <2>1 DEF Flushed
  <2>3. DOMAIN Submitted(r) = RingFields
    BY DEF RingInv, Submitted
  <2>4. /\ Submitted(r).recorded = <<>> /\ Submitted(r).bytes = 0
        /\ Submitted(r).last = r.signalled + 1
        /\ Submitted(r).signalled = r.signalled + 1
        /\ Submitted(r).buffer = r.buffer /\ Submitted(r).retired = r.retired
        /\ Submitted(r).copies = {[c EXCEPT !.fence = IF @ = 0 THEN r.signalled + 1 ELSE @]
                                    : c \in r.copies}
    BY DEF RingInv, Submitted, RingFields
  <2>5. /\ DOMAIN f = RingFields /\ f.open = FALSE
        /\ f.recorded = <<>> /\ f.bytes = 0
        /\ f.last = r.signalled + 1 /\ f.signalled = r.signalled + 1
        /\ f.buffer = r.buffer /\ f.retired = r.retired
        /\ f.copies = Submitted(r).copies
    BY <2>2, <2>3, <2>4 DEF RingFields
  <2>6. Counters(f, k)
    BY <2>5 DEF RingInv, Counters
  <2>7. ASSUME NEW c \in f.copies
        PROVE  CopyFence(f, k, c) /\ CopySource(f, c) /\ c.fence # 0
    <3>1. PICK d \in r.copies :
             c = [d EXCEPT !.fence = IF @ = 0 THEN r.signalled + 1 ELSE @]
      BY <2>4, <2>5
    <3>2. CopyFence(r, k, d) /\ CopySource(r, d) /\ Counters(r, k)
      BY DEF RingInv
    <3>3. DOMAIN d = CopyFields
      BY <3>2 DEF CopyFence
    <3>4. /\ DOMAIN c = CopyFields
          /\ c.fence = IF d.fence = 0 THEN r.signalled + 1 ELSE d.fence
          /\ c.buffer = d.buffer
      BY <3>1, <3>3 DEF CopyFields
    <3>5. CASE d.fence = 0
      <4>1. c.fence = r.signalled + 1 /\ d.buffer = r.buffer
        BY <3>2, <3>4, <3>5 DEF CopyFence
      <4> QED
        BY <2>5, <3>2, <3>4, <4>1 DEF CopyFence, CopySource, Counters
    <3>6. CASE d.fence # 0
      <4>1. c.fence = d.fence /\ d.fence <= r.last
        BY <3>2, <3>4, <3>6 DEF CopyFence
      <4> QED
        BY <2>5, <3>2, <3>4, <3>6, <4>1 DEF CopyFence, CopySource, Counters
    <3> QED
      BY <3>5, <3>6
  <2>8. f.recorded \in Seq({})
    BY <2>5
  <2> HIDE DEF f
  <2>9. RingInv(f, k)
    BY <2>5, <2>6, <2>7, <2>8 DEF RingInv
  <2> QED
    BY <2>5, <2>7, <2>9 DEF f
<1>2. CASE ~r.open
  <2>1. f = [r EXCEPT !.open = FALSE]
    BY <1>2 DEF Flushed
  <2>2. /\ DOMAIN f = RingFields /\ f.open = r.open
        /\ f.buffer = r.buffer /\ f.recorded = r.recorded /\ f.bytes = r.bytes
        /\ f.last = r.last /\ f.signalled = r.signalled /\ f.copies = r.copies
        /\ f.retired = r.retired
    BY <1>2, <2>1 DEF RingInv, RingFields
  <2>3. RingInv(f, k)
    BY <2>2, SameLane DEF RingInv
  <2>4. \A c \in f.copies : c.fence # 0
    BY <1>2, <2>2 DEF RingInv, CopyFence
  <2> QED
    BY <1>2, <2>2, <2>3, <2>4
<1> QED
  BY <1>1, <1>2 DEF RingInv

(* Submitting before growing or waiting: no copy is left unsubmitted.       *)
LEMMA BatchSubmittedRing ==
  ASSUME NEW r, NEW k, RingInv(r, k)
  PROVE  /\ RingInv(BatchSubmitted(r), k)
         /\ ~BatchSubmitted(r).open
         /\ \A c \in BatchSubmitted(r).copies : c.fence # 0
<1>1. CASE r.open
  <2>1. BatchSubmitted(r) = Flushed(r)
    BY <1>1 DEF RingInv, BatchSubmitted
  <2> QED
    BY <2>1, FlushedRing
<1>2. CASE ~r.open
  BY <1>2 DEF RingInv, BatchSubmitted, CopyFence
<1> QED
  BY <1>1, <1>2

(* Grow retires the old buffer behind the last copy that reads it.          *)
LEMMA GrownRing ==
  ASSUME NEW r, NEW k, RingInv(r, k)
  PROVE  RingInv(Grown(r), k)
<1> DEFINE f == BatchSubmitted(r)
           g == Grown(r)
<1>1. RingInv(f, k) /\ ~f.open /\ \A c \in f.copies : c.fence # 0
  BY BatchSubmittedRing
<1>2. g = [f EXCEPT !.retired = @ \cup {[buffer |-> f.buffer, fence |-> f.last]},
              !.pending = <<>>, !.buffer = @ + 1, !.capacity = GrownCapacity(f),
              !.offset = 0, !.used = 0]
  BY DEF Grown, FlushedToGrow
<1> HIDE DEF f, g
<1>3. /\ DOMAIN g = RingFields /\ g.open = f.open
      /\ g.recorded = f.recorded /\ g.bytes = f.bytes
      /\ g.last = f.last /\ g.signalled = f.signalled /\ g.copies = f.copies
      /\ g.retired = f.retired \cup {[buffer |-> f.buffer, fence |-> f.last]}
  BY <1>1, <1>2 DEF RingInv, RingFields
<1>4. Counters(g, k) /\ \A b \in g.retired : b.fence \in Nat
  BY <1>1, <1>3 DEF RingInv, Counters
<1>5. ASSUME NEW c \in g.copies PROVE CopyFence(g, k, c) /\ CopySource(g, c)
  <2>1. CopyFence(f, k, c) /\ CopySource(f, c) /\ c.fence # 0
    BY <1>1, <1>3 DEF RingInv
  <2>2. CopyFence(g, k, c)
    BY <1>3, <2>1 DEF CopyFence
  <2>3. CASE c.buffer = f.buffer
    <3> DEFINE b == [buffer |-> f.buffer, fence |-> f.last]
    <3>1. b \in g.retired /\ b.buffer = c.buffer /\ b.fence = f.last
      BY <1>3, <2>3
    <3>2. c.fence <= f.last
      BY <2>1 DEF CopyFence
    <3> QED
      BY <2>2, <3>1, <3>2 DEF CopySource
  <2>4. CASE c.buffer # f.buffer
    BY <1>3, <2>1, <2>2, <2>4 DEF CopySource
  <2> QED
    BY <2>3, <2>4
<1>6. RingInv(g, k)
  BY <1>1, <1>3, <1>4, <1>5 DEF RingInv
<1> QED
  BY <1>6 DEF g

(* ReclaimCompleted drops only buffers behind a fence that has completed.   *)
LEMMA ReclaimedRing ==
  ASSUME NEW r, RingInv(r, completed)
  PROVE  RingInv(Reclaimed(r), completed)
<1> DEFINE s == Reclaimed(r)
<1>1. /\ DOMAIN s = RingFields /\ s.open = r.open
      /\ s.buffer = r.buffer /\ s.recorded = r.recorded /\ s.bytes = r.bytes
      /\ s.last = r.last /\ s.signalled = r.signalled /\ s.copies = r.copies
      /\ s.retired = {b \in r.retired : b.fence > completed}
  BY DEF RingInv, Reclaimed, RingFields
<1> HIDE DEF s
<1>2. RingInv(s, completed)
  BY <1>1, SameLane DEF RingInv
<1> QED
  BY <1>2 DEF s

(* TryAllocateInternal moves the cursor and the count only.                 *)
LEMMA AllocatedRing ==
  ASSUME NEW r, NEW c, NEW k, RingInv(r, k)
  PROVE  RingInv(Allocated(r, c), k)
<1> DEFINE s == Allocated(r, c)
<1>1. /\ DOMAIN s = RingFields /\ s.open = r.open
      /\ s.buffer = r.buffer /\ s.recorded = r.recorded /\ s.bytes = r.bytes
      /\ s.last = r.last /\ s.signalled = r.signalled /\ s.copies = r.copies
      /\ s.retired = r.retired
  BY DEF RingInv, Allocated, RingFields
<1> HIDE DEF s
<1>2. RingInv(s, k)
  BY <1>1, SameLane DEF RingInv
<1> QED
  BY <1>2 DEF s

(* WaitForIdle's own signal.                                                *)
LEMMA SignalledRing ==
  ASSUME NEW r, NEW k, RingInv(r, k)
  PROVE  RingInv(Signalled(r), k)
<1> DEFINE s == Signalled(r)
<1>1. /\ DOMAIN s = RingFields /\ s.open = r.open
      /\ s.buffer = r.buffer /\ s.recorded = r.recorded /\ s.bytes = r.bytes
      /\ s.last = r.last /\ s.signalled = r.signalled + 1 /\ s.copies = r.copies
      /\ s.retired = r.retired
  BY DEF RingInv, Signalled, RingFields
<1> HIDE DEF s
<1>2. ASSUME NEW c \in s.copies PROVE CopyFence(s, k, c) /\ CopySource(s, c)
  BY <1>1 DEF RingInv, CopyFence, CopySource
<1>3. RingInv(s, k)
  BY <1>1, <1>2 DEF RingInv, Counters
<1> QED
  BY <1>3 DEF s

(* A copy joins the open batch, or opens one.                               *)
LEMMA WithCopyRing ==
  ASSUME NEW r, NEW c, NEW k, RingInv(r, k), c.size \in Nat \ {0}
  PROVE  RingInv(WithCopy(r, c), k)
<1> DEFINE new == NewCopy(r, c)
           s == WithCopy(r, c)
<1>2. /\ DOMAIN s = RingFields /\ s.open
      /\ s.buffer = r.buffer /\ s.bytes = r.bytes + c.size
      /\ s.recorded = Append(r.recorded, [occupied |-> c.occupied, fence |-> 0])
      /\ s.last = r.last /\ s.signalled = r.signalled
      /\ s.copies = r.copies \cup {new} /\ s.retired = r.retired
  BY DEF RingInv, RingFields, WithCopy, Charge
<1>3. DOMAIN new = CopyFields /\ new.fence = 0 /\ new.buffer = r.buffer
  BY DEF CopyFields, NewCopy
<1> HIDE DEF new, s
<1>5. ASSUME NEW d \in s.copies PROVE CopyFence(s, k, d) /\ CopySource(s, d)
  <2>1. CASE d = new
    BY <1>2, <1>3, <2>1 DEF CopyFence, CopySource
  <2>2. CASE d \in r.copies
    BY <1>2, <2>2 DEF RingInv, CopyFence, CopySource
  <2> QED
    BY <1>2, <2>1, <2>2
<1>6. /\ \E S : s.recorded \in Seq(S)
      /\ s.recorded # <<>>
  <2>1. PICK S : r.recorded \in Seq(S)
    BY DEF RingInv
  <2> DEFINE e == [occupied |-> c.occupied, fence |-> 0]
  <2>2. r.recorded \in Seq(S \cup {e})
    BY <2>1
  <2>3. Append(r.recorded, e) \in Seq(S \cup {e}) /\ Append(r.recorded, e) # <<>>
    BY <2>2
  <2> QED
    BY <1>2, <2>3
<1>7. Counters(s, k) /\ s.bytes > 0
  BY <1>2 DEF RingInv, Counters
<1>8. \A b \in s.retired : b.fence \in Nat
  BY <1>2 DEF RingInv
<1>9. RingInv(s, k)
  BY <1>2, <1>5, <1>6, <1>7, <1>8 DEF RingInv
<1> QED
  BY <1>9 DEF s

(* Recorded, it may be submitted at once.                                   *)
LEMMA RecordedRing ==
  ASSUME NEW r, NEW c, NEW k, RingInv(r, k), c.size \in Nat \ {0}
  PROVE  RingInv(Recorded(r, c), k)
<1> DEFINE s == WithCopy(r, c)
<1>1. Recorded(r, c) = IF s.bytes >= MaxBatchBytes THEN Flushed(s) ELSE s
  BY ZenonT(60), RecordedFields DEF RingInv
<1>2. RingInv(s, k)
  BY WithCopyRing
<1> HIDE DEF s
<1> QED
  BY <1>1, <1>2, FlushedRing

-----------------------------------------------------------------------------

(* Whatever an attempt to allocate gives, the invariant holds behind it.    *)
LEMMA AllocateStep ==
  ASSUME NEW r, NEW c, NEW otherwise,
         RingInv(r, completed), Allocate(r, c, otherwise),
         DOMAIN c = {"size", "align", "publish", "at", "occupied"},
         c.size \in Nat \ {0}
  PROVE  RingInv(ring', completed) /\ CallInv'
<1>1. CASE Fits(r, c)
  <2>1. /\ ring' = Allocated(r, c)
        /\ call' = [c EXCEPT !.at = Start(r, c), !.occupied = c.size + Padding(r, c)]
    BY <1>1 DEF Allocate
  <2>2. DOMAIN call' = DOMAIN c /\ call'.size = c.size
    BY <2>1
  <2> QED
    BY <2>1, <2>2, AllocatedRing DEF CallInv
<1>2. CASE ~Fits(r, c)
  BY <1>2 DEF Allocate, CallInv
<1> QED
  BY <1>1, <1>2

(* Giving a model up leaves nothing open.                                   *)
LEMMA FailStep ==
  ASSUME RingInv(ring, completed), Fail
  PROVE  RingInv(ring', completed) /\ pc' = "drain"
  BY FlushedRing, SignalledRing DEF Fail, FlushedToRetire

(* Init establishes the invariant.                                          *)
LEMMA InitInv == Init => IInv
<1> SUFFICES ASSUME Init PROVE IInv
  OBVIOUS
<1>1. /\ DOMAIN ring = RingFields
      /\ ring.copies = {} /\ ring.retired = {} /\ ~ring.open /\ ring.open \in BOOLEAN
      /\ ring.last = 0 /\ ring.signalled = 0 /\ ring.bytes = 0 /\ ring.recorded = <<>>
  BY DEF Init, RingFields
<1>2. ring.recorded \in Seq({})
  BY <1>1
<1>3. RingInv(ring, completed)
  BY <1>1, <1>2 DEF Init, RingInv, Counters
<1> QED
  BY <1>3 DEF Init, IInv, CallInv

(* Every step preserves it.                                                 *)
LEMMA NextInv == IInv /\ [Next]_vars => IInv'
<1> SUFFICES ASSUME IInv, [Next]_vars PROVE IInv'
  OBVIOUS
<1> USE DEF IInv
<1>r. RingInv(ring, completed) /\ CallInv
  OBVIOUS
<1>c. pc \in {"reclaim", "grow", "wait", "begin"} => call.size \in Nat \ {0}
  BY DEF CallInv
<1>d. DOMAIN call = {"size", "align", "publish", "at", "occupied"}
  BY DEF CallInv
<1>1. CASE BeginUploadModel
  BY <1>1, <1>r DEF BeginUploadModel, CallInv
<1>2. ASSUME NEW size \in Sizes, NEW align \in {1, Alignment}, NEW last \in BOOLEAN,
             Request(size, align, last)
      PROVE  IInv'
  <2> DEFINE c == [size |-> size, align |-> align, publish |-> Publishes(last),
                   at |-> 0, occupied |-> 0]
  <2>1. size \in Nat \ {0} /\ completed' = completed
    BY <1>2, RingAssumption DEF Request
  <2>2. /\ DOMAIN c = {"size", "align", "publish", "at", "occupied"}
        /\ c.size \in Nat \ {0}
    BY <2>1
  <2>3. CASE Allocate(ring, c, "reclaim")
    <3> HIDE DEF c
    <3> QED
      BY <1>r, <2>1, <2>2, <2>3, AllocateStep
  <2>4. CASE Fail /\ UNCHANGED call
    BY <1>d, <1>r, <2>1, <2>4, FailStep DEF CallInv
  <2> QED
    BY <1>2, <2>3, <2>4 DEF Request
<1>3. CASE Reclaim
  <2>1. /\ Allocate(Reclaimed(ring), call, "grow") /\ completed' = completed
        /\ call.size \in Nat \ {0}
    BY <1>3, <1>c DEF Reclaim
  <2>2. RingInv(Reclaimed(ring), completed)
    BY <1>r, ReclaimedRing
  <2>3. RingInv(ring', completed) /\ CallInv'
    BY <1>d, <2>1, <2>2, AllocateStep
  <2> QED
    BY <2>1, <2>3
<1>4. CASE Grow
  <2>1. /\ Allocate(Grown(ring), call, "grow") /\ completed' = completed
        /\ call.size \in Nat \ {0}
    BY <1>4, <1>c DEF Grow
  <2>2. RingInv(Grown(ring), completed)
    BY <1>r, GrownRing
  <2>3. RingInv(ring', completed) /\ CallInv'
    BY <1>d, <2>1, <2>2, AllocateStep
  <2> QED
    BY <2>1, <2>3
<1>5. CASE StopGrowing
  BY <1>5, <1>c, <1>d, <1>r, BatchSubmittedRing DEF StopGrowing, CallInv
<1>6. CASE WaitForOldest
  <2>1. /\ Allocate(Reclaimed(ring), call, "wait") /\ completed' = completed
        /\ call.size \in Nat \ {0}
    BY <1>6, <1>c DEF WaitForOldest
  <2>2. RingInv(Reclaimed(ring), completed)
    BY <1>r, ReclaimedRing
  <2>3. RingInv(ring', completed) /\ CallInv'
    BY <1>d, <2>1, <2>2, AllocateStep
  <2> QED
    BY <2>1, <2>3
<1>7. CASE Backpressured
  BY <1>7, <1>d, <1>r, FailStep DEF Backpressured, CallInv
<1>8. CASE Record
  BY <1>8, <1>c, <1>d, <1>r, RecordedRing DEF Record, CallInv
<1>9. CASE BeginBatchFails
  BY <1>9, <1>d, <1>r, FailStep DEF BeginBatchFails, CallInv
<1>10. CASE Cancel
  BY <1>10, <1>d, <1>r, FailStep DEF Cancel, CallInv
<1>11. CASE FinishQueueing
  BY <1>11, <1>d, <1>r, FlushedRing DEF FinishQueueing, FlushedAtEnd, CallInv
<1>12. CASE Poll
  <2> DEFINE s == [ring EXCEPT !.publications = Waiting(@)]
  <2>1. /\ DOMAIN s = RingFields /\ s.open = ring.open
        /\ s.buffer = ring.buffer /\ s.recorded = ring.recorded /\ s.bytes = ring.bytes
        /\ s.last = ring.last /\ s.signalled = ring.signalled /\ s.copies = ring.copies
        /\ s.retired = ring.retired
    BY <1>r DEF RingInv, RingFields
  <2> HIDE DEF s
  <2>2. RingInv(s, completed)
    BY <1>r, <2>1, SameLane DEF RingInv
  <2>3. ring' = Reclaimed(s) /\ completed' = completed /\ call' = call
    BY <1>12 DEF Poll, s
  <2>4. pc' \in {"idle", "poll"}
    BY <1>12 DEF Poll
  <2> QED
    BY <1>d, <2>2, <2>3, <2>4, ReclaimedRing DEF CallInv
<1>13. CASE GiveUp
  BY <1>13, <1>d, <1>r, FlushedRing, SignalledRing DEF GiveUp, CallInv
<1>14. CASE ClearModel
  BY <1>14, <1>d, <1>r, ReclaimedRing DEF ClearModel, CallInv
<1>15. CASE Drained
  BY <1>15, <1>d, <1>r, ReclaimedRing DEF Drained, CallInv
<1>16. CASE GpuCompletes
  <2>1. /\ completed < ring.signalled /\ completed' = completed + 1
        /\ ring' = [ring EXCEPT !.copies = {c \in @ : c.fence # completed + 1}]
    BY <1>16 DEF GpuCompletes
  <2>2. /\ DOMAIN ring' = RingFields /\ ring'.open = ring.open
        /\ ring'.buffer = ring.buffer /\ ring'.recorded = ring.recorded
        /\ ring'.bytes = ring.bytes /\ ring'.last = ring.last
        /\ ring'.signalled = ring.signalled /\ ring'.retired = ring.retired
        /\ ring'.copies = {c \in ring.copies : c.fence # completed + 1}
    BY <1>r, <2>1 DEF RingInv, RingFields
  <2>3. ASSUME NEW c \in ring'.copies
        PROVE  CopyFence(ring', completed', c) /\ CopySource(ring', c)
    BY <1>r, <2>1, <2>2 DEF RingInv, CopyFence, CopySource, Counters
  <2>4. Counters(ring', completed')
    BY <1>r, <2>1, <2>2 DEF RingInv, Counters
  <2>5. RingInv(ring', completed')
    BY <1>r, <2>2, <2>3, <2>4 DEF RingInv
  <2> QED
    BY <1>16, <1>d, <1>c, <2>5 DEF GpuCompletes, CallInv
<1>17. CASE UNCHANGED vars
  BY <1>17, <1>r DEF vars, CallInv
<1> QED
  BY <1>1, <1>2, <1>3, <1>4, <1>5, <1>6, <1>7, <1>8, <1>9, <1>10, <1>11, <1>12,
     <1>13, <1>14, <1>15, <1>16, <1>17 DEF Next, Upload, Finished

(* The inductive invariant of the upload lane.                              *)
THEOREM LaneInvariant == Spec => []IInv
  BY InitInv, NextInv, PTL DEF Spec

(* A staging buffer is never released while a copy that reads it is still   *)
(* to be executed, whatever the ring has grown, wrapped, waited or failed   *)
(* (Grow, FlushBatch, ReclaimCompleted).                                    *)
THEOREM SourceIsKept == Spec => []SourceOutlivesCopies
<1>1. IInv => SourceOutlivesCopies
  BY DEF IInv, RingInv, CopySource, SourceOutlivesCopies
<1> QED
  BY <1>1, LaneInvariant, PTL

-----------------------------------------------------------------------------
(* The space of the ring.                                                   *)

\* What is charged is accounted for: `l` bytes to nobody, `n` to the call.
Accounts(r, l, n) ==
    /\ r.pending \in Seq(Entries) /\ r.recorded \in Seq(Entries)
    /\ ~r.open => r.recorded = <<>>
    /\ r.capacity \in InitialCapacity .. MaxCapacity
    /\ r.offset \in 0 .. r.capacity - 1
    /\ l \in Nat /\ n \in Nat
    /\ r.used = Bytes(r.pending) + Bytes(r.recorded) + l + n
    /\ r.used <= r.capacity

\* The extent lies in the `n` bytes before the cursor, going round.
Behind(r, c, n) ==
    /\ c.at + c.size <= r.capacity
    /\ \/ r.offset <= c.at + n /\ c.at + c.size <= r.offset
       \/ r.offset + r.capacity <= c.at + n

\* What is pending of the allocations submitted with fence f or behind it.
Kept(q, f) ==
    [i \in DOMAIN q |-> [q[i] EXCEPT !.occupied = IF q[i].fence >= f THEN @ ELSE 0]]
Held(q, f) == IF f = 0 THEN 0 ELSE Bytes(Kept(q, f))

\* A copy from the current buffer lies in what is charged since its allocation.
Extent(r, n, c) ==
    /\ c.at \in Nat /\ c.size \in Nat /\ c.buffer \in Nat
    /\ c.buffer <= r.buffer
    /\ c.buffer = r.buffer =>
          /\ c.at + c.size <= r.capacity
          /\ Behind(r, c, Held(r.pending, c.fence) + Bytes(r.recorded) + n)

Placed(r, n) ==
    /\ r.buffer \in Nat
    /\ \A c \in r.copies : Extent(r, n, c)
    /\ \A c, d \in r.copies : c # d /\ c.buffer = d.buffer => Apart(c, d)

Space(r, l, n) == Accounts(r, l, n) /\ Placed(r, l + n)

\* The space given to a call that is not recorded yet.
GivenSpace(r, l, c) ==
    /\ c.at \in Nat /\ c.size \in Nat /\ c.occupied \in Nat
    /\ Behind(r, c, Bytes(r.recorded) + l + c.occupied)
    /\ \A d \in r.copies : d.buffer = r.buffer => Apart(d, c)

(* What is held of a queue is no more than all of it, and adds up.          *)
LEMMA HeldQueue ==
  ASSUME NEW q \in Seq(Entries), NEW f \in Nat
  PROVE  /\ Held(q, f) \in Nat /\ Held(q, f) <= Bytes(q)
         /\ \A t \in Seq(Entries) : Held(q \o t, f) = Held(q, f) + Held(t, f)
<1> DEFINE k == Kept(q, f)
<1>0. Bytes(q) \in Nat
  BY BytesIsTotal
<1>1. ASSUME NEW t \in Seq(Entries)
      PROVE  /\ Kept(t, f) \in Seq(Entries) /\ DOMAIN Kept(t, f) = DOMAIN t
             /\ DOMAIN t = 1 .. Len(t) /\ Len(t) \in Nat /\ Len(Kept(t, f)) = Len(t)
             /\ \A i \in DOMAIN t :
                   /\ t[i] \in Entries
                   /\ Kept(t, f)[i].occupied = IF t[i].fence >= f THEN t[i].occupied ELSE 0
  <2>1. DOMAIN t = 1 .. Len(t) /\ Len(t) \in Nat /\ \A i \in DOMAIN t : t[i] \in Entries
    BY LenProperties, ElementOfSeq
  <2>2. \A i \in DOMAIN t :
           /\ Kept(t, f)[i] \in Entries
           /\ Kept(t, f)[i].occupied = IF t[i].fence >= f THEN t[i].occupied ELSE 0
    BY <2>1 DEF Kept, Entries
  <2>3. DOMAIN Kept(t, f) = DOMAIN t
    BY DEF Kept
  <2>4. Kept(t, f) \in Seq(Entries)
    <3> DEFINE w == Kept(t, f)
    <3>1. w = [i \in 1 .. Len(t) |-> w[i]]
      BY <2>1 DEF Kept
    <3>2. \A i \in 1 .. Len(t) : w[i] \in Entries
      BY <2>1, <2>2
    <3> HIDE DEF w
    <3>3. w \in Seq(Entries)
      BY <2>1, <3>1, <3>2, IsASeq
    <3> QED
      BY <3>3 DEF w
  <2>5. Len(Kept(t, f)) = Len(t)
    BY <2>1, <2>3, <2>4, LenProperties
  <2> QED
    BY <2>1, <2>2, <2>3, <2>4, <2>5
<1>2. CASE f = 0
  BY <1>0, <1>2 DEF Held
<1>3. CASE f # 0
  <2>1. Held(q, f) = Bytes(k) /\ Bytes(k) \in Nat
    BY <1>1, <1>3, BytesIsTotal DEF Held
  <2>2. Bytes(k) <= Bytes(q)
    <3> DEFINE D == DOMAIN q
               T == {i \in D : q[i].fence >= f}
               a == Occupied(q)
               b == Occupied(k)
    <3>1. /\ \A i \in D : a[i] = q[i].occupied /\ a[i] \in Nat
          /\ \A i \in D : b[i] = IF q[i].fence >= f THEN a[i] ELSE 0
          /\ DOMAIN a = D /\ DOMAIN b = D
      BY <1>1 DEF Occupied, Entries
    <3>2. Bytes(q) = Total(a, D) /\ Bytes(k) = Total(b, D)
      BY <1>1, <3>1, BytesIsTotal DEF SeqTotal
    <3>3. IsFiniteSet(D) /\ IsFiniteSet(T) /\ IsFiniteSet(D \ T) /\ T \in SUBSET D
      BY IndicesFinite, FS_Subset
    <3>4. \A i \in D : b[i] \in Nat
      BY <3>1
    <3>5. (\A i \in T : b[i] = a[i]) /\ \A i \in D \ T : b[i] = 0
      BY <3>1
    <3> HIDE DEF a, b, D, T
    <3>6. Total(a, D) = Total(a, T) + Total(a, D \ T)
      BY <3>1, <3>3, TotalSplit
    <3>7. Total(b, D) = Total(b, T) + Total(b, D \ T)
      BY <3>3, <3>4, TotalSplit
    <3>8. Total(b, T) = Total(a, T) /\ Total(b, D \ T) = 0
      BY <3>1, <3>3, <3>5, TotalSame, TotalZero
    <3>9. Total(a, T) \in Nat /\ Total(a, D \ T) \in Nat
      BY <3>1, <3>3, TotalType
    <3> QED
      BY <3>2, <3>6, <3>7, <3>8, <3>9
  <2>3. ASSUME NEW t \in Seq(Entries) PROVE Held(q \o t, f) = Held(q, f) + Held(t, f)
    <3>1. q \o t \in Seq(Entries)
      BY BytesConcat
    <3>2. Kept(q \o t, f) = Kept(q, f) \o Kept(t, f)
      <4>1. Kept(q, f) \o Kept(t, f) \in Seq(Entries) /\ Kept(q \o t, f) \in Seq(Entries)
        BY <1>1, <3>1, BytesConcat
      <4>2. /\ Len(Kept(q \o t, f)) = Len(q) + Len(t)
            /\ Len(Kept(q, f) \o Kept(t, f)) = Len(q) + Len(t)
        <5>1. Len(Kept(q \o t, f)) = Len(q \o t) /\ Len(q \o t) = Len(q) + Len(t)
          BY <1>1, <3>1, ConcatProperties
        <5>2. Len(Kept(q, f) \o Kept(t, f)) = Len(Kept(q, f)) + Len(Kept(t, f))
          BY <1>1, ConcatProperties
        <5> QED
          BY <1>1, <5>1, <5>2
      <4>3. ASSUME NEW i \in 1 .. Len(q) + Len(t)
            PROVE  Kept(q \o t, f)[i] = (Kept(q, f) \o Kept(t, f))[i]
        <5>1. DOMAIN (q \o t) = 1 .. Len(q) + Len(t)
          BY <3>1, ConcatProperties, LenProperties
        <5>2. (q \o t)[i] = IF i <= Len(q) THEN q[i] ELSE t[i - Len(q)]
          BY ConcatProperties
        <5>3. (Kept(q, f) \o Kept(t, f))[i]
                 = IF i <= Len(q) THEN Kept(q, f)[i] ELSE Kept(t, f)[i - Len(q)]
          BY <1>1, ConcatProperties
        <5>4. i <= Len(q) => i \in DOMAIN q
          BY <1>1
        <5>5. ~(i <= Len(q)) => i - Len(q) \in DOMAIN t
          BY <1>1
        <5> QED
          BY <5>1, <5>2, <5>3, <5>4, <5>5 DEF Kept
      <4> QED
        BY <4>1, <4>2, <4>3, SeqEqual
    <3> QED
      BY <1>1, <1>3, <3>2, BytesConcat DEF Held
  <2> QED
    BY <2>1, <2>2, <2>3
<1> QED
  BY <1>2, <1>3

(* A batch just submitted is held whole by every fence up to its own.       *)
LEMMA HeldStamped ==
  ASSUME NEW q \in Seq(Entries), NEW m \in Nat, NEW f \in Nat \ {0}, f <= m
  PROVE  Held(Stamped(q, m), f) = Bytes(q)
<1> DEFINE t == Stamped(q, m)
<1>1. t \in Seq(Entries) /\ Bytes(t) = Bytes(q)
  BY BytesStamped
<1>2. \A i \in DOMAIN t : t[i].fence = m /\ [t[i] EXCEPT !.occupied = @] = t[i]
  <2>1. \A i \in DOMAIN q : q[i] \in Entries
    BY LenProperties, ElementOfSeq
  <2> QED
    BY <2>1 DEF Stamped, Entries
<1>3. t = [i \in DOMAIN t |-> t[i]]
  BY DEF Stamped
<1> HIDE DEF t
<1>4. Kept(t, f) = t
  BY <1>2, <1>3 DEF Kept
<1> QED
  BY <1>1, <1>4 DEF Held, t

(* Reclaiming takes nothing from what is held by a fence still to come.     *)
LEMMA HeldReclaimed ==
  ASSUME NEW q \in Seq(Entries), NEW f \in Nat, completed \in Nat, f # 0 => completed < f
  PROVE  Held(Waiting(q), f) = Held(q, f)
<1> DEFINE d == Completed(q)
<1>1. d \in Seq(Entries) /\ Waiting(q) \in Seq(Entries) /\ q = d \o Waiting(q)
  BY QueueSplits
<1>2. CASE f = 0
  BY <1>2 DEF Held
<1>3. CASE f # 0
  <2>1. \A i \in DOMAIN d : d[i] \in Entries /\ d[i].fence <= completed
    <3>1. CompletedCount(q) \in 0 .. Len(q) /\ \A i \in 1 .. CompletedCount(q) : Done(q[i])
      BY CompletedPrefix
    <3>2. \A i \in DOMAIN d : i \in 1 .. CompletedCount(q) /\ d[i] = q[i]
      <4> DEFINE n == CompletedCount(q)
      <4>1. \A i \in 1 .. Len(q) : q[i] \in Entries
        BY ElementOfSeq
      <4>2. n \in 0 .. Len(q) /\ Len(q) \in Nat
        BY <3>1, LenProperties
      <4> HIDE DEF n
      <4>3. /\ Len(SubSeq(q, 1, n)) = IF 1 <= n THEN n - 1 + 1 ELSE 0
            /\ \A j \in 1 .. n - 1 + 1 : SubSeq(q, 1, n)[j] = q[1 + j - 1]
        BY <4>1, <4>2, SubSeqProperties
      <4>4. DOMAIN d = 1 .. n
        BY <1>1, <4>2, <4>3, LenProperties DEF Completed, n
      <4>5. \A j \in 1 .. n : d[j] = q[j]
        BY <4>2, <4>3 DEF Completed, n
      <4> QED
        BY <4>4, <4>5 DEF n
    <3>3. \A i \in DOMAIN d : d[i] \in Entries
      BY <1>1, LenProperties, ElementOfSeq
    <3> QED
      BY <3>1, <3>2, <3>3 DEF Done
  <2>2. Held(d, f) = 0
    <3> HIDE DEF d
    <3>1. \A i \in DOMAIN d : Kept(d, f)[i] \in Entries /\ Kept(d, f)[i].occupied = 0
      BY <1>3, <2>1 DEF Kept, Entries
    <3>2. DOMAIN d = 1 .. Len(d) /\ Len(d) \in Nat /\ DOMAIN Kept(d, f) = DOMAIN d
      BY <1>1, LenProperties DEF Kept
    <3>3. Kept(d, f) \in Seq(Entries)
      <4> DEFINE w == Kept(d, f)
      <4>1. w = [i \in 1 .. Len(d) |-> w[i]]
        BY <3>2 DEF Kept
      <4>2. \A i \in 1 .. Len(d) : w[i] \in Entries
        BY <3>1, <3>2
      <4> HIDE DEF w
      <4>3. w \in Seq(Entries)
        BY <3>2, <4>1, <4>2, IsASeq
      <4> QED
        BY <4>3 DEF w
    <3>4. \A i \in DOMAIN Kept(d, f) : Occupied(Kept(d, f))[i] = 0
      BY <3>1, <3>2 DEF Occupied
    <3>5. DOMAIN Occupied(Kept(d, f)) = DOMAIN Kept(d, f) /\ IsFiniteSet(DOMAIN Kept(d, f))
      BY <3>3, IndicesFinite DEF Occupied
    <3>6. Total(Occupied(Kept(d, f)), DOMAIN Kept(d, f)) = 0
      BY <3>4, <3>5, TotalZero
    <3> QED
      BY <1>3, <3>3, <3>5, <3>6, BytesIsTotal DEF SeqTotal, Held
  <2>3. Held(Waiting(q), f) \in Nat /\ Held(q, f) = Held(d, f) + Held(Waiting(q), f)
    <3> DEFINE w == Waiting(q)
    <3>1. d \in Seq(Entries) /\ w \in Seq(Entries) /\ q = d \o w
      BY <1>1
    <3> HIDE DEF d, w
    <3>2. Held(w, f) \in Nat /\ Held(d \o w, f) = Held(d, f) + Held(w, f)
      BY <3>1, HeldQueue
    <3> QED
      BY <3>1, <3>2 DEF w
  <2> QED
    BY <2>2, <2>3
<1> QED
  BY <1>2, <1>3

(* A ring whose copies and space are the same, or fewer copies.             *)
LEMMA SameSpace ==
  ASSUME NEW r, NEW s, NEW l, NEW n, Space(r, l, n),
         s.pending = r.pending, s.recorded = r.recorded, s.open = r.open,
         s.capacity = r.capacity, s.offset = r.offset, s.used = r.used,
         s.buffer = r.buffer, s.copies \subseteq r.copies
  PROVE  Space(s, l, n)
<1>1. Accounts(s, l, n)
  BY DEF Space, Accounts
<1>2. \A c \in s.copies : Extent(s, l + n, c)
  BY DEF Space, Placed, Extent, Behind
<1>3. Placed(s, l + n)
  BY <1>2 DEF Space, Placed
<1> QED
  BY <1>1, <1>3 DEF Space

(* What is submitted stays charged; what the call was given is lost with it. *)
LEMMA FlushedSpace ==
  ASSUME NEW r, NEW k, NEW l, NEW n, RingInv(r, k), Space(r, l, n)
  PROVE  Space(Flushed(r), l + n, 0)
<1> DEFINE f == Flushed(r)
           m == r.signalled + 1
<1>1. DOMAIN r = RingFields /\ (r.open => r.recorded # <<>>) /\ r.open \in BOOLEAN
  BY DEF RingInv
<1>2. /\ f.open = FALSE
      /\ f.buffer = r.buffer /\ f.capacity = r.capacity /\ f.offset = r.offset
      /\ f.used = r.used
      /\ r.open =>
            /\ f.recorded = <<>>
            /\ f.pending = r.pending \o Stamped(r.recorded, m)
            /\ f.copies = {[c EXCEPT !.fence = IF @ = 0 THEN m ELSE @] : c \in r.copies}
      /\ ~r.open =>
            /\ f.recorded = r.recorded /\ f.pending = r.pending /\ f.copies = r.copies
  BY <1>1, FlushedFields
<1>3. \A c \in f.copies : c.fence # 0
  BY FlushedRing
<1>4. m \in Nat /\ m # 0
  BY DEF RingInv, Counters
<1> HIDE DEF f, m
<1>5. Accounts(f, l + n, 0)
  <2>1. CASE r.open
    <3>1. /\ Stamped(r.recorded, m) \in Seq(Entries)
          /\ Bytes(Stamped(r.recorded, m)) = Bytes(r.recorded)
      BY <1>4, BytesStamped DEF Space, Accounts
    <3>2. /\ f.pending \in Seq(Entries)
          /\ Bytes(f.pending) = Bytes(r.pending) + Bytes(r.recorded)
      <4>1. r.pending \in Seq(Entries) /\ f.pending = r.pending \o Stamped(r.recorded, m)
        BY <1>2, <2>1 DEF Space, Accounts
      <4> QED
        BY <3>1, <4>1, BytesConcat
    <3>3. f.recorded = <<>> /\ f.recorded \in Seq(Entries) /\ Bytes(f.recorded) = 0
      <4>1. f.recorded = <<>>
        BY <1>2, <2>1
      <4> QED
        BY <4>1, BytesAppend
    <3>4. Bytes(r.pending) \in Nat /\ Bytes(r.recorded) \in Nat
      BY BytesIsTotal DEF Space, Accounts
    <3> QED
      BY <1>2, <3>2, <3>3, <3>4 DEF Space, Accounts
  <2>2. CASE ~r.open
    <3>4. Bytes(r.pending) \in Nat /\ Bytes(r.recorded) \in Nat
      BY BytesIsTotal DEF Space, Accounts
    <3> QED
      BY SMTT(30), <1>2, <2>2, <3>4 DEF Space, Accounts
  <2> QED
    BY <2>1, <2>2
<1>6. ASSUME NEW c \in f.copies
      PROVE  \E d \in r.copies :
                /\ c.at = d.at /\ c.size = d.size /\ c.buffer = d.buffer
                /\ c.fence = IF d.fence = 0 THEN m ELSE d.fence
                /\ c = IF r.open THEN [d EXCEPT !.fence = IF @ = 0 THEN m ELSE @] ELSE d
  <2>0. \A d \in r.copies : DOMAIN d = CopyFields /\ (d.fence = 0 => r.open)
    BY DEF RingInv, CopyFence
  <2>1. CASE r.open
    <3>1. PICK d \in r.copies : c = [d EXCEPT !.fence = IF @ = 0 THEN m ELSE @]
      BY <1>2, <2>1
    <3>2. /\ c.at = d.at /\ c.size = d.size /\ c.buffer = d.buffer
          /\ c.fence = IF d.fence = 0 THEN m ELSE d.fence
      BY <2>0, <3>1 DEF CopyFields
    <3> QED
      BY <2>1, <3>1, <3>2
  <2>2. CASE ~r.open
    BY <1>2, <2>0, <2>2
  <2> QED
    BY <2>1, <2>2
<1>7. ASSUME NEW c \in f.copies PROVE Extent(f, l + n + 0, c)
  <2>1. PICK d \in r.copies : /\ c.at = d.at /\ c.size = d.size /\ c.buffer = d.buffer
                              /\ c.fence = IF d.fence = 0 THEN m ELSE d.fence
    BY <1>6
  <2>2. /\ Extent(r, l + n, d) /\ r.pending \in Seq(Entries) /\ r.recorded \in Seq(Entries)
        /\ l \in Nat /\ n \in Nat
        /\ r.capacity \in Nat /\ r.offset \in Nat
    BY SMTT(30), RingAssumption DEF Space, Placed, Accounts
  <2>3. d.fence \in Nat /\ d.fence <= m /\ (d.fence = 0 => r.open)
    BY DEF RingInv, CopyFence, Counters, m
  <2>4. /\ Held(r.pending, d.fence) \in Nat /\ Held(r.pending, c.fence) \in Nat
        /\ Bytes(r.recorded) \in Nat /\ Held(r.pending, 0) = 0
    BY <1>4, <2>1, <2>2, <2>3, HeldQueue, BytesIsTotal DEF Held
  <2>5. Held(r.pending, d.fence) + Bytes(r.recorded)
           <= Held(f.pending, c.fence) + Bytes(f.recorded)
    <3>1. CASE r.open
      <4>1. Stamped(r.recorded, m) \in Seq(Entries)
        BY <1>4, <2>2, BytesStamped
      <4>2. Held(Stamped(r.recorded, m), c.fence) = Bytes(r.recorded)
        BY <1>4, <2>1, <2>2, <2>3, HeldStamped
      <4>3. Held(f.pending, c.fence) = Held(r.pending, c.fence) + Bytes(r.recorded)
        <5> DEFINE t == Stamped(r.recorded, m)
        <5>1. c.fence \in Nat /\ t \in Seq(Entries) /\ f.pending = r.pending \o t
          BY <1>2, <1>4, <2>1, <2>3, <3>1, <4>1
        <5> HIDE DEF t
        <5>2. Held(r.pending \o t, c.fence) = Held(r.pending, c.fence) + Held(t, c.fence)
          BY <2>2, <5>1, HeldQueue
        <5> QED
          BY <4>2, <5>1, <5>2 DEF t
      <4>4. Bytes(f.recorded) = 0
        BY <1>2, <3>1, BytesAppend
      <4> QED
        BY <2>1, <2>4, <4>3, <4>4
    <3>2. CASE ~r.open
      BY <1>2, <2>1, <2>3, <2>4, <3>2
    <3> QED
      BY <3>1, <3>2 DEF RingInv
  <2>6. /\ Held(f.pending, c.fence) \in Nat /\ Bytes(f.recorded) \in Nat
    <3>1. f.pending \in Seq(Entries) /\ f.recorded \in Seq(Entries)
      BY <1>5 DEF Accounts
    <3>2. c.fence \in Nat
      BY <1>4, <2>1, <2>3
    <3> QED
      BY <3>1, <3>2, HeldQueue, BytesIsTotal
  <2> DEFINE x == Held(r.pending, d.fence) + Bytes(r.recorded)
             y == Held(f.pending, c.fence) + Bytes(f.recorded)
  <2>7. x \in Nat /\ y \in Nat /\ x <= y
    BY <2>4, <2>5, <2>6
  <2> HIDE DEF x, y
  <2>8. c.buffer = f.buffer => c.at + c.size <= f.capacity /\ Behind(f, c, y + (l + n + 0))
    <3>1. c.buffer = f.buffer => d.at + d.size <= r.capacity /\ Behind(r, d, x + (l + n))
      BY <1>2, <2>1, <2>2 DEF Extent, x
    <3>2. d.at \in Nat /\ d.size \in Nat
      BY <2>2 DEF Extent
    <3>3. ASSUME Behind(r, d, x + (l + n)) PROVE Behind(f, c, y + (l + n + 0))
      BY SMTT(30), <1>2, <2>1, <2>2, <2>7, <3>2, <3>3 DEF Behind
    <3> QED
      BY <1>2, <2>1, <3>1, <3>3
  <2> QED
    BY <1>2, <2>1, <2>2, <2>8 DEF Extent, y
<1>8. ASSUME NEW c \in f.copies, NEW d \in f.copies, c # d, c.buffer = d.buffer
      PROVE  Apart(c, d)
  <2>1. PICK x \in r.copies : /\ c.at = x.at /\ c.size = x.size /\ c.buffer = x.buffer
                              /\ c = IF r.open
                                    THEN [x EXCEPT !.fence = IF @ = 0 THEN m ELSE @]
                                    ELSE x
    BY <1>6
  <2>2. PICK y \in r.copies : /\ d.at = y.at /\ d.size = y.size /\ d.buffer = y.buffer
                              /\ d = IF r.open
                                    THEN [y EXCEPT !.fence = IF @ = 0 THEN m ELSE @]
                                    ELSE y
    BY <1>6
  <2>3. x # y
    BY <1>8, <2>1, <2>2
  <2>4. Apart(x, y)
    BY <1>8, <2>1, <2>2, <2>3 DEF Space, Placed
  <2> QED
    BY <2>1, <2>2, <2>4 DEF Apart
<1>9. Placed(f, l + n + 0)
  BY <1>2, <1>7, <1>8 DEF Space, Placed
<1> QED
  BY <1>5, <1>9 DEF Space, f

(* EnsureSpace and Grow submit only a batch that has bytes: every open one. *)
LEMMA BatchSubmittedSpace ==
  ASSUME NEW r, NEW k, NEW l, RingInv(r, k), Space(r, l, 0)
  PROVE  Space(BatchSubmitted(r), l, 0)
<1>1. l + 0 = l
  BY DEF Space, Accounts
<1>2. CASE r.open
  <2>1. BatchSubmitted(r) = Flushed(r)
    BY <1>2 DEF RingInv, BatchSubmitted
  <2> QED
    BY <1>1, <2>1, FlushedSpace
<1>3. CASE ~r.open
  BY <1>3 DEF BatchSubmitted
<1> QED
  BY <1>2, <1>3 DEF RingInv

(* A grown ring is empty, and nothing reads its new buffer.                 *)
LEMMA GrownSpace ==
  ASSUME NEW r, NEW k, NEW l, RingInv(r, k), Space(r, l, 0)
  PROVE  Space(Grown(r), 0, 0)
<1> DEFINE f == BatchSubmitted(r)
           g == Grown(r)
<1>1. Space(f, l, 0) /\ RingInv(f, k) /\ ~f.open /\ \A c \in f.copies : c.fence # 0
  BY BatchSubmittedSpace, BatchSubmittedRing
<1>2. DOMAIN f = RingFields /\ DOMAIN r = RingFields
  BY <1>1 DEF RingInv
<1>3. /\ g.buffer = f.buffer + 1 /\ g.capacity = GrownCapacity(f)
      /\ g.offset = 0 /\ g.used = 0 /\ g.pending = <<>>
      /\ g.open = f.open /\ g.recorded = f.recorded /\ g.copies = f.copies
  BY <1>2, GrownFields
<1> HIDE DEF f, g
<1>4. g.capacity \in InitialCapacity .. MaxCapacity /\ g.capacity > 0
  <2>1. /\ InitialCapacity \in Nat \ {0} /\ Growth \in Nat \ {0} /\ MaxCapacity \in Nat \ {0}
        /\ f.capacity \in InitialCapacity .. MaxCapacity
    BY <1>1, RingAssumption DEF Space, Accounts
  <2> QED
    BY <1>3, <2>1 DEF GrownCapacity
<1>5. /\ g.recorded = <<>> /\ g.recorded \in Seq(Entries) /\ g.pending \in Seq(Entries)
      /\ Bytes(g.recorded) = 0 /\ Bytes(g.pending) = 0
  BY <1>1, <1>3, BytesAppend DEF Space, Accounts
<1>6. Accounts(g, 0, 0)
  BY <1>1, <1>3, <1>4, <1>5 DEF Space, Accounts
<1>7. \A c \in g.copies : Extent(g, 0 + 0, c)
  BY <1>1, <1>3 DEF Space, Placed, Extent
<1>8. Placed(g, 0 + 0)
  BY <1>1, <1>3, <1>7 DEF Space, Placed
<1> QED
  BY <1>6, <1>8 DEF Space, g

(* Reclaiming frees what has completed, no more and no less.                *)
LEMMA ReclaimedSpace ==
  ASSUME NEW r, NEW l, NEW n, RingInv(r, completed), Space(r, l, n)
  PROVE  Space(Reclaimed(r), l, n)
<1> DEFINE s == Reclaimed(r)
<1>1. /\ s.used = r.used - Bytes(Completed(r.pending)) /\ s.pending = Waiting(r.pending)
      /\ s.buffer = r.buffer /\ s.capacity = r.capacity /\ s.offset = r.offset
      /\ s.open = r.open /\ s.recorded = r.recorded /\ s.copies = r.copies
  BY ReclaimedFields DEF RingInv
<1> HIDE DEF s
<1>2. /\ Waiting(r.pending) \in Seq(Entries)
      /\ Bytes(Completed(r.pending)) \in Nat /\ Bytes(Waiting(r.pending)) \in Nat
      /\ Bytes(r.pending) = Bytes(Completed(r.pending)) + Bytes(Waiting(r.pending))
  BY BytesReclaimed DEF Space, Accounts
<1>3. Bytes(r.recorded) \in Nat
  BY BytesIsTotal DEF Space, Accounts
<1>4. Accounts(s, l, n)
  BY SMTT(30), <1>1, <1>2, <1>3 DEF Space, Accounts
<1>5. ASSUME NEW c \in s.copies PROVE Extent(s, l + n, c)
  <2>1. c.fence \in Nat /\ (c.fence # 0 => completed < c.fence) /\ completed \in Nat
    BY <1>1 DEF RingInv, CopyFence, Counters
  <2>2. Held(s.pending, c.fence) = Held(r.pending, c.fence)
    BY <1>1, <2>1, HeldReclaimed DEF Space, Accounts
  <2>3. Extent(r, l + n, c)
    BY <1>1 DEF Space, Placed
  <2> QED
    BY <1>1, <2>2, <2>3 DEF Extent, Behind
<1>6. Placed(s, l + n)
  BY <1>1, <1>5 DEF Space, Placed
<1> QED
  BY <1>4, <1>6 DEF Space, s

(* Rounding up to an alignment never goes back.                             *)
LEMMA AlignedUp ==
  ASSUME NEW o \in Nat, NEW a \in Nat \ {0}
  PROVE  Aligned(o, a) \in Nat /\ o <= Aligned(o, a)
<1> DEFINE x == o + a - 1
           q == x \div a
<1>1. x \in Nat
  OBVIOUS
<1>2. x = a * q + (x % a) /\ x % a \in 0 .. a - 1 /\ q \in Nat
  <2> HIDE DEF x
  <2> QED
    BY <1>1
<1>3. Aligned(o, a) = q * a
  BY DEF Aligned
<1>4. q * a = a * q /\ a * q \in Nat
  <2> HIDE DEF q
  <2> QED
    BY <1>2 DEF q
<1> QED
  BY <1>2, <1>3, <1>4

(* The cursor comes round at the end of the buffer.                         *)
LEMMA ComesRound ==
  ASSUME NEW n \in Nat \ {0}, NEW x \in 0 .. n
  PROVE  x % n = IF x = n THEN 0 ELSE x
<1>1. CASE x = n
  BY <1>1
<1>2. CASE x # n
  BY <1>2
<1> QED
  BY <1>1, <1>2

(* Where an allocation goes, and what it is charged.                        *)
LEMMA AllocationShape ==
  ASSUME NEW r, NEW c, r.capacity \in Nat \ {0}, r.offset \in 0 .. r.capacity - 1,
         c.size \in Nat \ {0}, c.align \in Nat \ {0}, c.size <= r.capacity
  PROVE  /\ Start(r, c) \in Nat /\ Padding(r, c) \in Nat
         /\ CursorAfter(r, c) = IF Start(r, c) + c.size = r.capacity THEN 0
                                ELSE Start(r, c) + c.size
         /\ \/ /\ r.offset <= Start(r, c) /\ Start(r, c) + c.size <= r.capacity
               /\ r.offset + c.size + Padding(r, c) = Start(r, c) + c.size
            \/ /\ Start(r, c) = 0
               /\ r.offset + c.size + Padding(r, c) = c.size + r.capacity
<1> DEFINE a == Aligned(r.offset, c.align)
<1>1. a \in Nat /\ r.offset <= a
  BY AlignedUp
<1> HIDE DEF a
<1>2. CASE a + c.size <= r.capacity
  <2>1. Start(r, c) = a /\ Padding(r, c) = a - r.offset
    BY <1>2 DEF Start, Padding, FitsTail, a
  <2>2. CursorAfter(r, c) = IF a + c.size = r.capacity THEN 0 ELSE a + c.size
    <3>1. a + c.size \in 0 .. r.capacity
      BY <1>1, <1>2
    <3>2. CursorAfter(r, c) = (a + c.size) % r.capacity
      BY <2>1 DEF CursorAfter
    <3> QED
      BY <3>1, <3>2, ComesRound
  <2> QED
    BY <1>1, <1>2, <2>1, <2>2
<1>3. CASE ~(a + c.size <= r.capacity)
  <2>1. Start(r, c) = 0 /\ Padding(r, c) = r.capacity - r.offset
    BY <1>3 DEF Start, Padding, FitsTail, a
  <2>2. CursorAfter(r, c) = IF c.size = r.capacity THEN 0 ELSE c.size
    BY <2>1, ComesRound DEF CursorAfter
  <2> QED
    BY <2>1, <2>2
<1> QED
  BY <1>2, <1>3

(* What TryAllocateInternal gives lies past every copy not yet submitted,   *)
(* as long as no more is charged than the buffer holds.                     *)
LEMMA AllocatedSpace ==
  ASSUME NEW r, NEW c, NEW k, NEW l, RingInv(r, k), Space(r, l, 0), Fits(r, c),
         c.size \in Nat \ {0}, c.align \in Nat \ {0},
         NEW d, d.at = Start(r, c), d.size = c.size,
         d.occupied = c.size + Padding(r, c)
  PROVE  /\ Space(Allocated(r, c), l, d.occupied)
         /\ GivenSpace(Allocated(r, c), l, d)
<1> DEFINE s == Allocated(r, c)
           p == Padding(r, c)
           n == d.occupied
           w == Bytes(r.recorded)
<1>1. /\ s.offset = CursorAfter(r, c) /\ s.used = r.used + c.size + p
      /\ s.buffer = r.buffer /\ s.capacity = r.capacity
      /\ s.open = r.open /\ s.recorded = r.recorded /\ s.pending = r.pending
      /\ s.copies = r.copies
  BY AllocatedFields DEF RingInv
<1>2. /\ r.capacity \in Nat \ {0} /\ r.offset \in 0 .. r.capacity - 1
      /\ r.capacity \in InitialCapacity .. MaxCapacity
      /\ r.used = Bytes(r.pending) + w + l + 0 /\ r.used <= r.capacity /\ l \in Nat
      /\ Bytes(r.pending) \in Nat /\ w \in Nat
  <2>1. InitialCapacity \in Nat \ {0} /\ MaxCapacity \in Nat \ {0}
    BY RingAssumption
  <2>2. /\ r.capacity \in InitialCapacity .. MaxCapacity /\ r.offset \in 0 .. r.capacity - 1
        /\ r.used = Bytes(r.pending) + w + l + 0 /\ r.used <= r.capacity /\ l \in Nat
        /\ r.pending \in Seq(Entries) /\ r.recorded \in Seq(Entries)
    BY DEF Space, Accounts
  <2>3. Bytes(r.pending) \in Nat /\ w \in Nat
    BY <2>2, BytesIsTotal
  <2> QED
    BY <2>1, <2>2, <2>3
<1>3. c.size <= r.capacity /\ c.size + p <= r.capacity - r.used
  BY DEF Fits
<1>4. /\ d.at \in Nat /\ p \in Nat /\ n \in Nat /\ n = c.size + p
      /\ s.offset = IF d.at + c.size = r.capacity THEN 0 ELSE d.at + c.size
      /\ \/ /\ r.offset <= d.at /\ d.at + c.size <= r.capacity
            /\ r.offset + n = d.at + c.size
         \/ d.at = 0 /\ r.offset + n = c.size + r.capacity
  BY <1>1, <1>2, <1>3, AllocationShape
<1> HIDE DEF s, p, n, w
<1>5. ASSUME NEW e \in r.copies
      PROVE  /\ Held(r.pending, e.fence) \in Nat
             /\ Held(r.pending, e.fence) + w + l + n <= r.capacity
  <2>1. e.fence \in Nat /\ r.pending \in Seq(Entries)
    BY DEF RingInv, CopyFence, Space, Accounts
  <2>2. Held(r.pending, e.fence) \in Nat /\ Held(r.pending, e.fence) <= Bytes(r.pending)
    BY <2>1, HeldQueue
  <2> QED
    BY <1>2, <1>3, <1>4, <2>2
<1>6. Accounts(s, l, n)
  <2>1. s.offset \in 0 .. s.capacity - 1
    <3>1. d.at + c.size <= r.capacity
      BY <1>3, <1>4
    <3> QED
      BY <1>1, <1>2, <1>4, <3>1
  <2>2. s.used = Bytes(s.pending) + Bytes(s.recorded) + l + n /\ s.used <= s.capacity
    BY <1>1, <1>2, <1>3, <1>4 DEF w
  <2> QED
    BY <1>1, <1>2, <1>4, <2>1, <2>2 DEF Space, Accounts
<1>7. ASSUME NEW e \in r.copies, e.buffer = r.buffer
      PROVE  Behind(s, e, Held(r.pending, e.fence) + w + (l + n)) /\ Apart(e, d)
  <2> DEFINE h == Held(r.pending, e.fence) + w + l
  <2>1. Behind(r, e, Held(r.pending, e.fence) + w + (l + 0)) /\ e.at \in Nat /\ e.size \in Nat
    BY <1>7 DEF Space, Placed, Extent, w
  <2>2. /\ h \in Nat /\ h + n <= r.capacity /\ h = Held(r.pending, e.fence) + w + (l + 0)
        /\ h + n = Held(r.pending, e.fence) + w + (l + n)
    BY <1>2, <1>4, <1>5
  <2> HIDE DEF h
  <2>3. /\ e.at + e.size <= r.capacity
        /\ (r.offset <= e.at + h /\ e.at + e.size <= r.offset) \/ r.offset + r.capacity <= e.at + h
    BY <1>2, <2>1, <2>2 DEF Behind
  <2>4. Behind(s, e, h + n)
    BY <1>1, <1>2, <1>3, <1>4, <2>1, <2>2, <2>3 DEF Behind
  <2>5. Apart(e, d)
    BY <1>2, <1>3, <1>4, <2>1, <2>2, <2>3 DEF Apart
  <2> QED
    BY <2>2, <2>4, <2>5
<1>8. ASSUME NEW e \in s.copies PROVE Extent(s, l + n, e)
  BY <1>1, <1>7, <1>8 DEF Space, Placed, Extent, w
<1>9. Placed(s, l + n)
  BY <1>1, <1>8 DEF Space, Placed
<1>10. Behind(s, d, w + l + n)
  <2>1. w + l + n <= r.capacity /\ w + l \in Nat
    BY <1>2, <1>3, <1>4
  <2> QED
    BY <1>1, <1>2, <1>3, <1>4, <2>1 DEF Behind
<1>11. GivenSpace(s, l, d)
  BY <1>1, <1>4, <1>7, <1>10 DEF GivenSpace, w, n
<1> QED
  BY <1>6, <1>9, <1>11 DEF Space, s, n

(* Recording a copy at the space its call was given.                        *)
LEMMA RecordedSpace ==
  ASSUME NEW r, NEW c, NEW k, NEW l, RingInv(r, k), Space(r, l, c.occupied),
         GivenSpace(r, l, c), c.size \in Nat \ {0}
  PROVE  Space(Recorded(r, c), l, 0)
<1> DEFINE s == WithCopy(r, c)
           new == NewCopy(r, c)
           e == [occupied |-> c.occupied, fence |-> 0]
<1>1. /\ Recorded(r, c) = IF s.bytes >= MaxBatchBytes THEN Flushed(s) ELSE s
      /\ s.open = TRUE
      /\ s.copies = r.copies \cup {new} /\ s.recorded = Append(r.recorded, e)
      /\ s.buffer = r.buffer /\ s.capacity = r.capacity /\ s.offset = r.offset
      /\ s.used = r.used /\ s.pending = r.pending
  <2>1. DOMAIN r = RingFields
    BY DEF RingInv
  <2> HIDE DEF s, new, e
  <2> QED
    BY ZenonT(60), <2>1, RecordedFields DEF s, new, e
<1>2. c.occupied \in Nat /\ e \in Entries /\ e.occupied = c.occupied
  BY DEF Space, Accounts, Entries
<1>3. /\ s.recorded \in Seq(Entries)
      /\ Bytes(s.recorded) = Bytes(r.recorded) + c.occupied
      /\ Bytes(r.recorded) \in Nat /\ Bytes(r.pending) \in Nat
  <2>1. r.recorded \in Seq(Entries) /\ r.pending \in Seq(Entries)
    BY DEF Space, Accounts
  <2> QED
    BY <1>1, <1>2, <2>1, BytesAppend, BytesIsTotal
<1>4. Accounts(s, l, 0)
  BY SMTT(30), <1>1, <1>2, <1>3 DEF Space, Accounts
<1>5. new.at = c.at /\ new.size = c.size /\ new.buffer = r.buffer /\ new.fence = 0
  BY DEF NewCopy
<1>6. l \in Nat /\ Held(r.pending, 0) = 0
  BY DEF Space, Accounts, Held
<1> HIDE DEF s, new, e
<1>7. ASSUME NEW d \in s.copies PROVE Extent(s, l + 0, d)
  <2>1. CASE d = new
    <3>1. Held(s.pending, d.fence) + Bytes(s.recorded) + (l + 0)
             = Bytes(r.recorded) + l + c.occupied
      BY <1>1, <1>2, <1>3, <1>5, <1>6, <2>1
    <3>2. Behind(s, d, Bytes(r.recorded) + l + c.occupied)
      BY <1>1, <1>5, <2>1 DEF GivenSpace, Behind
    <3> QED
      BY <1>1, <1>5, <2>1, <3>1, <3>2 DEF GivenSpace, Space, Placed, Extent, Behind
  <2>2. CASE d \in r.copies
    <3>1. d.fence \in Nat /\ r.pending \in Seq(Entries)
      BY <2>2 DEF RingInv, CopyFence, Space, Accounts
    <3>2. Held(r.pending, d.fence) \in Nat
      BY <3>1, HeldQueue
    <3>3. Held(s.pending, d.fence) + Bytes(s.recorded) + (l + 0)
             = Held(r.pending, d.fence) + Bytes(r.recorded) + (l + c.occupied)
      BY <1>1, <1>2, <1>3, <1>6, <3>2
    <3> QED
      BY <1>1, <2>2, <3>3 DEF Space, Placed, Extent, Behind
  <2> QED
    BY <1>1, <2>1, <2>2
<1>8. ASSUME NEW x \in s.copies, NEW y \in s.copies, x # y, x.buffer = y.buffer
      PROVE  Apart(x, y)
  <2>1. CASE x = new
    BY <1>1, <1>5, <1>8, <2>1 DEF GivenSpace, Apart
  <2>2. CASE y = new
    BY <1>1, <1>5, <1>8, <2>2 DEF GivenSpace, Apart
  <2>3. CASE x \in r.copies /\ y \in r.copies
    BY <1>8, <2>3 DEF Space, Placed
  <2> QED
    BY <1>1, <2>1, <2>2, <2>3
<1>9. Placed(s, l + 0)
  BY <1>1, <1>7, <1>8 DEF Space, Placed
<1>10. Space(s, l, 0)
  BY <1>4, <1>9 DEF Space
<1>11. RingInv(s, k)
  BY WithCopyRing DEF s
<1>12. l + 0 = l
  BY DEF Space, Accounts
<1> QED
  BY <1>1, <1>10, <1>11, <1>12, FlushedSpace

-----------------------------------------------------------------------------

\* The states of a call that may still be given space.
Placing == {"reclaim", "grow", "wait", "begin"}
Given == IF pc = "begin" THEN call.occupied ELSE 0

\* The space of the ring, and of the call that has been given some.
SpaceInv ==
    /\ pc \in {"idle", "queue", "poll", "clear", "drain"} \cup Placing
    /\ Space(ring, lost, Given)
    /\ pc \in Placing => call.align \in Nat \ {0}
    /\ pc = "begin" => GivenSpace(ring, lost, call)

(* Whatever an attempt to allocate gives, the space is accounted for.       *)
LEMMA AllocateSpace ==
  ASSUME NEW r, NEW c, NEW otherwise \in Placing \ {"begin"}, NEW l,
         RingInv(r, completed), Space(r, l, 0), Allocate(r, c, otherwise), lost' = l,
         DOMAIN c = {"size", "align", "publish", "at", "occupied"},
         c.size \in Nat \ {0}, c.align \in Nat \ {0}
  PROVE  SpaceInv'
<1>1. CASE Fits(r, c)
  <2>1. /\ ring' = Allocated(r, c) /\ pc' = "begin"
        /\ call' = [c EXCEPT !.at = Start(r, c), !.occupied = c.size + Padding(r, c)]
    BY <1>1 DEF Allocate
  <2>2. /\ call'.at = Start(r, c) /\ call'.size = c.size /\ call'.align = c.align
        /\ call'.occupied = c.size + Padding(r, c)
    BY <2>1
  <2>3. Space(ring', l, call'.occupied) /\ GivenSpace(ring', l, call')
    BY <1>1, <2>1, <2>2, AllocatedSpace
  <2>4. Given' = call'.occupied
    BY <2>1 DEF Given
  <2> QED
    BY <2>1, <2>2, <2>3, <2>4 DEF SpaceInv, Placing
<1>2. CASE ~Fits(r, c)
  <2>1. ring' = r /\ call' = c /\ pc' = otherwise
    BY <1>2 DEF Allocate
  <2>2. Given' = 0
    BY <2>1 DEF Given, Placing
  <2> QED
    BY <2>1, <2>2 DEF SpaceInv, Placing
<1> QED
  BY <1>1, <1>2

(* A model given up leaves its batches charged, and loses what its call had. *)
LEMMA FailSpace ==
  ASSUME IInv, SpaceInv, Fail, lost' = lost + Given
  PROVE  SpaceInv'
<1> DEFINE f == Flushed(ring)
           g == Flushed(f)
<1>1. ring' = Signalled(g) /\ pc' = "drain"
  BY DEF Fail, FlushedToRetire
<1>2. RingInv(f, completed) /\ RingInv(g, completed)
  BY FlushedRing DEF IInv
<1>3. Space(f, lost + Given, 0) /\ Space(g, lost + Given + 0, 0)
  BY <1>2, FlushedSpace DEF IInv, SpaceInv
<1>4. lost + Given + 0 = lost'
  <2>1. lost + Given \in Nat
    BY DEF SpaceInv, Space, Accounts
  <2> QED
    BY <2>1
<1> HIDE DEF f, g
<1>5. Space(Signalled(g), lost', 0)
  BY <1>2, <1>3, <1>4, SignalledFields, SameSpace DEF RingInv
<1>6. Given' = 0
  BY <1>1 DEF Given
<1> QED
  BY <1>1, <1>5, <1>6 DEF SpaceInv, Placing

(* Initially the buffer is empty.                                           *)
LEMMA SpaceInit == Init => SpaceInv
<1> SUFFICES ASSUME Init PROVE SpaceInv
  OBVIOUS
<1>1. /\ ring.capacity = InitialCapacity /\ ring.offset = 0 /\ ring.used = 0
      /\ ring.recorded = <<>> /\ ring.pending = <<>> /\ ring.copies = {} /\ ring.buffer = 1
      /\ pc = "idle" /\ lost = 0
  BY DEF Init
<1>2. InitialCapacity \in Nat \ {0} /\ MaxCapacity \in Nat \ {0} /\ InitialCapacity <= MaxCapacity
  BY RingAssumption
<1>3. <<>> \in Seq(Entries) /\ Bytes(<<>>) = 0
  BY BytesAppend
<1>4. Accounts(ring, 0, 0)
  BY <1>1, <1>2, <1>3 DEF Accounts
<1>5. Placed(ring, 0 + 0)
  BY <1>1 DEF Placed
<1> QED
  BY <1>1, <1>4, <1>5 DEF SpaceInv, Space, Given, Placing

(* Every step keeps the accounts and the copies apart.                      *)
LEMMA SpaceNext == IInv /\ SpaceInv /\ [Next]_vars => SpaceInv'
<1> SUFFICES ASSUME IInv, SpaceInv, [Next]_vars PROVE SpaceInv'
  OBVIOUS
<1>r. RingInv(ring, completed) /\ DOMAIN ring = RingFields
  BY DEF IInv, RingInv
<1>s. Space(ring, lost, Given)
  BY DEF SpaceInv
<1>d. DOMAIN call = {"size", "align", "publish", "at", "occupied"}
  BY DEF IInv, CallInv
<1>c. pc \in Placing => call.size \in Nat \ {0} /\ call.align \in Nat \ {0}
  BY DEF IInv, CallInv, SpaceInv, Placing
<1>g. pc # "begin" => Given = 0 /\ Space(ring, lost, 0) /\ lost = lost + Given
  BY <1>s DEF Given, Space, Accounts
<1>1. CASE BeginUploadModel
  BY <1>1, <1>g DEF BeginUploadModel, SpaceInv, Given, Placing
<1>2. ASSUME NEW size \in Sizes, NEW align \in {1, Alignment}, NEW last \in BOOLEAN,
             Request(size, align, last)
      PROVE  SpaceInv'
  <2> DEFINE c == [size |-> size, align |-> align, publish |-> Publishes(last),
                   at |-> 0, occupied |-> 0]
  <2>1. /\ DOMAIN c = {"size", "align", "publish", "at", "occupied"}
        /\ c.size = size /\ c.align = align
    OBVIOUS
  <2>2. size \in Nat \ {0} /\ align \in Nat \ {0}
    BY RingAssumption
  <2>3. pc = "queue" /\ lost' = lost
    BY <1>2 DEF Request
  <2>4. CASE Allocate(ring, c, "reclaim")
    <3>1. "reclaim" \in Placing \ {"begin"}
      BY DEF Placing
    <3> HIDE DEF c
    <3> QED
      BY <1>r, <1>g, <2>1, <2>2, <2>3, <2>4, <3>1, AllocateSpace
  <2>5. CASE Fail
    BY <1>g, <2>3, <2>5, FailSpace
  <2> QED
    BY <1>2, <2>4, <2>5 DEF Request
<1>3. CASE Reclaim
  <2>1. /\ pc = "reclaim" /\ Allocate(Reclaimed(ring), call, "grow") /\ lost' = lost
        /\ "grow" \in Placing \ {"begin"}
    BY <1>3 DEF Reclaim, Placing
  <2>2. Space(Reclaimed(ring), lost, 0) /\ RingInv(Reclaimed(ring), completed)
    BY <1>r, <1>g, <2>1, ReclaimedSpace, ReclaimedRing
  <2> QED
    BY <1>c, <1>d, <2>1, <2>2, AllocateSpace DEF Placing
<1>4. CASE Grow
  <2>1. /\ pc = "grow" /\ Allocate(Grown(ring), call, "grow") /\ lost' = 0
        /\ "grow" \in Placing \ {"begin"}
    BY <1>4 DEF Grow, Placing
  <2>2. Space(Grown(ring), 0, 0) /\ RingInv(Grown(ring), completed)
    BY <1>r, <1>g, <2>1, GrownSpace, GrownRing
  <2> QED
    BY <1>c, <1>d, <2>1, <2>2, AllocateSpace DEF Placing
<1>5. CASE StopGrowing
  <2>1. /\ pc = "grow" /\ pc' = "wait" /\ ring' = BatchSubmitted(ring)
        /\ lost' = lost /\ call' = call
    BY <1>5 DEF StopGrowing
  <2>2. Space(ring', lost', 0)
    BY <1>r, <1>g, <2>1, BatchSubmittedSpace
  <2> QED
    BY <1>c, <2>1, <2>2 DEF SpaceInv, Given, Placing
<1>6. CASE WaitForOldest
  <2>1. /\ pc = "wait" /\ Allocate(Reclaimed(ring), call, "wait") /\ lost' = lost
        /\ "wait" \in Placing \ {"begin"}
    BY <1>6 DEF WaitForOldest, Placing
  <2>2. Space(Reclaimed(ring), lost, 0) /\ RingInv(Reclaimed(ring), completed)
    BY <1>r, <1>g, <2>1, ReclaimedSpace, ReclaimedRing
  <2> QED
    BY <1>c, <1>d, <2>1, <2>2, AllocateSpace DEF Placing
<1>7. CASE Backpressured
  BY <1>7, <1>g, FailSpace DEF Backpressured
<1>8. CASE Record
  <2>1. /\ pc = "begin" /\ pc' = "queue"
        /\ ring' = Recorded(ring, call) /\ call' = call /\ lost' = lost
    BY <1>8 DEF Record
  <2>2. GivenSpace(ring, lost, call) /\ Space(ring, lost, call.occupied) /\ call.size \in Nat \ {0}
    BY <1>c, <2>1 DEF SpaceInv, Given, Placing
  <2>3. Space(ring', lost', 0)
    BY <1>r, <2>1, <2>2, RecordedSpace
  <2> QED
    BY <2>1, <2>3 DEF SpaceInv, Given, Placing
<1>9. CASE BeginBatchFails
  <2>1. Fail /\ lost' = lost + Given
    BY <1>9 DEF BeginBatchFails, Given
  <2> QED
    BY <2>1, FailSpace
<1>10. CASE Cancel
  BY <1>10, <1>g, FailSpace DEF Cancel
<1>11. CASE FinishQueueing
  <2>1. /\ pc = "queue" /\ pc' = "poll" /\ ring' = Flushed(ring)
        /\ lost' = lost /\ call' = call
    BY <1>11 DEF FinishQueueing, FlushedAtEnd
  <2>2. Space(ring', lost + 0, 0) /\ lost + 0 = lost
    <3>1. Space(ring, lost, 0) /\ lost \in Nat
      BY <1>g, <2>1 DEF Space, Accounts
    <3> QED
      BY <1>r, <2>1, <3>1, FlushedSpace
  <2> QED
    BY <2>1, <2>2 DEF SpaceInv, Given, Placing
<1>12. CASE Poll
  <2> DEFINE s == [ring EXCEPT !.publications = Waiting(@)]
  <2>1. /\ pc = "poll" /\ pc' \in {"idle", "poll"} /\ ring' = Reclaimed(s)
        /\ lost' = lost /\ call' = call
    BY <1>12 DEF Poll
  <2>2. /\ DOMAIN s = RingFields /\ s.pending = ring.pending
        /\ s.recorded = ring.recorded /\ s.open = ring.open /\ s.capacity = ring.capacity
        /\ s.offset = ring.offset /\ s.used = ring.used /\ s.buffer = ring.buffer
        /\ s.copies = ring.copies
    BY <1>r DEF RingFields
  <2>5. /\ s.bytes = ring.bytes /\ s.last = ring.last /\ s.signalled = ring.signalled
        /\ s.retired = ring.retired
    BY <1>r DEF RingFields
  <2> HIDE DEF s
  <2>3. Space(s, lost, 0)
    BY <1>g, <2>1, <2>2, SameSpace
  <2>r. RingInv(s, completed)
    BY <1>r, <2>2, <2>5, SameLane DEF RingInv
  <2>4. Space(ring', lost', 0)
    BY <2>1, <2>3, <2>r, ReclaimedSpace
  <2> QED
    BY <2>1, <2>4 DEF SpaceInv, Given, Placing
<1>13. CASE GiveUp
  <2>1. /\ pc = "poll" /\ pc' = "clear" /\ ring' = Signalled(Flushed(ring))
        /\ lost' = lost /\ call' = call
    BY <1>13 DEF GiveUp
  <2>2. Space(Flushed(ring), lost + 0, 0) /\ lost + 0 = lost
    <3>1. Space(ring, lost, 0) /\ lost \in Nat
      BY <1>g, <2>1 DEF Space, Accounts
    <3> QED
      BY <1>r, <2>1, <3>1, FlushedSpace
  <2>3. DOMAIN Flushed(ring) = RingFields
    BY <1>r, FlushedFields
  <2>4. Space(ring', lost', 0)
    BY <2>1, <2>2, <2>3, SignalledFields, SameSpace
  <2> QED
    BY <2>1, <2>4 DEF SpaceInv, Given, Placing
<1>14. CASE ClearModel \/ Drained
  <2>1. /\ pc \in {"clear", "drain"} /\ pc' = "idle" /\ ring' = Reclaimed(ring)
        /\ lost' = lost /\ call' = call
    BY <1>14 DEF ClearModel, Drained
  <2>2. Space(ring', lost', 0)
    BY <1>r, <1>g, <2>1, ReclaimedSpace
  <2> QED
    BY <2>1, <2>2 DEF SpaceInv, Given, Placing
<1>15. CASE GpuCompletes
  <2>1. /\ ring' = [ring EXCEPT !.copies = {c \in @ : c.fence # completed + 1}]
        /\ pc' = pc /\ call' = call /\ lost' = lost
    BY <1>15 DEF GpuCompletes
  <2>2. /\ ring'.pending = ring.pending /\ ring'.recorded = ring.recorded
        /\ ring'.open = ring.open /\ ring'.capacity = ring.capacity
        /\ ring'.offset = ring.offset /\ ring'.used = ring.used
        /\ ring'.buffer = ring.buffer /\ ring'.copies \subseteq ring.copies
    BY <1>r, <2>1 DEF RingFields
  <2>3. Space(ring', lost', Given')
    BY <1>s, <2>1, <2>2, SameSpace DEF Given
  <2>4. pc = "begin" => GivenSpace(ring', lost', call')
    BY <2>1, <2>2 DEF SpaceInv, GivenSpace, Behind
  <2> QED
    BY <1>c, <2>1, <2>3, <2>4 DEF SpaceInv
<1>16. CASE UNCHANGED vars
  BY <1>16 DEF vars, SpaceInv, Given, GivenSpace
<1> QED
  BY <1>1, <1>2, <1>3, <1>4, <1>5, <1>6, <1>7, <1>8, <1>9, <1>10, <1>11, <1>12,
     <1>13, <1>14, <1>15, <1>16 DEF Next, Upload, Finished

(* The space of the ring is accounted for in every state.                   *)
THEOREM SpaceInvariant == Spec => []SpaceInv
<1>1. SpaceInv /\ IInv /\ [Next]_vars => SpaceInv'
  BY SpaceNext
<1> QED
  BY <1>1, SpaceInit, LaneInvariant, PTL DEF Spec

(* What is charged is what is pending, recorded, given to the call being    *)
(* made or lost with a failed batch, through every wrap, growth, reclaim    *)
(* and timeout (RingAllocation::occupiedBytes, ReclaimCompleted, Grow).     *)
THEOREM UsedBytesAreBalanced == Spec => []UsedBytesBalance
<1>1. SpaceInv => UsedBytesBalance
  BY BytesIsTotal DEF SpaceInv, Space, Accounts, Given, UsedBytesBalance
<1> QED
  BY <1>1, SpaceInvariant, PTL

(* No two copies that are still to be executed read a byte of one buffer in *)
(* common, and none reads past its end, for any sizes, alignments and       *)
(* capacities (TryAllocateInternal).                                        *)
THEOREM StagedBytesAreKept == Spec => []CopiesAreDisjoint
<1>1. SpaceInv => CopiesAreDisjoint
  BY DEF SpaceInv, Space, Placed, Extent, CopiesAreDisjoint
<1> QED
  BY <1>1, SpaceInvariant, PTL

-----------------------------------------------------------------------------
(* Publication.                                                             *)

(* The entries of a queue behind another, and of what waits in one.         *)
LEMMA RangeOfQueues ==
  ASSUME NEW S, NEW q \in Seq(S)
  PROVE  /\ Range(q) \subseteq S
         /\ Range(Waiting(q)) \subseteq Range(q)
         /\ \A e \in Range(Completed(q)) : e \in Range(q) /\ Done(e)
         /\ \A t \in Seq(S) : q \o t \in Seq(S) /\ Range(q \o t) = Range(q) \cup Range(t)
         /\ \A e \in S : Append(q, e) \in Seq(S) /\ Range(Append(q, e)) = Range(q) \cup {e}
<1>0. DOMAIN q = 1 .. Len(q) /\ Len(q) \in Nat /\ \A i \in 1 .. Len(q) : q[i] \in S
  BY LenProperties, ElementOfSeq
<1>1. Range(q) \subseteq S
  BY <1>0 DEF Range
<1>2. ASSUME NEW u \in Seq(S), NEW t \in Seq(S)
      PROVE  u \o t \in Seq(S) /\ Range(u \o t) = Range(u) \cup Range(t)
  <2>1. /\ u \o t \in Seq(S) /\ Len(u \o t) = Len(u) + Len(t)
        /\ \A i \in 1 .. Len(u) + Len(t) :
              (u \o t)[i] = IF i <= Len(u) THEN u[i] ELSE t[i - Len(u)]
    BY ConcatProperties
  <2>2. /\ DOMAIN u = 1 .. Len(u) /\ Len(u) \in Nat
        /\ DOMAIN t = 1 .. Len(t) /\ Len(t) \in Nat
        /\ DOMAIN (u \o t) = 1 .. Len(u) + Len(t)
    BY <2>1, LenProperties
  <2> DEFINE w == u \o t
  <2>3. /\ DOMAIN w = 1 .. Len(u) + Len(t)
        /\ \A i \in DOMAIN w : w[i] = IF i <= Len(u) THEN u[i] ELSE t[i - Len(u)]
    BY <2>1, <2>2
  <2> HIDE DEF w
  <2>4. ASSUME NEW i \in DOMAIN w PROVE w[i] \in Range(u) \cup Range(t)
    <3>1. CASE i <= Len(u)
      BY <2>2, <2>3, <2>4, <3>1 DEF Range
    <3>2. CASE ~(i <= Len(u))
      <4>1. i - Len(u) \in DOMAIN t /\ w[i] = t[i - Len(u)]
        BY <2>2, <2>3, <2>4, <3>2
      <4> QED
        BY <4>1 DEF Range
    <3> QED
      BY <3>1, <3>2
  <2>5. ASSUME NEW i \in DOMAIN u PROVE u[i] \in Range(w)
    <3>1. i \in DOMAIN w /\ w[i] = u[i]
      BY <2>2, <2>3
    <3> QED
      BY <3>1 DEF Range
  <2>6. ASSUME NEW i \in DOMAIN t PROVE t[i] \in Range(w)
    <3>1. i + Len(u) \in DOMAIN w /\ w[i + Len(u)] = t[i]
      BY <2>2, <2>3
    <3> QED
      BY <3>1 DEF Range
  <2>7. Range(w) = Range(u) \cup Range(t)
    BY <2>4, <2>5, <2>6 DEF Range
  <2> QED
    BY <2>1, <2>7 DEF w
<1>3. Completed(q) \in Seq(S) /\ Waiting(q) \in Seq(S) /\ q = Completed(q) \o Waiting(q)
  BY QueueSplits
<1>4. Range(q) = Range(Completed(q)) \cup Range(Waiting(q))
  BY <1>2, <1>3
<1>5. ASSUME NEW e \in Range(Completed(q)) PROVE Done(e)
  <2>1. PICK i \in DOMAIN Completed(q) : e = Completed(q)[i]
    BY <1>5 DEF Range
  <2> DEFINE n == CompletedCount(q)
  <2>2. n \in 0 .. Len(q) /\ \A j \in 1 .. n : Done(q[j])
    BY CompletedPrefix
  <2> HIDE DEF n
  <2>3. /\ Len(SubSeq(q, 1, n)) = IF 1 <= n THEN n - 1 + 1 ELSE 0
        /\ \A j \in 1 .. n - 1 + 1 : SubSeq(q, 1, n)[j] = q[1 + j - 1]
        /\ SubSeq(q, 1, n) \in Seq(S)
    BY <1>0, <2>2, SubSeqProperties
  <2>4. DOMAIN SubSeq(q, 1, n) = 1 .. n
    BY <2>2, <2>3, <1>0, LenProperties
  <2>5. i \in 1 .. n /\ e = q[i]
    BY <1>0, <2>1, <2>2, <2>3, <2>4 DEF Completed, n
  <2> QED
    BY <2>2, <2>5
<1>6. ASSUME NEW e \in S
      PROVE  Append(q, e) \in Seq(S) /\ Range(Append(q, e)) = Range(q) \cup {e}
  <2> DEFINE w == Append(q, e)
  <2>1. /\ w \in Seq(S) /\ DOMAIN w = 1 .. Len(q) + 1
        /\ \A i \in 1 .. Len(q) : w[i] = q[i]
        /\ w[Len(q) + 1] = e
    BY <1>0, AppendProperties, LenProperties
  <2> HIDE DEF w
  <2>2. Range(w) \subseteq Range(q) \cup {e}
    BY <1>0, <2>1 DEF Range
  <2>3. e \in Range(w)
    BY <1>0, <2>1 DEF Range
  <2>4. Range(q) \subseteq Range(w)
    BY <1>0, <2>1 DEF Range
  <2> QED
    BY <2>1, <2>2, <2>3, <2>4 DEF w
<1> QED
  BY <1>1, <1>2, <1>3, <1>4, <1>5, <1>6

(* What a batch publishes is published behind its fence.                    *)
LEMMA RangeStamped ==
  ASSUME NEW q, NEW n
  PROVE  \A e \in Range(Stamped(q, n)) : \E d \in Range(q) : e = [d EXCEPT !.fence = n]
  BY DEF Range, Stamped

(* Submitting changes nothing of a copy but its fence.                      *)
LEMMA FlushedCopies ==
  ASSUME NEW r, NEW k, RingInv(r, k), NEW c \in Flushed(r).copies
  PROVE  \E d \in r.copies :
            /\ c.cluster = d.cluster /\ c.generation = d.generation
            /\ d.fence # 0 => c.fence = d.fence
            /\ d.fence = 0 => c.fence = r.signalled + 1 /\ r.open
<1> DEFINE f == Flushed(r)
           m == r.signalled + 1
<1>1. DOMAIN r = RingFields /\ (r.open => r.recorded # <<>>)
  BY DEF RingInv
<1>2. /\ r.open => f.copies = {[d EXCEPT !.fence = IF @ = 0 THEN m ELSE @] : d \in r.copies}
      /\ ~r.open => f.copies = r.copies
  BY <1>1, FlushedFields
<1>3. \A d \in r.copies : DOMAIN d = CopyFields /\ (d.fence = 0 => r.open)
  BY DEF RingInv, CopyFence
<1> HIDE DEF f, m
<1>4. CASE r.open
  <2>1. PICK d \in r.copies : c = [d EXCEPT !.fence = IF @ = 0 THEN m ELSE @]
    BY <1>2, <1>4 DEF f
  <2>2. /\ c.fence = IF d.fence = 0 THEN m ELSE d.fence
        /\ c.cluster = d.cluster /\ c.generation = d.generation
    BY <1>3, <2>1 DEF CopyFields
  <2> QED
    BY <1>4, <2>2 DEF m
<1>5. CASE ~r.open
  BY <1>2, <1>3, <1>5 DEF f
<1> QED
  BY <1>4, <1>5 DEF RingInv

Publications == [cluster : Nat, generation : Nat, fence : Nat]

\* What is to be published up to model t, of which n clusters are queued: a
\* publication is never behind an earlier fence than the copies it stands for.
Destined(r, t, n) ==
    /\ r.publications \in Seq(Publications) /\ r.toPublish \in Seq(Publications)
    /\ \A p \in Range(r.publications) \cup Range(r.toPublish) :
          p.generation <= t /\ (p.generation = t => p.cluster \in 1 .. n)
    /\ \A c \in r.copies : c.cluster \in Nat /\ c.generation \in Nat /\ c.generation <= t
    /\ \A c \in r.copies, p \in Range(r.publications) :
          c.generation = p.generation /\ c.cluster = p.cluster
             => c.fence # 0 /\ c.fence <= p.fence

(* A ring that has the same to publish, and no other copies; and a new      *)
(* model, of which nothing is recorded yet.                                 *)
LEMMA SameDestined ==
  ASSUME NEW r, NEW s, NEW t \in Nat, NEW n, Destined(r, t, n),
         s.publications = r.publications, s.toPublish = r.toPublish,
         s.copies \subseteq r.copies
  PROVE  /\ Destined(s, t, n)
         /\ \A u \in Nat : \A m : t < u => Destined(s, u, m)
<1>1. Destined(s, t, n)
  BY DEF Destined
<1>2. ASSUME NEW u \in Nat, NEW m, t < u PROVE Destined(s, u, m)
  <2>1. ASSUME NEW p \in Range(s.publications) \cup Range(s.toPublish)
        PROVE  p.generation <= u /\ p.generation # u
    <3>1. p \in Publications
      BY <2>1, RangeOfQueues DEF Destined
    <3>2. p.generation \in Nat
      BY <3>1 DEF Publications
    <3>3. p.generation <= t
      BY <2>1 DEF Destined
    <3> QED
      BY <1>2, <3>2, <3>3
  <2>2. \A c \in s.copies : c.cluster \in Nat /\ c.generation \in Nat /\ c.generation <= u
    BY <1>2 DEF Destined
  <2> QED
    BY <2>1, <2>2 DEF Destined
<1> QED
  BY <1>1, <1>2

(* A batch publishes behind the fence its copies are submitted with.        *)
LEMMA FlushedDestined ==
  ASSUME NEW r, NEW k, NEW t \in Nat, NEW n, RingInv(r, k), Destined(r, t, n)
  PROVE  Destined(Flushed(r), t, n)
<1> DEFINE f == Flushed(r)
           m == r.signalled + 1
<1>1. /\ DOMAIN r = RingFields /\ (r.open => r.recorded # <<>>) /\ r.open \in BOOLEAN
      /\ m \in Nat /\ r.last <= r.signalled /\ r.last \in Nat /\ r.signalled \in Nat
  BY DEF RingInv, Counters
<1>2. CASE ~r.open
  <2>1. /\ f.publications = r.publications /\ f.toPublish = r.toPublish
        /\ f.copies = r.copies
    BY <1>1, <1>2, FlushedFields
  <2> HIDE DEF f
  <2> QED
    BY <2>1, SameDestined DEF f
<1>3. CASE r.open
  <2> DEFINE late == Stamped(r.toPublish, m)
  <2>1. f.publications = r.publications \o late /\ f.toPublish = <<>>
    BY <1>1, <1>3, FlushedFields
  <2>2. ASSUME NEW p \in Range(late)
        PROVE  /\ p \in Publications /\ p.fence = m
               /\ p.generation <= t /\ (p.generation = t => p.cluster \in 1 .. n)
    <3>1. PICK d \in Range(r.toPublish) : p = [d EXCEPT !.fence = m]
      BY <2>2, RangeStamped
    <3>2. d \in Publications
      BY <3>1, RangeOfQueues DEF Destined
    <3>3. /\ p \in Publications /\ p.fence = m
          /\ p.cluster = d.cluster /\ p.generation = d.generation
      BY <1>1, <3>1, <3>2 DEF Publications
    <3> QED
      BY <3>1, <3>3 DEF Destined
  <2>3. late \in Seq(Publications)
    <3>1. r.toPublish \in Seq(Publications)
      BY DEF Destined
    <3>2. DOMAIN late = 1 .. Len(r.toPublish) /\ Len(r.toPublish) \in Nat
      BY <3>1, LenProperties DEF Stamped
    <3>3. \A i \in 1 .. Len(r.toPublish) : late[i] \in Publications
      BY <2>2, <3>2 DEF Range
    <3>4. late = [i \in 1 .. Len(r.toPublish) |-> late[i]]
      BY <3>2 DEF Stamped
    <3> HIDE DEF late
    <3> QED
      BY <3>2, <3>3, <3>4, IsASeq
  <2> HIDE DEF late
  <2>4. /\ f.publications \in Seq(Publications) /\ f.toPublish \in Seq(Publications)
        /\ Range(f.publications) = Range(r.publications) \cup Range(late)
        /\ Range(f.toPublish) = {}
    <3>1. r.publications \in Seq(Publications)
      BY DEF Destined
    <3>2. Range(<<>>) = {}
      BY DEF Range
    <3> QED
      BY <2>1, <2>3, <3>1, <3>2, RangeOfQueues
  <2>5. ASSUME NEW c \in f.copies
        PROVE  \E d \in r.copies :
                  /\ c.cluster = d.cluster /\ c.generation = d.generation
                  /\ d.fence # 0 => c.fence = d.fence /\ c.fence < m
                  /\ d.fence = 0 => c.fence = m
    <3>1. PICK d \in r.copies :
             /\ c.cluster = d.cluster /\ c.generation = d.generation
             /\ d.fence # 0 => c.fence = d.fence
             /\ d.fence = 0 => c.fence = m /\ r.open
      BY <2>5, FlushedCopies
    <3>2. d.fence # 0 => d.fence \in Nat /\ d.fence <= r.last
      BY DEF RingInv, CopyFence
    <3> QED
      BY <1>1, <3>1, <3>2
  <2> HIDE DEF f
  <2>6. \A c \in f.copies : c.cluster \in Nat /\ c.generation \in Nat /\ c.generation <= t
    BY <2>5 DEF Destined
  <2>7. ASSUME NEW c \in f.copies, NEW p \in Range(f.publications),
               c.generation = p.generation, c.cluster = p.cluster
        PROVE  c.fence # 0 /\ c.fence <= p.fence
    <3>1. PICK d \in r.copies :
                  /\ c.cluster = d.cluster /\ c.generation = d.generation
                  /\ d.fence # 0 => c.fence = d.fence /\ c.fence < m
                  /\ d.fence = 0 => c.fence = m
      BY <2>5
    <3>2. CASE p \in Range(r.publications)
      BY <2>7, <3>1, <3>2 DEF Destined
    <3>3. CASE p \in Range(late)
      <4>1. p.fence = m /\ m \in Nat /\ m # 0
        BY <1>1, <2>2, <3>3
      <4>2. d.fence \in Nat
        BY DEF RingInv, CopyFence
      <4> HIDE DEF m
      <4> QED
        BY <3>1, <4>1, <4>2
    <3> QED
      BY <2>4, <2>7, <3>2, <3>3
  <2>8. \A p \in Range(f.publications) \cup Range(f.toPublish) :
          p.generation <= t /\ (p.generation = t => p.cluster \in 1 .. n)
    BY <2>2, <2>4 DEF Destined
  <2>9. Destined(f, t, n)
    BY <2>4, <2>6, <2>7, <2>8 DEF Destined
  <2> QED
    BY <2>9 DEF f
<1> QED
  BY <1>1, <1>2, <1>3

(* The copy recorded belongs to the next cluster, which nothing published   *)
(* yet; its publication follows with the last of them.                      *)
LEMMA RecordedDestined ==
  ASSUME NEW r, NEW c, NEW k, RingInv(r, k), c.size \in Nat \ {0},
         model.token \in Nat, model.queued \in Nat, c.publish \in BOOLEAN,
         Destined(r, model.token, model.queued)
  PROVE  Destined(Recorded(r, c), model.token,
                  IF c.publish THEN model.queued + 1 ELSE model.queued)
<1> DEFINE s == WithCopy(r, c)
           new == NewCopy(r, c)
           p == NewPublication
           t == model.token
           n == model.queued
           n2 == IF c.publish THEN n + 1 ELSE n
<1>1. /\ Recorded(r, c) = IF s.bytes >= MaxBatchBytes THEN Flushed(s) ELSE s
      /\ s.copies = r.copies \cup {new} /\ s.publications = r.publications
      /\ s.toPublish = IF c.publish THEN Append(r.toPublish, p) ELSE r.toPublish
  <2>1. DOMAIN r = RingFields
    BY DEF RingInv
  <2>2. Recorded(r, c) = IF s.bytes >= MaxBatchBytes THEN Flushed(s) ELSE s
    BY ZenonT(60), <2>1, RecordedFields
  <2>3. s.copies = r.copies \cup {new} /\ s.publications = r.publications
    BY <2>1 DEF WithCopy, RingFields
  <2>4. s.toPublish = IF c.publish THEN Append(r.toPublish, p) ELSE r.toPublish
    BY <2>1 DEF WithCopy, RingFields
  <2> QED
    BY <2>2, <2>3, <2>4
<1>2. new.cluster = n + 1 /\ new.generation = t
  BY DEF NewCopy
<1>3. /\ p \in Publications /\ p.generation = t /\ p.cluster = n + 1
  BY DEF NewPublication, Publications
<1> HIDE DEF s, new, p
<1>4. /\ s.publications \in Seq(Publications) /\ s.toPublish \in Seq(Publications)
      /\ Range(s.toPublish) \subseteq Range(r.toPublish) \cup (IF c.publish THEN {p} ELSE {})
  <2>1. r.toPublish \in Seq(Publications) /\ r.publications \in Seq(Publications)
    BY DEF Destined
  <2> QED
    BY <1>1, <1>3, <2>1, RangeOfQueues
<1>5. ASSUME NEW q \in Range(s.publications) \cup Range(s.toPublish)
      PROVE  q.generation <= t /\ (q.generation = t => q.cluster \in 1 .. n2)
  <2>1. CASE q \in Range(r.publications) \cup Range(r.toPublish)
    <3>1. q.generation <= t /\ (q.generation = t => q.cluster \in 1 .. n)
      BY <2>1 DEF Destined
    <3> QED
      BY <3>1
  <2>2. CASE c.publish /\ q = p
    BY <1>3, <2>2
  <2> QED
    BY <1>1, <1>4, <1>5, <2>1, <2>2
<1>6. \A d \in s.copies : d.cluster \in Nat /\ d.generation \in Nat /\ d.generation <= t
  BY <1>1, <1>2 DEF Destined
<1>7. ASSUME NEW d \in s.copies, NEW q \in Range(s.publications),
             d.generation = q.generation, d.cluster = q.cluster
      PROVE  d.fence # 0 /\ d.fence <= q.fence
  <2>1. d # new
    <3>1. q.generation = t => q.cluster \in 1 .. n
      BY <1>1 DEF Destined
    <3> QED
      BY <1>2, <1>7, <3>1
  <2> QED
    BY <1>1, <1>7, <2>1 DEF Destined
<1>8. Destined(s, t, n2)
  BY <1>4, <1>5, <1>6, <1>7 DEF Destined
<1>9. RingInv(s, k)
  BY WithCopyRing DEF s
<1> HIDE DEF n2, t, n
<1>10. t \in Nat
  BY DEF t
<1> QED
  BY <1>1, <1>8, <1>9, <1>10, FlushedDestined DEF n2, t, n

ModelFields == {"number", "token", "generation", "queued", "copies", "partial"}

\* A copy of the model being uploaded belongs to a cluster that is queued, or
\* to the next one while its copies go on, and that is not ready.
InFlight(c) ==
    /\ c.cluster \in 1 .. model.queued + 1
    /\ pc = "poll" \/ (pc = "queue" /\ ~model.partial) => c.cluster <= model.queued
    /\ c.cluster \in Clusters => snapshot[c.cluster] # model.token

PubInv ==
    /\ DOMAIN model = ModelFields
    /\ model.token \in Nat /\ model.generation \in Nat /\ model.queued \in Nat
    /\ model.partial \in BOOLEAN /\ model.token <= model.generation
    /\ pc # "idle" => model.generation = model.token
    /\ handed \in 0 .. model.token
    /\ snapshot \in [Clusters -> 0 .. model.generation]
    /\ Destined(ring, model.token, model.queued)
    /\ pc \in {"poll", "clear", "drain", "idle"} => ~ring.open
    /\ pc \in Placing => call.publish = ~model.partial
    /\ pc # "idle" => /\ \A cl \in Clusters : snapshot[cl] = model.token => cl <= model.queued
                      /\ \A c \in ring.copies : c.generation = model.token => InFlight(c)

(* Initially nothing is to be published.                                    *)
LEMMA PubInit == Init => PubInv
<1> SUFFICES ASSUME Init PROVE PubInv
  OBVIOUS
<1>1. /\ ring.publications = <<>> /\ ring.toPublish = <<>> /\ ring.copies = {}
      /\ ~ring.open
  BY DEF Init
<1>2. <<>> \in Seq(Publications) /\ Range(<<>>) = {}
  BY DEF Range
<1>3. Destined(ring, 0, 0)
  BY <1>1, <1>2 DEF Destined
<1>4. /\ model.token = 0 /\ model.generation = 1 /\ model.queued = 0 /\ ~model.partial
      /\ DOMAIN model = ModelFields /\ model.partial \in BOOLEAN
      /\ handed = 0 /\ pc = "idle" /\ snapshot \in [Clusters -> 0 .. 1]
  BY DEF Init, ModelFields
<1> QED
  BY <1>1, <1>3, <1>4 DEF PubInv, Placing

(* A step of the lane that records nothing leaves what is in flight.        *)
LEMMA SamePub ==
  ASSUME PubInv, UNCHANGED <<handed, snapshot>>,
         DOMAIN model' = ModelFields, model'.partial \in BOOLEAN,
         model'.token = model.token, model'.generation = model.generation,
         model'.queued = model.queued,
         pc # "idle", pc' # "idle", pc' # "queue",
         pc' = "poll" => pc = "poll" \/ (pc = "queue" /\ ~model.partial),
         Destined(ring', model.token, model.queued),
         pc' \in {"poll", "clear", "drain"} => ~ring'.open,
         pc' \in Placing => call'.publish = ~model'.partial,
         \A c \in ring'.copies : \E d \in ring.copies :
            c.cluster = d.cluster /\ c.generation = d.generation
  PROVE  PubInv'
<1>1. ASSUME NEW c \in ring'.copies, c.generation = model'.token
      PROVE  InFlight(c)'
  <2>1. PICK d \in ring.copies : c.cluster = d.cluster /\ c.generation = d.generation
    OBVIOUS
  <2>2. InFlight(d) /\ snapshot' = snapshot
    BY <1>1, <2>1 DEF PubInv
  <2> QED
    BY <2>1, <2>2 DEF InFlight, PubInv
<1>2. \A cl \in Clusters : snapshot'[cl] = model'.token => cl <= model'.queued
  BY DEF PubInv
<1> QED
  BY <1>1, <1>2 DEF PubInv

(* An attempt to allocate publishes nothing, and records nothing.           *)
LEMMA AllocatePub ==
  ASSUME NEW r, NEW c, NEW otherwise \in Placing, Allocate(r, c, otherwise),
         DOMAIN r = RingFields, Destined(r, model.token, model.queued),
         \A d \in r.copies : \E e \in ring.copies :
            d.cluster = e.cluster /\ d.generation = e.generation,
         DOMAIN c = {"size", "align", "publish", "at", "occupied"},
         PubInv, pc # "idle", UNCHANGED <<handed, snapshot>>,
         DOMAIN model' = ModelFields, model'.partial \in BOOLEAN,
         model'.token = model.token, model'.generation = model.generation,
         model'.queued = model.queued, c.publish = ~model'.partial
  PROVE  PubInv'
<1>1. pc' \in Placing /\ call'.publish = c.publish
  BY DEF Allocate, Placing
<1>2. /\ ring'.publications = r.publications /\ ring'.toPublish = r.toPublish
      /\ ring'.copies = r.copies
  <2>1. ring' = r \/ ring' = Allocated(r, c)
    BY DEF Allocate
  <2> QED
    BY <2>1, AllocatedFields
<1>3. Destined(ring', model.token, model.queued)
  BY <1>2, SameDestined DEF PubInv
<1> QED
  BY <1>1, <1>2, <1>3, SamePub DEF Placing

(* A model given up keeps what it has to publish, with nothing open.        *)
LEMMA FailPub ==
  ASSUME IInv, PubInv, Fail, pc # "idle", UNCHANGED <<handed, snapshot>>,
         DOMAIN model' = ModelFields, model'.partial \in BOOLEAN,
         model'.token = model.token, model'.generation = model.generation,
         model'.queued = model.queued
  PROVE  PubInv'
<1> DEFINE f == Flushed(ring)
           g == Flushed(f)
           t == model.token
           n == model.queued
<1>1. ring' = Signalled(g) /\ pc' = "drain"
  BY DEF Fail, FlushedToRetire
<1>2. RingInv(f, completed) /\ RingInv(g, completed) /\ ~f.open /\ ~g.open
  BY FlushedRing DEF IInv
<1>3. Destined(f, t, n) /\ Destined(g, t, n)
  BY <1>2, FlushedDestined DEF IInv, PubInv
<1>4. \A c \in g.copies : \E d \in ring.copies :
         c.cluster = d.cluster /\ c.generation = d.generation
  <2>1. ASSUME NEW c \in g.copies
        PROVE  \E d \in f.copies : c.cluster = d.cluster /\ c.generation = d.generation
    BY <1>2, FlushedCopies
  <2>2. ASSUME NEW c \in f.copies
        PROVE  \E d \in ring.copies : c.cluster = d.cluster /\ c.generation = d.generation
    BY FlushedCopies DEF IInv
  <2> QED
    BY <2>1, <2>2
<1> HIDE DEF f, g
<1>5. /\ Signalled(g).publications = g.publications /\ Signalled(g).toPublish = g.toPublish
      /\ Signalled(g).copies = g.copies /\ Signalled(g).open = g.open
  BY <1>2, SignalledFields DEF RingInv
<1>6. Destined(ring', t, n)
  BY <1>1, <1>3, <1>5, SameDestined DEF PubInv
<1>7. ~ring'.open /\ pc' = "drain" /\ pc' \notin Placing
  BY <1>1, <1>2, <1>5 DEF Placing
<1>8. \A c \in ring'.copies : \E d \in ring.copies :
         c.cluster = d.cluster /\ c.generation = d.generation
  BY <1>1, <1>4, <1>5
<1> QED
  BY <1>6, <1>7, <1>8, SamePub

(* Grow and EnsureSpace submit before they go on.                           *)
LEMMA BatchSubmittedPub ==
  ASSUME NEW r, NEW k, NEW t \in Nat, NEW n, RingInv(r, k), Destined(r, t, n)
  PROVE  /\ Destined(BatchSubmitted(r), t, n)
         /\ \A c \in BatchSubmitted(r).copies : \E d \in r.copies :
               c.cluster = d.cluster /\ c.generation = d.generation
<1>1. CASE r.open
  <2>1. BatchSubmitted(r) = Flushed(r)
    BY <1>1 DEF RingInv, BatchSubmitted
  <2> QED
    BY <2>1, FlushedDestined, FlushedCopies
<1>2. CASE ~r.open
  BY <1>2 DEF BatchSubmitted
<1> QED
  BY <1>1, <1>2 DEF RingInv

(* What Poll publishes is of this model, of a cluster that is queued, and   *)
(* the GPU has finished its copies.                                         *)
LEMMA PromotedAreCopied ==
  ASSUME IInv, PubInv, pc = "poll"
  PROVE  /\ Promoted \subseteq 1 .. model.queued
         /\ \A c \in ring.copies : c.generation = model.token => c.cluster \notin Promoted
<1>1. ASSUME NEW cl \in Promoted
      PROVE  \E p \in Range(ring.publications) :
                p.generation = model.token /\ p.cluster = cl /\ p.fence <= completed
  <2>1. PICK p \in Range(Completed(ring.publications)) :
           p.generation = model.generation /\ p.cluster = cl
    BY DEF Promoted
  <2>2. p \in Range(ring.publications) /\ Done(p)
    BY <2>1, RangeOfQueues DEF PubInv, Destined
  <2> QED
    BY <2>1, <2>2 DEF Done, PubInv
<1>2. Promoted \subseteq 1 .. model.queued
  BY <1>1 DEF PubInv, Destined
<1>3. ASSUME NEW c \in ring.copies, c.generation = model.token, c.cluster \in Promoted
      PROVE  FALSE
  <2>1. PICK p \in Range(ring.publications) :
           p.generation = model.token /\ p.cluster = c.cluster /\ p.fence <= completed
    BY <1>1, <1>3
  <2>2. c.fence # 0 /\ c.fence <= p.fence
    BY <1>3, <2>1 DEF PubInv, Destined
  <2>3. completed < c.fence /\ c.fence \in Nat /\ completed \in Nat
    BY <2>2 DEF IInv, RingInv, CopyFence, Counters
  <2>4. p.fence \in Nat
    <3>1. p \in Publications
      BY <2>1, RangeOfQueues DEF PubInv, Destined
    <3> QED
      BY <3>1 DEF Publications
  <2> QED
    BY <2>1, <2>2, <2>3, <2>4
<1> QED
  BY <1>2, <1>3

(* Every step keeps publications behind the copies they stand for.          *)
LEMMA PubNext == IInv /\ SpaceInv /\ PubInv /\ [Next]_vars => PubInv'
<1> SUFFICES ASSUME IInv, SpaceInv, PubInv, [Next]_vars PROVE PubInv'
  OBVIOUS
<1> DEFINE t == model.token
           n == model.queued
<1>r. RingInv(ring, completed) /\ DOMAIN ring = RingFields
  BY DEF IInv, RingInv
<1>d. DOMAIN call = {"size", "align", "publish", "at", "occupied"}
  BY DEF IInv, CallInv
<1>p. /\ Destined(ring, t, n) /\ t \in Nat /\ n \in Nat
      /\ DOMAIN model = ModelFields /\ model.partial \in BOOLEAN
  BY DEF PubInv
<1>c. pc \in Placing => call.publish = ~model.partial
  BY DEF PubInv
<1>i. "idle" \notin Placing /\ "queue" \notin Placing /\ "poll" \notin Placing
  BY DEF Placing
<1> HIDE DEF t, n
<1>1. CASE BeginUploadModel
  <2>1. /\ pc = "idle" /\ pc' = "queue" /\ UNCHANGED <<ring, call, handed, snapshot>>
        /\ model' = [number |-> model.number + 1, token |-> model.generation + 1,
                     generation |-> model.generation + 1, queued |-> 0, copies |-> 0,
                     partial |-> FALSE]
    BY <1>1 DEF BeginUploadModel
  <2>2. /\ DOMAIN model' = ModelFields /\ model'.token = model.generation + 1
        /\ model'.generation = model.generation + 1 /\ model'.queued = 0
        /\ model'.partial = FALSE /\ t < model'.token /\ model'.token \in Nat
    BY <2>1 DEF ModelFields, PubInv, t
  <2>3. Destined(ring', model'.token, model'.queued)
    BY <1>p, <2>1, <2>2, SameDestined
  <2>4. \A c \in ring.copies : c.generation # model'.token
    BY <1>p, <2>2 DEF Destined
  <2>5. \A cl \in Clusters : snapshot[cl] # model'.token
    BY <2>2 DEF PubInv
  <2>6. snapshot' \in [Clusters -> 0 .. model'.generation] /\ handed' \in 0 .. model'.token
    BY <2>1, <2>2 DEF PubInv
  <2> QED
    BY <1>i, <2>1, <2>2, <2>3, <2>4, <2>5, <2>6 DEF PubInv
<1>2. ASSUME NEW size \in Sizes, NEW align \in {1, Alignment}, NEW last \in BOOLEAN,
             Request(size, align, last)
      PROVE  PubInv'
  <2> DEFINE c == [size |-> size, align |-> align, publish |-> Publishes(last),
                   at |-> 0, occupied |-> 0]
  <2>1. /\ DOMAIN c = {"size", "align", "publish", "at", "occupied"} /\ c.publish = last
    BY DEF Publishes
  <2>2. /\ pc = "queue" /\ UNCHANGED <<handed, snapshot>>
        /\ model' = [model EXCEPT !.partial = ~last]
    BY <1>2 DEF Request
  <2>3. /\ DOMAIN model' = ModelFields /\ model'.partial = ~last
        /\ model'.token = model.token /\ model'.generation = model.generation
        /\ model'.queued = model.queued
    BY <1>p, <2>2 DEF ModelFields
  <2>4. CASE Allocate(ring, c, "reclaim")
    <3>1. "reclaim" \in Placing
      BY DEF Placing
    <3> HIDE DEF c
    <3>2. c.publish = ~model'.partial /\ model'.partial \in BOOLEAN
      BY <2>1, <2>3
    <3> QED
      BY <1>r, <1>p, <2>1, <2>2, <2>3, <2>4, <3>1, <3>2, AllocatePub DEF t, n
  <2>5. CASE Fail
    BY <2>2, <2>3, <2>5, FailPub
  <2> QED
    BY <1>2, <2>4, <2>5 DEF Request
<1>3. CASE Reclaim \/ WaitForOldest
  <2>1. /\ pc \in Placing
        /\ Allocate(Reclaimed(ring), call, "grow") \/ Allocate(Reclaimed(ring), call, "wait")
        /\ UNCHANGED <<model, handed, snapshot>>
    BY <1>3 DEF Reclaim, WaitForOldest, Placing
  <2>2. /\ DOMAIN Reclaimed(ring) = RingFields /\ Reclaimed(ring).copies = ring.copies
        /\ Reclaimed(ring).publications = ring.publications
        /\ Reclaimed(ring).toPublish = ring.toPublish
    BY <1>r, ReclaimedFields
  <2>3. Destined(Reclaimed(ring), model.token, model.queued)
    BY <1>p, <2>2, SameDestined DEF t, n
  <2>4. "grow" \in Placing /\ "wait" \in Placing
    BY DEF Placing
  <2> QED
    BY <1>c, <1>d, <1>i, <1>p, <2>1, <2>2, <2>3, <2>4, AllocatePub
<1>4. CASE Grow
  <2>1. /\ pc \in Placing /\ Allocate(Grown(ring), call, "grow")
        /\ UNCHANGED <<model, handed, snapshot>> /\ "grow" \in Placing
    BY <1>4 DEF Grow, Placing
  <2>2. DOMAIN BatchSubmitted(ring) = RingFields
    BY <1>r, BatchSubmittedRing DEF RingInv
  <2>3. /\ DOMAIN Grown(ring) = RingFields
        /\ Grown(ring).copies = BatchSubmitted(ring).copies
        /\ Grown(ring).publications = BatchSubmitted(ring).publications
        /\ Grown(ring).toPublish = BatchSubmitted(ring).toPublish
    BY <1>r, <2>2, GrownFields
  <2>4. /\ Destined(BatchSubmitted(ring), t, n)
        /\ \A c \in BatchSubmitted(ring).copies : \E d \in ring.copies :
              c.cluster = d.cluster /\ c.generation = d.generation
    BY <1>r, <1>p, BatchSubmittedPub
  <2>5. Destined(Grown(ring), model.token, model.queued)
    BY <1>p, <2>3, <2>4, SameDestined DEF t, n
  <2> QED
    BY <1>c, <1>d, <1>i, <1>p, <2>1, <2>3, <2>4, <2>5, AllocatePub
<1>5. CASE StopGrowing
  <2>1. /\ pc = "grow" /\ pc' = "wait" /\ ring' = BatchSubmitted(ring) /\ pc \in Placing
        /\ UNCHANGED <<call, model, handed, snapshot>>
    BY <1>5 DEF StopGrowing, Placing
  <2>2. /\ Destined(BatchSubmitted(ring), t, n)
        /\ \A c \in BatchSubmitted(ring).copies : \E d \in ring.copies :
              c.cluster = d.cluster /\ c.generation = d.generation
    BY <1>r, <1>p, BatchSubmittedPub
  <2> QED
    BY <1>c, <1>p, <2>1, <2>2, SamePub DEF t, n
<1>6. CASE Backpressured \/ BeginBatchFails \/ Cancel
  <2>1. Fail /\ pc # "idle" /\ UNCHANGED <<model, handed, snapshot>>
    BY <1>6 DEF Backpressured, BeginBatchFails, Cancel
  <2> QED
    BY <1>p, <2>1, FailPub
<1>7. CASE Record
  <2>1. /\ pc = "begin" /\ pc' = "queue"
        /\ ring' = Recorded(ring, call) /\ UNCHANGED <<call, handed, snapshot>>
        /\ model' = [model EXCEPT !.copies = @ + 1,
                                  !.queued = IF model.partial THEN @ ELSE @ + 1]
    BY <1>7 DEF Record
  <2>2. /\ DOMAIN model' = ModelFields /\ model'.partial = model.partial
        /\ model'.token = model.token /\ model'.generation = model.generation
        /\ model'.queued = IF model.partial THEN model.queued ELSE model.queued + 1
    BY <1>p, <2>1 DEF ModelFields
  <2>3. call.publish = ~model.partial /\ call.publish \in BOOLEAN /\ call.size \in Nat \ {0}
    BY <1>c, <1>p, <2>1 DEF Placing, IInv, CallInv
  <2>4. Destined(Recorded(ring, call), model.token,
                 IF call.publish THEN model.queued + 1 ELSE model.queued)
    BY <1>r, <1>p, <2>1, <2>3, RecordedDestined DEF t, n
  <2>5. Destined(ring', model'.token, model'.queued)
    BY <2>1, <2>2, <2>3, <2>4
  <2> DEFINE s == WithCopy(ring, call)
             new == NewCopy(ring, call)
  <2>6. /\ ring' = IF s.bytes >= MaxBatchBytes THEN Flushed(s) ELSE s
        /\ s.copies = ring.copies \cup {new}
        /\ RingInv(s, completed)
    <3>1. ring' = IF s.bytes >= MaxBatchBytes THEN Flushed(s) ELSE s
      BY <1>r, <2>1, RecordedFields
    <3>2. s.copies = ring.copies \cup {new}
      BY <1>r DEF WithCopy, RingFields
    <3>3. RingInv(s, completed)
      BY <1>r, <2>1, <2>3, WithCopyRing
    <3> QED
      BY <3>1, <3>2, <3>3
  <2>7. new.cluster = model.queued + 1 /\ new.generation = model.token
    BY DEF NewCopy
  <2> HIDE DEF s, new
  <2>8. ASSUME NEW c \in ring'.copies
        PROVE  \E d \in ring.copies \cup {new} :
                  c.cluster = d.cluster /\ c.generation = d.generation
    BY <2>6, <2>8, FlushedCopies
  <2>9. ASSUME NEW c \in ring'.copies, c.generation = model'.token
        PROVE  InFlight(c)'
    <3>1. PICK d \in ring.copies \cup {new} :
                  c.cluster = d.cluster /\ c.generation = d.generation
      BY <2>8
    <3>2. CASE d = new
      <4>1. c.cluster = model.queued + 1
        BY <2>7, <3>1, <3>2
      <4>2. c.cluster \in Clusters => snapshot[c.cluster] # model.token
        BY <1>p, <2>1, <4>1 DEF PubInv, n
      <4> QED
        BY <1>p, <2>1, <2>2, <4>1, <4>2 DEF InFlight, n
    <3>3. CASE d \in ring.copies
      <4>1. InFlight(d)
        BY <2>1, <2>2, <2>9, <3>1, <3>3 DEF PubInv
      <4> QED
        BY <1>p, <2>1, <2>2, <3>1, <4>1 DEF InFlight, n
    <3> QED
      BY <3>2, <3>3
  <2>10. \A cl \in Clusters : snapshot'[cl] = model'.token => cl <= model'.queued
    BY <1>p, <2>1, <2>2 DEF PubInv, Clusters, n
  <2> QED
    BY <1>i, <1>p, <2>1, <2>2, <2>5, <2>9, <2>10 DEF PubInv, n
<1>8. CASE FinishQueueing
  <2>1. /\ pc = "queue" /\ pc' = "poll" /\ ring' = Flushed(ring) /\ ~model.partial
        /\ UNCHANGED <<call, model, handed, snapshot>>
    BY <1>8 DEF FinishQueueing, FlushedAtEnd
  <2>2. Destined(ring', t, n) /\ ~ring'.open
    BY <1>r, <1>p, <2>1, FlushedDestined, FlushedRing
  <2>3. \A c \in ring'.copies : \E d \in ring.copies :
              c.cluster = d.cluster /\ c.generation = d.generation
    BY <1>r, <2>1, FlushedCopies
  <2> QED
    BY <1>i, <1>p, <2>1, <2>2, <2>3, SamePub DEF t, n
<1>9. CASE Poll
  <2> DEFINE s == [ring EXCEPT !.publications = Waiting(@)]
  <2>1. /\ pc = "poll" /\ pc' \in {"idle", "poll"} /\ ring' = Reclaimed(s)
        /\ snapshot' = [c \in Clusters |->
                         IF c \in Promoted THEN model.generation ELSE snapshot[c]]
        /\ handed' \in {model.token, handed}
        /\ UNCHANGED <<call, model>>
    BY <1>9 DEF Poll
  <2>2. /\ DOMAIN s = RingFields /\ s.publications = Waiting(ring.publications)
        /\ s.toPublish = ring.toPublish /\ s.open = ring.open /\ s.copies = ring.copies
    BY <1>r DEF RingFields
  <2> HIDE DEF s
  <2>3. /\ ring'.publications = Waiting(ring.publications)
        /\ ring'.toPublish = ring.toPublish /\ ring'.open = ring.open
        /\ ring'.copies = ring.copies
    BY <2>1, <2>2, ReclaimedFields
  <2>4. /\ Waiting(ring.publications) \in Seq(Publications)
        /\ Range(Waiting(ring.publications)) \subseteq Range(ring.publications)
    BY <1>p, RangeOfQueues, QueueSplits DEF Destined
  <2>5. Destined(ring', model'.token, model'.queued)
    BY <1>p, <2>1, <2>3, <2>4 DEF Destined, t, n
  <2>6. model.generation = model.token
    BY <2>1 DEF PubInv
  <2>7. /\ Promoted \subseteq 1 .. model.queued
        /\ \A c \in ring.copies : c.generation = model.token => c.cluster \notin Promoted
    BY <2>1, PromotedAreCopied
  <2>8. \A cl \in Clusters : snapshot'[cl] = model'.token => cl <= model'.queued
    <3>1. ASSUME NEW cl \in Clusters, snapshot'[cl] = model'.token
          PROVE  cl <= model'.queued
      <4>1. CASE cl \in Promoted
        BY <1>p, <2>1, <2>7, <4>1 DEF n
      <4>2. CASE cl \notin Promoted
        BY <2>1, <3>1, <4>2 DEF PubInv
      <4> QED
        BY <4>1, <4>2
    <3> QED
      BY <3>1
  <2>9. ASSUME NEW c \in ring'.copies, c.generation = model'.token
        PROVE  InFlight(c)'
    <3>1. InFlight(c) /\ c.cluster \notin Promoted
      BY <2>1, <2>3, <2>7, <2>9 DEF PubInv
    <3>2. c.cluster <= model.queued
      BY <2>1, <3>1 DEF InFlight
    <3> QED
      BY <2>1, <3>1, <3>2 DEF InFlight
  <2>10. snapshot' \in [Clusters -> 0 .. model'.generation]
    BY <2>1 DEF PubInv
  <2>11. handed' \in 0 .. model'.token
    BY <2>1 DEF PubInv
  <2>12. ~ring'.open
    BY <2>1, <2>3 DEF PubInv
  <2> QED
    BY <1>i, <2>1, <2>5, <2>6, <2>8, <2>9, <2>10, <2>11, <2>12 DEF PubInv
<1>10. CASE GiveUp
  <2>1. /\ pc = "poll" /\ pc' = "clear" /\ ring' = Signalled(Flushed(ring))
        /\ UNCHANGED <<call, model, handed, snapshot>> /\ pc' \notin Placing
    BY <1>10 DEF GiveUp, Placing
  <2>2. /\ Destined(Flushed(ring), t, n) /\ ~Flushed(ring).open
        /\ DOMAIN Flushed(ring) = RingFields
    BY <1>r, <1>p, FlushedDestined, FlushedRing, FlushedFields
  <2>3. /\ ring'.publications = Flushed(ring).publications
        /\ ring'.toPublish = Flushed(ring).toPublish
        /\ ring'.copies = Flushed(ring).copies /\ ring'.open = Flushed(ring).open
    BY <2>1, <2>2, SignalledFields
  <2>4. Destined(ring', t, n)
    BY <1>p, <2>2, <2>3, SameDestined
  <2>5. \A c \in ring'.copies : \E d \in ring.copies :
              c.cluster = d.cluster /\ c.generation = d.generation
    BY <1>r, <2>3, FlushedCopies
  <2> QED
    BY <1>p, <2>1, <2>2, <2>3, <2>4, <2>5, SamePub DEF t, n
<1>11. CASE ClearModel \/ Drained
  <2>1. /\ pc \in {"clear", "drain"} /\ pc' = "idle" /\ ring' = Reclaimed(ring)
        /\ model' = model \/ model' = [model EXCEPT !.generation = @ + 1]
        /\ UNCHANGED <<call, handed, snapshot>>
    BY <1>11 DEF ClearModel, Drained
  <2>2. /\ DOMAIN model' = ModelFields /\ model'.partial = model.partial
        /\ model'.token = model.token /\ model'.queued = model.queued
        /\ model'.generation \in Nat /\ model.generation <= model'.generation
    BY <1>p, <2>1 DEF ModelFields, PubInv
  <2>3. /\ ring'.publications = ring.publications /\ ring'.toPublish = ring.toPublish
        /\ ring'.copies = ring.copies /\ ring'.open = ring.open
    BY <1>r, <2>1, ReclaimedFields
  <2>4. Destined(ring', t, n)
    BY <1>p, <2>3, SameDestined
  <2>5. snapshot' \in [Clusters -> 0 .. model'.generation] /\ ~ring'.open
    BY <2>1, <2>2, <2>3 DEF PubInv
  <2>6. model'.token <= model'.generation
    BY <2>2 DEF PubInv
  <2> QED
    BY <1>i, <1>p, <2>1, <2>2, <2>4, <2>5, <2>6 DEF PubInv, t, n
<1>12. CASE GpuCompletes
  <2>1. /\ ring' = [ring EXCEPT !.copies = {c \in @ : c.fence # completed + 1}]
        /\ UNCHANGED <<pc, call, model, handed, snapshot>>
    BY <1>12 DEF GpuCompletes
  <2>2. /\ ring'.publications = ring.publications /\ ring'.toPublish = ring.toPublish
        /\ ring'.open = ring.open /\ ring'.copies \subseteq ring.copies
    BY <1>r, <2>1 DEF RingFields
  <2>3. Destined(ring', model'.token, model'.queued)
    BY <1>p, <2>1, <2>2, SameDestined DEF t, n
  <2> QED
    BY <2>1, <2>2, <2>3 DEF PubInv, InFlight
<1>13. CASE UNCHANGED vars
  BY <1>13 DEF vars, PubInv, InFlight
<1> QED
  BY <1>1, <1>2, <1>3, <1>4, <1>5, <1>6, <1>7, <1>8, <1>9, <1>10, <1>11, <1>12,
     <1>13 DEF Next, Upload, Finished

(* Publication is in order in every state.                                  *)
THEOREM PublicationInvariant == Spec => []PubInv
<1>1. SpaceInv /\ IInv /\ PubInv /\ [Next]_vars => PubInv'
  BY PubNext
<1> QED
  BY <1>1, PubInit, LaneInvariant, SpaceInvariant, PTL DEF Spec

(* As many clusters ready as are queued are all of them.                    *)
LEMMA AllOfThem ==
  ASSUME NEW n \in Nat, NEW R \in SUBSET (1 .. n), Cardinality(R) >= n
  PROVE  R = 1 .. n
<1>1. IsFiniteSet(1 .. n) /\ Cardinality(1 .. n) = n
  BY FS_Interval
<1>2. /\ IsFiniteSet(R) /\ Cardinality(R) <= Cardinality(1 .. n)
      /\ Cardinality(1 .. n) = Cardinality(R) => R = 1 .. n
  BY <1>1, FS_Subset
<1>3. Cardinality(R) \in Nat
  BY <1>2, FS_CardinalityType
<1> QED
  BY <1>1, <1>2, <1>3

(* When every cluster is ready the GPU has no copy of the model left.       *)
LEMMA WholeIsCopied ==
  ASSUME IInv, PubInv, Poll, pc' = "idle"
  PROVE  handed' = model.token /\ \A c \in ring.copies : c.generation # model.token
<1> DEFINE R == {cl \in Clusters : snapshot'[cl] = model.token}
<1>1. /\ pc = "poll"
      /\ snapshot' = [c \in Clusters |->
                         IF c \in Promoted THEN model.generation ELSE snapshot[c]]
      /\ Cardinality(R) >= model.queued /\ handed' = model.token
  BY DEF Poll, AllReady
<1>2. model.generation = model.token /\ model.queued \in Nat
  BY <1>1 DEF PubInv
<1>3. /\ Promoted \subseteq 1 .. model.queued
      /\ \A c \in ring.copies : c.generation = model.token => c.cluster \notin Promoted
  BY <1>1, PromotedAreCopied
<1>4. R \subseteq 1 .. model.queued
  <2>1. ASSUME NEW cl \in R PROVE cl \in 1 .. model.queued
    <3>1. CASE cl \in Promoted
      BY <1>3, <3>1
    <3>2. CASE cl \notin Promoted
      BY <1>1, <1>2, <3>2 DEF PubInv, Clusters
    <3> QED
      BY <3>1, <3>2
  <2> QED
    BY <2>1
<1>5. R = 1 .. model.queued
  <2> HIDE DEF R
  <2> QED
    BY <1>1, <1>2, <1>4, AllOfThem
<1>6. ASSUME NEW c \in ring.copies, c.generation = model.token PROVE FALSE
  <2>1. InFlight(c) /\ c.cluster <= model.queued
    BY <1>1, <1>6 DEF PubInv, InFlight
  <2>2. c.cluster \in R
    BY <1>2, <1>5, <2>1 DEF InFlight
  <2>3. c.cluster \in Clusters /\ snapshot'[c.cluster] = snapshot[c.cluster]
    BY <1>1, <1>3, <1>6, <2>2
  <2> QED
    BY <2>1, <2>2, <2>3 DEF InFlight
<1> QED
  BY <1>1, <1>6

(* A model reaches the render thread only when the GPU has executed every   *)
(* copy recorded for it, however its publications and the batches of other  *)
(* models interleave (PollUploads, DrainCompletedPublications).             *)
THEOREM HandedModelsAreCopied == Spec => ModelIsCopied
<1>1. ASSUME IInv, PubInv, [Next]_vars
      PROVE  [handed' # handed => \A c \in ring.copies : c.generation # handed']_vars
  <2>1. CASE Poll
    <3>1. handed' # handed => pc' = "idle"
      BY <2>1 DEF Poll
    <3> QED
      BY <1>1, <2>1, <3>1, WholeIsCopied
  <2>2. CASE ~Poll
    BY <1>1, <2>2 DEF Next, Upload, Finished, vars, BeginUploadModel, Request, Reclaim, Grow,
       StopGrowing, WaitForOldest, Backpressured, Record, BeginBatchFails, Cancel,
       FinishQueueing, GiveUp, ClearModel, Drained, GpuCompletes
  <2> QED
    BY <2>1, <2>2
<1> QED
  BY <1>1, LaneInvariant, PublicationInvariant, PTL DEF Spec, ModelIsCopied

-----------------------------------------------------------------------------
(* The destinations of the copies.                                          *)

\* The destination of a copy exists: it belongs to the model being uploaded,
\* or to one that retired behind its fence.
Owned(c) ==
    \/ undrained
    \/ c.generation = model.token /\ pc \notin {"idle", "drain"}
    \/ \E m \in retiredModels :
          m.generation = c.generation /\ c.fence # 0 /\ c.fence <= m.fence

OwnInv ==
    /\ undrained \in BOOLEAN
    /\ \A m \in retiredModels : m.fence \in Nat
    /\ \A c \in ring.copies : Owned(c)

\* The copy c of one ring is d of another, with its fence if it had one.
Follows(c, d) == c.generation = d.generation /\ (d.fence # 0 => c.fence = d.fence)

(* While the model is being uploaded nothing it needs is released.          *)
LEMMA SameOwned ==
  ASSUME OwnInv, UNCHANGED <<retiredModels, undrained>>,
         pc # "idle" => model'.token = model.token, pc' \notin {"idle", "drain"},
         \A c \in ring'.copies : \E d \in ring.copies : Follows(c, d)
  PROVE  OwnInv'
<1>1. ASSUME NEW c \in ring'.copies PROVE Owned(c)'
  <2>1. PICK d \in ring.copies : Follows(c, d)
    OBVIOUS
  <2>2. Owned(d)
    BY <2>1 DEF OwnInv
  <2> QED
    BY <2>1, <2>2 DEF Owned, Follows
<1> QED
  BY <1>1 DEF OwnInv

(* Reclaiming retired models releases only what the GPU has finished with.  *)
LEMMA ReclaimedOwned ==
  ASSUME IInv, OwnInv, ReclaimModels, UNCHANGED <<undrained, model>>,
         ring'.copies = ring.copies,
         \A c \in ring.copies :
            c.generation = model.token /\ pc \notin {"idle", "drain"} => pc' \notin {"idle", "drain"}
  PROVE  OwnInv'
<1>1. ASSUME NEW c \in ring'.copies PROVE Owned(c)'
  <2>1. Owned(c) /\ (c.fence # 0 => completed < c.fence)
    BY DEF OwnInv, IInv, RingInv, CopyFence
  <2>2. ASSUME NEW m \in retiredModels, c.fence # 0, c.fence <= m.fence
        PROVE  m \in retiredModels'
    <3>1. m.fence \in Nat /\ c.fence \in Nat /\ completed \in Nat
      BY DEF OwnInv, IInv, RingInv, CopyFence, Counters
    <3> QED
      BY <2>1, <2>2, <3>1 DEF ReclaimModels
  <2> QED
    BY <2>1, <2>2 DEF Owned
<1>2. \A m \in retiredModels' : m.fence \in Nat
  BY DEF ReclaimModels, OwnInv
<1> QED
  BY <1>1, <1>2 DEF OwnInv

(* Submitting, allocating and signalling leave the copies what they are.    *)
LEMMA FlushedFollows ==
  ASSUME NEW r, NEW k, RingInv(r, k)
  PROVE  /\ \A c \in Flushed(r).copies : \E d \in r.copies : Follows(c, d)
         /\ \A c \in BatchSubmitted(r).copies : \E d \in r.copies : Follows(c, d)
<1>1. \A c \in Flushed(r).copies : \E d \in r.copies : Follows(c, d)
  BY FlushedCopies DEF Follows
<1>2. \A c \in r.copies : Follows(c, c)
  BY DEF Follows
<1> QED
  BY <1>1, <1>2 DEF BatchSubmitted

(* An attempt to allocate touches no copy.                                  *)
LEMMA AllocateFollows ==
  ASSUME NEW r, NEW c, NEW otherwise, Allocate(r, c, otherwise), DOMAIN r = RingFields
  PROVE  ring'.copies = r.copies /\ pc' \in {"begin", otherwise}
  BY AllocatedFields DEF Allocate

(* A model given up retires behind the last of its copies.                  *)
LEMMA FailOwned ==
  ASSUME IInv, PubInv, OwnInv, Fail, UNCHANGED <<undrained>>,
         model'.token = model.token
  PROVE  OwnInv'
<1> DEFINE f == Flushed(ring)
           g == Flushed(f)
           m == [generation |-> model.token, fence |-> f.last]
<1>1. /\ ring' = Signalled(g) /\ pc' = "drain"
      /\ retiredModels' = retiredModels \cup {m}
  BY DEF Fail, FlushedToRetire
<1>2. RingInv(f, completed) /\ RingInv(g, completed) /\ ~f.open
  BY FlushedRing DEF IInv
<1>3. g.copies = f.copies
  BY <1>2, FlushedFields DEF RingInv
<1>4. Signalled(g).copies = g.copies
  BY <1>2, SignalledFields DEF RingInv
<1>5. \A c \in f.copies : \E d \in ring.copies : Follows(c, d)
  BY FlushedFollows DEF IInv
<1>6. \A c \in f.copies : c.fence # 0 /\ c.fence <= f.last
  BY <1>2 DEF RingInv, CopyFence
<1>7. m.generation = model.token /\ m.fence = f.last /\ f.last \in Nat
  BY <1>2 DEF RingInv, Counters
<1> HIDE DEF f, g, m
<1>8. ASSUME NEW c \in ring'.copies PROVE Owned(c)'
  <2>1. c \in f.copies
    BY <1>1, <1>3, <1>4
  <2>2. PICK d \in ring.copies : Follows(c, d)
    BY <1>5, <2>1
  <2>3. Owned(d)
    BY <2>2 DEF OwnInv
  <2>4. CASE undrained
    BY <2>4 DEF Owned
  <2>5. CASE d.generation = model.token
    <3>1. m \in retiredModels' /\ m.generation = c.generation /\ c.fence # 0 /\ c.fence <= m.fence
      BY <1>1, <1>6, <1>7, <2>1, <2>2, <2>5 DEF Follows
    <3> QED
      BY <3>1 DEF Owned
  <2>6. CASE \E x \in retiredModels :
                x.generation = d.generation /\ d.fence # 0 /\ d.fence <= x.fence
    BY <1>1, <2>2, <2>6 DEF Owned, Follows
  <2> QED
    BY <2>3, <2>4, <2>5, <2>6 DEF Owned
<1>9. \A x \in retiredModels' : x.fence \in Nat
  BY <1>1, <1>7 DEF OwnInv
<1> QED
  BY <1>8, <1>9 DEF OwnInv

(* Initially there is neither a copy nor a retired model.                   *)
LEMMA OwnInit == Init => OwnInv
<1> SUFFICES ASSUME Init PROVE OwnInv
  OBVIOUS
<1>1. ring.copies = {} /\ retiredModels = {}
  BY DEF Init
<1>2. undrained \in BOOLEAN
  BY DEF Init
<1> QED
  BY <1>1, <1>2 DEF OwnInv

(* No step releases the destination of a copy still to be executed, but for *)
(* a ClearModel that goes on although its wait timed out.                   *)
LEMMA OwnNext == IInv /\ PubInv /\ OwnInv /\ [Next]_vars => OwnInv'
<1> SUFFICES ASSUME IInv, PubInv, OwnInv, [Next]_vars PROVE OwnInv'
  OBVIOUS
<1>r. RingInv(ring, completed) /\ DOMAIN ring = RingFields
  BY DEF IInv, RingInv
<1>m. DOMAIN model = ModelFields
  BY DEF PubInv
<1>f. \A c \in ring.copies : Follows(c, c)
  BY DEF Follows
<1>1. CASE BeginUploadModel
  <2>1. pc = "idle" /\ pc' = "queue" /\ UNCHANGED <<ring, retiredModels, undrained>>
    BY <1>1 DEF BeginUploadModel
  <2> QED
    BY <1>f, <2>1, SameOwned
<1>2. ASSUME NEW size \in Sizes, NEW align \in {1, Alignment}, NEW last \in BOOLEAN,
             Request(size, align, last)
      PROVE  OwnInv'
  <2> DEFINE c == [size |-> size, align |-> align, publish |-> Publishes(last),
                   at |-> 0, occupied |-> 0]
  <2>1. /\ pc = "queue" /\ UNCHANGED undrained
        /\ model' = [model EXCEPT !.partial = ~last]
    BY <1>2 DEF Request
  <2>2. model'.token = model.token
    BY <1>m, <2>1 DEF ModelFields
  <2>3. CASE Allocate(ring, c, "reclaim") /\ UNCHANGED retiredModels
    <3> HIDE DEF c
    <3>1. ring'.copies = ring.copies /\ pc' \in {"begin", "reclaim"}
      BY <1>r, <2>3, AllocateFollows
    <3> QED
      BY <1>f, <2>1, <2>2, <2>3, <3>1, SameOwned
  <2>4. CASE Fail
    BY <2>1, <2>2, <2>4, FailOwned
  <2> QED
    BY <1>2, <2>3, <2>4 DEF Request
<1>3. CASE Reclaim \/ WaitForOldest
  <2>1. /\ UNCHANGED <<model, retiredModels, undrained>>
        /\ \/ Allocate(Reclaimed(ring), call, "grow")
           \/ Allocate(Reclaimed(ring), call, "wait")
    BY <1>3 DEF Reclaim, WaitForOldest
  <2>2. DOMAIN Reclaimed(ring) = RingFields /\ Reclaimed(ring).copies = ring.copies
    BY <1>r, ReclaimedFields
  <2>3. ring'.copies = ring.copies /\ pc' \in {"begin", "grow", "wait"}
    BY <2>1, <2>2, AllocateFollows
  <2> QED
    BY <1>f, <2>1, <2>3, SameOwned
<1>4. CASE Grow
  <2>1. /\ UNCHANGED <<model, retiredModels, undrained>>
        /\ Allocate(Grown(ring), call, "grow")
    BY <1>4 DEF Grow
  <2>2. DOMAIN BatchSubmitted(ring) = RingFields
    BY <1>r, BatchSubmittedRing DEF RingInv
  <2>3. DOMAIN Grown(ring) = RingFields /\ Grown(ring).copies = BatchSubmitted(ring).copies
    BY <1>r, <2>2, GrownFields
  <2>4. ring'.copies = BatchSubmitted(ring).copies /\ pc' \in {"begin", "grow"}
    BY <2>1, <2>3, AllocateFollows
  <2>5. \A c \in ring'.copies : \E d \in ring.copies : Follows(c, d)
    BY <1>r, <2>4, FlushedFollows
  <2> QED
    BY <2>1, <2>4, <2>5, SameOwned
<1>5. CASE StopGrowing
  <2>1. /\ UNCHANGED <<model, retiredModels, undrained>> /\ pc' = "wait"
        /\ ring' = BatchSubmitted(ring)
    BY <1>5 DEF StopGrowing
  <2>2. \A c \in ring'.copies : \E d \in ring.copies : Follows(c, d)
    BY <1>r, <2>1, FlushedFollows
  <2> QED
    BY <2>1, <2>2, SameOwned
<1>6. CASE Backpressured \/ BeginBatchFails \/ Cancel
  <2>1. Fail /\ UNCHANGED <<undrained, model>>
    BY <1>6 DEF Backpressured, BeginBatchFails, Cancel
  <2> QED
    BY <2>1, FailOwned
<1>7. CASE Record
  <2>1. /\ pc = "begin" /\ pc' = "queue"
        /\ ring' = Recorded(ring, call) /\ UNCHANGED <<retiredModels, undrained>>
        /\ model' = [model EXCEPT !.copies = @ + 1,
                                  !.queued = IF model.partial THEN @ ELSE @ + 1]
    BY <1>7 DEF Record
  <2>2. model'.token = model.token
    BY <1>m, <2>1 DEF ModelFields
  <2>3. call.size \in Nat \ {0}
    BY <2>1 DEF IInv, CallInv
  <2> DEFINE s == WithCopy(ring, call)
             new == NewCopy(ring, call)
  <2>4. /\ ring' = IF s.bytes >= MaxBatchBytes THEN Flushed(s) ELSE s
        /\ s.copies = ring.copies \cup {new}
        /\ RingInv(s, completed)
    <3>1. ring' = IF s.bytes >= MaxBatchBytes THEN Flushed(s) ELSE s
      BY <1>r, <2>1, RecordedFields
    <3>2. s.copies = ring.copies \cup {new}
      BY <1>r DEF WithCopy, RingFields
    <3>3. RingInv(s, completed)
      BY <1>r, <2>1, <2>3, WithCopyRing
    <3> QED
      BY <3>1, <3>2, <3>3
  <2>5. new.generation = model.token
    BY DEF NewCopy
  <2> HIDE DEF s, new
  <2>6. ASSUME NEW c \in ring'.copies PROVE Owned(c)'
    <3>1. PICK d \in s.copies : Follows(c, d)
      BY <2>4, FlushedFollows DEF Follows
    <3>2. CASE d = new
      BY <2>1, <2>2, <2>5, <3>1, <3>2 DEF Owned, Follows
    <3>3. CASE d \in ring.copies
      <4>1. Owned(d)
        BY <3>3 DEF OwnInv
      <4> QED
        BY <2>1, <2>2, <3>1, <4>1 DEF Owned, Follows
    <3> QED
      BY <2>4, <3>2, <3>3
  <2> QED
    BY <2>1, <2>6 DEF OwnInv
<1>8. CASE FinishQueueing
  <2>1. /\ pc' = "poll" /\ ring' = Flushed(ring)
        /\ UNCHANGED <<model, retiredModels, undrained>>
    BY <1>8 DEF FinishQueueing, FlushedAtEnd
  <2>2. \A c \in ring'.copies : \E d \in ring.copies : Follows(c, d)
    BY <1>r, <2>1, FlushedFollows
  <2> QED
    BY <2>1, <2>2, SameOwned
<1>9. CASE Poll
  <2> DEFINE s == [ring EXCEPT !.publications = Waiting(@)]
  <2>1. /\ pc = "poll" /\ pc' \in {"idle", "poll"} /\ ring' = Reclaimed(s)
        /\ ReclaimModels /\ UNCHANGED <<model, undrained>>
    BY <1>9 DEF Poll
  <2>2. DOMAIN s = RingFields /\ s.copies = ring.copies
    BY <1>r DEF RingFields
  <2> HIDE DEF s
  <2>3. ring'.copies = ring.copies
    BY <2>1, <2>2, ReclaimedFields
  <2>4. pc' = "idle" => \A c \in ring.copies : c.generation # model.token
    BY <1>9, WholeIsCopied
  <2> QED
    BY <2>1, <2>3, <2>4, ReclaimedOwned
<1>10. CASE GiveUp
  <2>1. /\ pc' = "clear" /\ ring' = Signalled(Flushed(ring))
        /\ UNCHANGED <<model, retiredModels, undrained>>
    BY <1>10 DEF GiveUp
  <2>2. DOMAIN Flushed(ring) = RingFields
    BY <1>r, FlushedFields
  <2>3. ring'.copies = Flushed(ring).copies
    BY <2>1, <2>2, SignalledFields
  <2>4. \A c \in ring'.copies : \E d \in ring.copies : Follows(c, d)
    BY <1>r, <2>3, FlushedFollows
  <2> QED
    BY <2>1, <2>4, SameOwned
<1>11. CASE ClearModel
  <2>1. /\ pc = "clear" /\ ring' = Reclaimed(ring) /\ retiredModels' = {}
        /\ undrained' = (undrained \/ completed < ring.signalled)
        /\ completed = ring.signalled \/ completed < ring.signalled
    BY <1>11, <1>r DEF ClearModel, RingInv, Counters
  <2>2. ring'.copies = ring.copies
    BY <1>r, <2>1, ReclaimedFields
  <2>3. CASE completed < ring.signalled
    BY <2>1, <2>3 DEF OwnInv, Owned
  <2>4. CASE completed = ring.signalled
    <3>1. ~ring.open
      BY <2>1 DEF PubInv
    <3>2. ring.copies = {}
      BY <1>r, <2>4, <3>1 DEF RingInv, CopyFence, Counters
    <3>3. undrained' \in BOOLEAN
      BY <2>1 DEF OwnInv
    <3> QED
      BY <2>1, <2>2, <3>2, <3>3 DEF OwnInv
  <2> QED
    BY <2>1, <2>3, <2>4
<1>12. CASE Drained
  <2>1. /\ pc = "drain" /\ pc' = "idle" /\ ring' = Reclaimed(ring)
        /\ ReclaimModels /\ UNCHANGED <<model, undrained>>
    BY <1>12 DEF Drained
  <2>2. ring'.copies = ring.copies
    BY <1>r, <2>1, ReclaimedFields
  <2> QED
    BY <2>1, <2>2, ReclaimedOwned
<1>13. CASE GpuCompletes
  <2>1. /\ ring' = [ring EXCEPT !.copies = {c \in @ : c.fence # completed + 1}]
        /\ UNCHANGED <<pc, model, retiredModels, undrained>>
    BY <1>13 DEF GpuCompletes
  <2>2. ring'.copies \subseteq ring.copies
    BY <1>r, <2>1 DEF RingFields
  <2> QED
    BY <2>1, <2>2 DEF OwnInv, Owned
<1>14. CASE UNCHANGED vars
  BY <1>14 DEF vars, OwnInv, Owned
<1> QED
  BY <1>1, <1>2, <1>3, <1>4, <1>5, <1>6, <1>7, <1>8, <1>9, <1>10, <1>11, <1>12,
     <1>13, <1>14 DEF Next, Upload, Finished

(* Every destination is accounted for in every state.                       *)
THEOREM OwnershipInvariant == Spec => []OwnInv
<1>1. IInv /\ PubInv /\ OwnInv /\ [Next]_vars => OwnInv'
  BY OwnNext
<1> QED
  BY <1>1, OwnInit, LaneInvariant, PublicationInvariant, PTL DEF Spec

(* The destinations of a model that failed or was cancelled outlive its     *)
(* copies, through later models and reclaims, as long as ClearModel did not *)
(* go on behind a wait that timed out (RetireStagedResources).              *)
THEOREM DestinationsAreKept == Spec => []DestinationOutlivesCopies
<1>1. OwnInv => DestinationOutlivesCopies
  BY DEF OwnInv, Owned, DestinationOutlivesCopies, Alive
<1> QED
  BY <1>1, OwnershipInvariant, PTL

-----------------------------------------------------------------------------
(* The waits for the copy fence.                                            *)

EventType == [set : BOOLEAN, armed : SUBSET Nat]

\* No more faults than the bound, and the event stands for fence values.
WaitInv == faults \in 0 .. MaxFaults /\ event \in EventType

(* However a wait ends, it leaves the event in its type.                    *)
LEMMA WaitType ==
  ASSUME NEW v \in Nat, event \in EventType
  PROVE  Returns(v) \/ TimesOut(v) => event' \in EventType
<1>1. event.set \in BOOLEAN /\ Armed(v) \in SUBSET Nat
  BY DEF EventType, Armed
<1>2. [set |-> FALSE, armed |-> Armed(v)] \in EventType
  BY <1>1 DEF EventType
<1>3. [event EXCEPT !.armed = Armed(v)] \in EventType
  BY <1>1 DEF EventType
<1> QED
  BY <1>2, <1>3 DEF Returns, TimesOut

(* Every wait is for a value of the fence, whatever step waits.             *)
LEMMA WaitNext == IInv /\ SpaceInv /\ WaitInv /\ [Next]_vars => WaitInv'
<1> SUFFICES ASSUME IInv, SpaceInv, WaitInv, [Next]_vars PROVE WaitInv'
  OBVIOUS
<1>0. MaxFaults \in Nat
  BY RingAssumption
<1>1. faults' \in 0 .. MaxFaults
  <2>1. faults' = faults \/ Fault
    BY DEF Next, Upload, Finished, vars, BeginUploadModel, Request, Reclaim, Grow,
       StopGrowing, WaitForOldest, Backpressured, Record, BeginBatchFails, Cancel, Idled,
       FinishQueueing, Poll, GiveUp, ClearModel, Drained, GpuCompletes, TimesOut
  <2> QED
    BY <1>0, <2>1 DEF Fault, WaitInv
<1>2. /\ ring.last \in Nat /\ ring.signalled \in Nat /\ completed \in Nat
      /\ event \in EventType
  BY DEF IInv, RingInv, Counters, WaitInv
<1>3. ring.pending # <<>> => Head(ring.pending).fence \in Nat
  <2>1. ring.pending \in Seq(Entries)
    BY DEF SpaceInv, Space, Accounts
  <2>2. ring.pending # <<>> => Head(ring.pending) \in Entries
    BY <2>1, HeadTailProperties
  <2> QED
    BY <2>2 DEF Entries
<1>4. ASSUME WaitForOldest \/ Backpressured PROVE event' \in EventType
  BY <1>2, <1>3, <1>4, WaitType DEF WaitForOldest, Backpressured
<1>5. ASSUME Record \/ BeginBatchFails PROVE event' \in EventType
  BY <1>2, <1>5, WaitType DEF Record, BeginBatchFails
<1>6. ASSUME ClearModel \/ Drained PROVE event' \in EventType
  BY <1>2, <1>6, WaitType DEF ClearModel, Drained, Idled
<1>7. ASSUME GpuCompletes PROVE event' \in EventType
  <2>1. event.armed \ {completed'} \in SUBSET Nat
    BY <1>2 DEF EventType
  <2>2. [set |-> TRUE, armed |-> event.armed \ {completed'}] \in EventType
    BY <2>1 DEF EventType
  <2> QED
    BY <1>2, <1>7, <2>2 DEF GpuCompletes
<1>8. ASSUME UNCHANGED event PROVE event' \in EventType
  BY <1>2, <1>8
<1>9. \/ WaitForOldest \/ Backpressured \/ Record \/ BeginBatchFails \/ ClearModel
      \/ Drained \/ GpuCompletes \/ UNCHANGED event
  BY DEF Next, Upload, Finished, vars, BeginUploadModel, Request, Reclaim, Grow,
     StopGrowing, Cancel, FinishQueueing, Poll, GiveUp
<1> QED
  BY <1>1, <1>4, <1>5, <1>6, <1>7, <1>8, <1>9 DEF WaitInv

(* The event is well formed in every state.                                 *)
LEMMA WaitInvariant == Spec => []WaitInv
<1>1. Init => WaitInv
  BY RingAssumption DEF Init, WaitInv, EventType
<1>2. IInv /\ SpaceInv /\ WaitInv /\ [Next]_vars => WaitInv'
  BY WaitNext
<1> QED
  BY <1>1, <1>2, LaneInvariant, SpaceInvariant, PTL DEF Spec

\* While a batch is open the GPU has no copy of an earlier one to execute.
OneBatchAtATime == ring.open => \A c \in ring.copies : c.fence = 0

\* Before the first fault the event is neither set nor going to be.
BatchInv == faults = 0 => ~event.set /\ event.armed = {} /\ OneBatchAtATime

(* A ring that has closed its batch, or opens none and adds no copy.        *)
LEMMA SameBatch ==
  ASSUME BatchInv, faults' = 0 => faults = 0, UNCHANGED event,
         ~ring'.open \/ (ring'.open = ring.open /\ ring'.copies \subseteq ring.copies)
  PROVE  BatchInv'
  BY DEF BatchInv, OneBatchAtATime

(* No step opens a batch ahead of the GPU, nor sets the event, without one. *)
LEMMA BatchNext == IInv /\ WaitInv /\ BatchInv /\ [Next]_vars => BatchInv'
<1> SUFFICES ASSUME IInv, WaitInv, BatchInv, [Next]_vars PROVE BatchInv'
  OBVIOUS
<1>r. RingInv(ring, completed) /\ DOMAIN ring = RingFields
  BY DEF IInv, RingInv
<1>n. /\ ring.last \in Nat /\ completed \in Nat /\ faults \in Nat
      /\ \A c \in ring.copies : /\ c.fence \in Nat /\ (c.fence = 0 => ring.open)
                                /\ c.fence # 0 => completed < c.fence /\ c.fence <= ring.last
  BY <1>r, RingAssumption DEF RingInv, CopyFence, Counters, WaitInv
<1>f. Fault => faults' # 0
  BY <1>n DEF Fault
<1>1. ASSUME Fail PROVE ~ring'.open
  <2>1. RingInv(Flushed(ring), completed) /\ RingInv(Flushed(Flushed(ring)), completed)
    BY <1>r, FlushedRing
  <2>2. ~Flushed(Flushed(ring)).open
    BY <2>1, FlushedRing
  <2> QED
    BY <1>1, <2>1, <2>2, SignalledFields DEF Fail, FlushedToRetire, RingInv
<1>2. ASSUME NEW r, NEW c, NEW otherwise, Allocate(r, c, otherwise), DOMAIN r = RingFields
      PROVE  ring'.open = r.open /\ ring'.copies = r.copies
  BY <1>2, AllocatedFields DEF Allocate
<1>3. /\ DOMAIN Reclaimed(ring) = RingFields
      /\ Reclaimed(ring).open = ring.open /\ Reclaimed(ring).copies = ring.copies
  BY <1>r, ReclaimedFields
<1>4. RingInv(BatchSubmitted(ring), completed) /\ ~BatchSubmitted(ring).open
  BY <1>r, BatchSubmittedRing
<1>5. DOMAIN Flushed(ring) = RingFields /\ ~Flushed(ring).open
  BY <1>r, FlushedFields
<1>6. ASSUME TRUE, faults = 0, NEW v, Returns(v) PROVE UNCHANGED event /\ v <= completed
  BY <1>6 DEF BatchInv, Returns
<1>10. CASE BeginUploadModel
  BY <1>10, SameBatch DEF BeginUploadModel
<1>11. ASSUME NEW size \in Sizes, NEW align \in {1, Alignment}, NEW last \in BOOLEAN,
              Request(size, align, last)
       PROVE  BatchInv'
  <2> DEFINE c == [size |-> size, align |-> align, publish |-> Publishes(last),
                   at |-> 0, occupied |-> 0]
  <2>1. UNCHANGED <<event, faults>> /\ (Allocate(ring, c, "reclaim") \/ Fail)
    BY <1>11 DEF Request
  <2> HIDE DEF c
  <2>2. ~ring'.open \/ (ring'.open = ring.open /\ ring'.copies = ring.copies)
    BY <1>1, <1>2, <1>r, <2>1
  <2> QED
    BY <2>1, <2>2, SameBatch
<1>12. CASE Reclaim
  BY <1>2, <1>3, <1>12, SameBatch DEF Reclaim
<1>13. CASE Grow
  <2>1. DOMAIN Grown(ring) = RingFields /\ ~Grown(ring).open
    BY <1>4, <1>r, GrownFields DEF RingInv
  <2> QED
    BY <1>2, <1>13, <2>1, SameBatch DEF Grow
<1>14. CASE StopGrowing
  BY <1>4, <1>f, <1>14, SameBatch DEF StopGrowing
<1>15. CASE WaitForOldest
  <2>1. /\ Allocate(Reclaimed(ring), call, "wait") /\ UNCHANGED faults
        /\ Returns(Head(ring.pending).fence)
    BY <1>15 DEF WaitForOldest
  <2>2. ring'.open = ring.open /\ ring'.copies = ring.copies
    BY <1>2, <1>3, <2>1
  <2> QED
    BY <1>6, <2>1, <2>2 DEF BatchInv, OneBatchAtATime
<1>16. CASE Backpressured
  <2>1. Fail /\ (UNCHANGED <<event, faults>> \/ Fault)
    BY <1>16 DEF Backpressured, TimesOut
  <2> QED
    BY <1>1, <1>f, <2>1 DEF BatchInv, OneBatchAtATime
<1>17. CASE Record
  <2> DEFINE s == WithCopy(ring, call)
             new == NewCopy(ring, call)
  <2>1. /\ UNCHANGED faults /\ ring' = Recorded(ring, call)
        /\ (ring.open /\ UNCHANGED event) \/ (~ring.open /\ Returns(ring.last))
    BY <1>17 DEF Record
  <2>2. /\ ring' = IF s.bytes >= MaxBatchBytes THEN Flushed(s) ELSE s
        /\ DOMAIN s = RingFields /\ s.copies = ring.copies \cup {new}
    <3>1. ring' = IF s.bytes >= MaxBatchBytes THEN Flushed(s) ELSE s
      BY <2>1 DEF Recorded, WithCopy, NewCopy, NewPublication
    <3>2. DOMAIN s = RingFields /\ s.copies = ring.copies \cup {new}
      BY <1>r DEF WithCopy, RingFields
    <3> QED
      BY <3>1, <3>2
  <2>3. new.fence = 0
    BY DEF NewCopy
  <2> HIDE DEF s, new
  <2>4. ~ring'.open \/ ring'.copies = ring.copies \cup {new}
    BY <2>2, FlushedFields
  <2>5. ASSUME faults = 0 PROVE UNCHANGED event /\ \A c \in ring.copies : c.fence = 0
    <3>1. CASE ring.open
      <4>1. UNCHANGED event
        BY <2>1, <3>1
      <4>2. OneBatchAtATime
        BY <2>5 DEF BatchInv
      <4> QED
        BY <3>1, <4>1, <4>2 DEF OneBatchAtATime
    <3>2. CASE ~ring.open
      <4>1. UNCHANGED event /\ ring.last <= completed
        BY <1>6, <2>1, <2>5, <3>2
      <4>2. ASSUME NEW c \in ring.copies, c.fence # 0 PROVE FALSE
        <5>1. c.fence \in Nat /\ completed < c.fence /\ c.fence <= ring.last
          BY <1>n, <4>2
        <5>2. ring.last \in Nat /\ completed \in Nat
          BY <1>n
        <5> QED
          BY <4>1, <5>1, <5>2
      <4> QED
        BY <4>1, <4>2
    <3>3. ring.open \in BOOLEAN
      BY <1>r DEF RingInv
    <3> QED
      BY <3>1, <3>2, <3>3
  <2> QED
    BY <2>1, <2>3, <2>4, <2>5 DEF BatchInv, OneBatchAtATime
<1>18. CASE BeginBatchFails
  <2>1. Fault
    BY <1>18 DEF BeginBatchFails, TimesOut
  <2> QED
    BY <1>f, <2>1 DEF BatchInv
<1>19. CASE Cancel
  BY <1>1, <1>19, SameBatch DEF Cancel
<1>20. CASE FinishQueueing
  BY <1>5, <1>20, SameBatch DEF FinishQueueing, FlushedAtEnd
<1>21. CASE Poll
  <2> DEFINE s == [ring EXCEPT !.publications = Waiting(@)]
  <2>1. ring' = Reclaimed(s) /\ UNCHANGED <<event, faults>>
    BY <1>21 DEF Poll
  <2>2. DOMAIN s = RingFields /\ s.copies = ring.copies /\ s.open = ring.open
    BY <1>r DEF RingFields
  <2> HIDE DEF s
  <2>3. ring'.open = ring.open /\ ring'.copies = ring.copies
    BY <2>1, <2>2, ReclaimedFields
  <2> QED
    BY <2>1, <2>3, SameBatch
<1>22. CASE GiveUp
  BY <1>5, <1>22, SignalledFields, SameBatch DEF GiveUp
<1>23. CASE ClearModel \/ Drained
  <2>1. ring' = Reclaimed(ring) /\ Idled
    BY <1>23 DEF ClearModel, Drained
  <2>2. Fault \/ (UNCHANGED faults /\ Returns(ring.signalled))
    BY <2>1 DEF Idled, TimesOut
  <2> QED
    BY <1>3, <1>6, <1>f, <2>1, <2>2 DEF BatchInv, OneBatchAtATime
<1>24. CASE GpuCompletes
  <2>1. /\ UNCHANGED faults /\ (completed' \notin event.armed => UNCHANGED event)
        /\ ring' = [ring EXCEPT !.copies = {c \in @ : c.fence # completed + 1}]
    BY <1>24 DEF GpuCompletes
  <2>2. ring'.open = ring.open /\ ring'.copies \subseteq ring.copies
    BY <1>r, <2>1 DEF RingFields
  <2> QED
    BY <2>1, <2>2 DEF BatchInv, OneBatchAtATime
<1>25. CASE UNCHANGED vars
  BY <1>25, SameBatch DEF vars
<1> QED
  BY <1>10, <1>11, <1>12, <1>13, <1>14, <1>15, <1>16, <1>17, <1>18, <1>19, <1>20, <1>21,
     <1>22, <1>23, <1>24, <1>25 DEF Next, Upload, Finished

(* As long as no wait has timed out and no call has failed, the thread opens *)
(* a batch, and resets the one command allocator, only when the GPU has      *)
(* executed every copy of the batches before (BeginBatch).  The condition is *)
(* needed: behind a wait that timed out the event fires late, and a later    *)
(* wait returns Signaled ahead of its value (WaitForValue).                  *)
THEOREM BatchesDoNotOverlap == Spec => [](faults = 0 => OneBatchAtATime)
<1>1. Init => BatchInv
  BY DEF Init, BatchInv, OneBatchAtATime
<1>2. IInv /\ WaitInv /\ BatchInv /\ [Next]_vars => BatchInv'
  BY BatchNext
<1>3. BatchInv => (faults = 0 => OneBatchAtATime)
  BY DEF BatchInv
<1> QED
  BY <1>1, <1>2, <1>3, LaneInvariant, WaitInvariant, PTL DEF Spec

(* The shape of the state: in particular the cursor stays in the buffer and *)
(* no more is charged than the buffer holds (TryAllocateInternal).          *)
THEOREM LaneTypes == Spec => []TypeOK
<1>1. IInv /\ SpaceInv /\ PubInv /\ OwnInv /\ WaitInv => TypeOK
  <2> SUFFICES ASSUME IInv, SpaceInv, PubInv, OwnInv, WaitInv PROVE TypeOK
    OBVIOUS
  <2>1. pc \in {"idle", "queue", "reclaim", "grow", "wait", "begin", "poll", "clear", "drain"}
    BY DEF SpaceInv, Placing
  <2>2. /\ ring.capacity \in InitialCapacity .. MaxCapacity
        /\ ring.offset \in 0 .. ring.capacity - 1 /\ lost \in Nat
    BY DEF SpaceInv, Space, Accounts
  <2>3. ring.used \in 0 .. ring.capacity
    <3>1. /\ ring.pending \in Seq(Entries) /\ ring.recorded \in Seq(Entries)
          /\ lost \in Nat /\ Given \in Nat
          /\ ring.used = Bytes(ring.pending) + Bytes(ring.recorded) + lost + Given
          /\ ring.used <= ring.capacity
      BY DEF SpaceInv, Space, Accounts
    <3>2. Bytes(ring.pending) \in Nat /\ Bytes(ring.recorded) \in Nat
      BY <3>1, BytesIsTotal
    <3>3. ring.capacity \in Nat
      BY <2>2, RingAssumption
    <3> QED
      BY <3>1, <3>2, <3>3
  <2>4. ring.last \in 0 .. ring.signalled /\ completed \in 0 .. ring.signalled
    BY DEF IInv, RingInv, Counters
  <2> QED
    BY <2>1, <2>2, <2>3, <2>4 DEF PubInv, OwnInv, WaitInv, EventType, TypeOK
<1> QED
  BY <1>1, LaneInvariant, WaitInvariant, SpaceInvariant, PublicationInvariant,
     OwnershipInvariant, PTL DEF Spec
=============================================================================
