------------------------- MODULE AtomicQueue_proofs -------------------------
(***************************************************************************)
(* Proofs about AtomicQueue for every ring size, every number of threads   *)
(* and every number of calls: the type invariant without conditions, and,  *)
(* where the queue can be relied on (Calm), the inductive invariant IInv   *)
(* and what follows from it.                                               *)
(***************************************************************************)
EXTENDS AtomicQueue, Integers, FiniteSetTheorems, SequenceTheorems, TLAPS

-----------------------------------------------------------------------------
(* Arithmetic of the slot numbers. *)

\* Dividing by the ring size (n = (e + 1) % buffer.size(), atomic_queue.h:59).
LEMMA DivMod ==
  ASSUME NEW k \in Nat
  PROVE  /\ k % Size \in Slots
         /\ k \div Size \in Nat
         /\ k = (Size * (k \div Size)) + (k % Size)
BY SizeAssumption DEF Slots

\* Quotient and remainder are unique.
LEMMA DivModUnique ==
  ASSUME NEW q \in Int, NEW r \in Slots, NEW p \in Int, NEW s \in Slots,
         Size * q + r = Size * p + s
  PROVE  q = p /\ r = s
<1>1. q = p
  <2>1. CASE q < p
    <3>1. Size * (p - q) >= Size BY <2>1, SizeAssumption
    <3>2. QED BY <3>1, SizeAssumption DEF Slots
  <2>2. CASE q > p
    <3>1. Size * (q - p) >= Size BY <2>2, SizeAssumption
    <3>2. QED BY <3>1, SizeAssumption DEF Slots
  <2>3. QED BY <2>1, <2>2
<1>2. QED BY <1>1, SizeAssumption DEF Slots

\* Two positions less than a lap apart have different slots.
LEMMA ModDistinct ==
  ASSUME NEW j \in Nat, NEW k \in Nat, j < k, k < j + Size
  PROVE  j % Size # k % Size
<1> SUFFICES ASSUME j % Size = k % Size PROVE FALSE
  OBVIOUS
<1>1. k - j = Size * ((k \div Size) - (j \div Size))
  BY DivMod, SizeAssumption
<1>2. QED BY <1>1, SizeAssumption, DivMod

\* Succ steps the counter that the slot number stands for.
LEMMA ModSucc ==
  ASSUME NEW k \in Nat
  PROVE  Succ(k % Size) = (k + 1) % Size
<1> DEFINE r == k % Size
           q == k \div Size
           s == (k + 1) % Size
           p == (k + 1) \div Size
<1>1. r \in Slots /\ q \in Nat /\ k = Size * q + r
  BY DivMod
<1>2. s \in Slots /\ p \in Nat /\ k + 1 = Size * p + s
  BY DivMod
<1> HIDE DEF r, q, s, p
<1>3. CASE r + 1 < Size
  <2>1. (r + 1) % Size = r + 1
    BY <1>1, <1>3, SizeAssumption DEF Slots
  <2>2. r + 1 \in Slots
    BY <1>1, <1>3, SizeAssumption DEF Slots
  <2>3. s = r + 1
    BY <1>1, <1>2, <2>2, DivModUnique, SizeAssumption DEF Slots
  <2>4. QED BY <2>1, <2>3 DEF Succ, r, s
<1>4. CASE r + 1 = Size
  <2>1. (r + 1) % Size = 0
    BY <1>1, <1>4, SizeAssumption DEF Slots
  <2>2. k + 1 = Size * (q + 1) + 0
    BY <1>1, <1>4, SizeAssumption DEF Slots
  <2>3. s = 0
    BY <1>1, <1>2, <2>2, DivModUnique, SizeAssumption DEF Slots
  <2>4. QED BY <2>1, <2>3 DEF Succ, r, s
<1>5. QED BY <1>1, <1>3, <1>4, SizeAssumption DEF Slots

\* A whole lap leads back to the same slot.
LEMMA ModLap ==
  ASSUME NEW k \in Nat
  PROVE  (k + Size) % Size = k % Size
<1>1. k + Size = Size * ((k \div Size) + 1) + (k % Size)
  BY DivMod, SizeAssumption
<1>2. k + Size = (Size * ((k + Size) \div Size)) + ((k + Size) % Size)
  BY DivMod, SizeAssumption
<1>3. QED BY SMTT(30), <1>1, <1>2, DivMod, DivModUnique, SizeAssumption

\* Before the first lap the slot number is the counter itself.
LEMMA ModSmall ==
  ASSUME NEW k \in Nat, k < Size
  PROVE  k % Size = k
BY SizeAssumption

-----------------------------------------------------------------------------
(* Type correctness. *)

LEMMA TypeInit == Init => TypeOK
BY SizeAssumption, BoundAssumption
   DEF Init, RingInit, TypeOK, RingTypeOK, Labels, PushLabels, PopLabels,
       Slots, Threads

USE DEF Goto, Return, ring, regs, history, vars

LEMMA TypeStep == TypeOK /\ [Next]_vars => TypeOK'
<1> SUFFICES ASSUME TypeOK, [Next]_vars
             PROVE  TypeOK'
  OBVIOUS
<1>a. ASSUME NEW i \in Slots PROVE Succ(i) \in Slots
  BY SizeAssumption DEF Slots, Succ
<1>b. 0 \in Slots
  BY SizeAssumption DEF Slots
<1> USE <1>a, <1>b, BoundAssumption
        DEF TypeOK, RingTypeOK, Threads, Labels, PushLabels, PopLabels
<1>1. ASSUME NEW t \in Producers, PushBegin(t) PROVE TypeOK'
  BY <1>1, ThreadAssumption DEF PushBegin, PushCall, Items
<1>2. ASSUME NEW t \in Producers, PushRoom(t), UNCHANGED history PROVE TypeOK'
  BY <1>2, ThreadAssumption DEF PushRoom
<1>3. ASSUME NEW t \in Producers, PushRetry(t), UNCHANGED history PROVE TypeOK'
  BY <1>3, ThreadAssumption DEF PushRetry
<1>4. ASSUME NEW t \in Producers, PushRefused(t) PROVE TypeOK'
  BY <1>4, ThreadAssumption DEF PushRefused, PushFull
<1>5. ASSUME NEW t \in Producers, PushAccepted(t) PROVE TypeOK'
  BY <1>5, ThreadAssumption DEF PushAccepted, PushClaim
<1>6. ASSUME NEW t \in Producers, PushDone(t) PROVE TypeOK'
  BY <1>6, ThreadAssumption DEF PushDone, PushStore
<1>7. ASSUME NEW t \in Consumers, PopCall(t), UNCHANGED history PROVE TypeOK'
  BY <1>7, ThreadAssumption DEF PopCall
<1>8. ASSUME NEW t \in Consumers, PopEmpty(t), UNCHANGED history PROVE TypeOK'
  BY <1>8, ThreadAssumption DEF PopEmpty
<1>9. ASSUME NEW t \in Consumers, PopSome(t), UNCHANGED history PROVE TypeOK'
  BY <1>9, ThreadAssumption DEF PopSome
<1>10. ASSUME NEW t \in Consumers, PopLost(t), UNCHANGED history PROVE TypeOK'
  BY <1>10, ThreadAssumption DEF PopLost
<1>11. ASSUME NEW t \in Consumers, PopLoad(t), UNCHANGED history PROVE TypeOK'
  BY <1>11, ThreadAssumption DEF PopLoad
<1>12. ASSUME NEW t \in Consumers, PopTaken(t) PROVE TypeOK'
  BY <1>12, ThreadAssumption DEF PopTaken, PopClaim
<1>13. ASSUME NEW t \in Consumers, PopDone(t) PROVE TypeOK'
  BY <1>13, ThreadAssumption DEF PopDone, PopClear
<1>14. CASE UNCHANGED vars
  BY <1>14
<1>15. QED
  BY <1>1, <1>2, <1>3, <1>4, <1>5, <1>6, <1>7, <1>8, <1>9, <1>10, <1>11,
     <1>12, <1>13, <1>14 DEF Next, PushStep, PopStep

\* The members and locals of atomic_queue.h:42-91 keep the types of TypeOK
\* whatever the threads do, laps included.
THEOREM TypeCorrect == Spec => []TypeOK
BY TypeInit, TypeStep, PTL DEF Spec

-----------------------------------------------------------------------------
(* The inductive invariant. *)

\* The conjuncts of IInv about positions and slots, for the steps that move
\* neither a counter nor a ticket and neither start nor end a removal or a store.
Quiet == /\ UNCHANGED <<buffer, accepted, taken, ticket, got>>
         /\ \A t \in Producers : Storing(t)' = Storing(t)
         /\ \A t \in Producers : Storing(t) => val'[t] = val[t] /\ idx'[t] = idx[t]
         /\ \A t \in Consumers : Removing(t)' = Removing(t)
         /\ \A t \in Consumers : Removing(t) => at'[t] = at[t] /\ val'[t] = val[t] /\ idx'[t] = idx[t]

LEMMA QuietSets == Quiet => Live' = Live /\ Unstored' = Unstored
BY DEF Quiet, Live, Unstored, Storing, Removing

LEMMA QuietStep == Quiet /\ IInv => /\ StoreInv' /\ RemoveInv' /\ UnstoredInv'
                                   /\ SlotInv' /\ GotInv' /\ AtMostOnce'
<1> SUFFICES ASSUME Quiet, IInv
             PROVE  StoreInv' /\ RemoveInv' /\ UnstoredInv' /\ SlotInv' /\ GotInv' /\ AtMostOnce'
  OBVIOUS
<1>0. Live' = Live /\ Unstored' = Unstored
  BY QuietSets
<1>1. StoreInv'
  BY DEF Quiet, IInv, StoreInv, Storing, SlotOf
<1>2. RemoveInv'
  BY <1>0 DEF Quiet, IInv, RemoveInv, Removing, SlotOf
<1>3. UnstoredInv'
  BY <1>0 DEF IInv, UnstoredInv
<1>4. SlotInv'
  BY <1>0 DEF Quiet, IInv, SlotInv, SlotOf
<1>5. GotInv'
  BY <1>0 DEF Quiet, IInv, GotInv, Delivered
<1>6. AtMostOnce'
  BY DEF Quiet, IInv, AtMostOnce
<1> QED BY <1>1, <1>2, <1>3, <1>4, <1>5, <1>6

\* Live positions are positive, and distinct ones live in distinct slots.
LEMMA SlotDistinct ==
  ASSUME NEW j \in Nat \ {0}, NEW k \in Nat \ {0}, j # k, j < k + Size, k < j + Size
  PROVE  SlotOf(j) # SlotOf(k)
<1>1. CASE j < k
  BY <1>1, ModDistinct, SizeAssumption DEF SlotOf
<1>2. CASE k < j
  BY SMTT(30), <1>2, ModDistinct, SizeAssumption DEF SlotOf
<1>3. QED BY <1>1, <1>2

LEMMA OfferingFinite == IsFiniteSet(Offering) /\ Cardinality(Offering) \in Nat
BY ThreadAssumption, FS_Subset, FS_CardinalityType DEF Offering

LEMMA OfferingFiniteNext == (IsFiniteSet(Offering) /\ Cardinality(Offering) \in Nat)'
BY OfferingFinite, PTL

\* A single consumer has at most one removal under way, the latest; without
\* laps there are fewer positions than slots.
LEMMA Span == Calm /\ TypeOK /\ CounterInv /\ RemoveInv => LiveSpan /\ Live \subseteq 1 .. Len(accepted)
<1> SUFFICES ASSUME Calm, TypeOK, CounterInv, RemoveInv
             PROVE  LiveSpan /\ Live \subseteq 1 .. Len(accepted)
  OBVIOUS
<1>1. /\ taken \in Nat /\ Len(accepted) \in Nat /\ calls \in 0 .. MaxPush
      /\ taken <= Len(accepted) /\ Len(accepted) < taken + Size
      /\ Len(accepted) <= calls
  BY OfferingFinite DEF TypeOK, CounterInv
<1>2. \A k \in Live : k \in 1 .. Len(accepted)
  BY <1>1 DEF Live, RemoveInv
<1>3. CASE NeverLaps
  BY <1>1, <1>2, <1>3, BoundAssumption, SizeAssumption DEF NeverLaps, LiveSpan
<1>4. CASE SingleConsumer
  <2>1. \A k \in Live : k >= taken
    BY <1>1, <1>4 DEF Live, RemoveInv
  <2>2. QED BY <1>1, <1>2, <2>1, SizeAssumption DEF LiveSpan
<1>5. QED BY <1>2, <1>3, <1>4 DEF Calm

LEMMA SpanNext ==
  Calm /\ TypeOK' /\ CounterInv' /\ RemoveInv' =>
    LiveSpan' /\ (Live \subseteq 1 .. Len(accepted))'
<1>1. (Calm /\ TypeOK /\ CounterInv /\ RemoveInv => LiveSpan /\ Live \subseteq 1 .. Len(accepted))'
  BY Span, PTL
<1>2. Calm => Calm'
  BY DEF Calm, SingleProducer, SingleConsumer, NeverLaps
<1>3. QED BY <1>1, <1>2

\* What the conjuncts say about the counters.
LEMMA Counters ==
  ASSUME IInv
  PROVE  /\ taken \in Nat /\ Len(accepted) \in Nat /\ calls \in 0 .. MaxPush
         /\ taken <= Len(accepted) /\ Len(accepted) < taken + Size
         /\ Len(accepted) + Cardinality(Offering) <= calls
         /\ Len(accepted) <= calls
         /\ NeverLaps => start = taken /\ end = Len(accepted)
<1>1. /\ taken \in Nat /\ Len(accepted) \in Nat /\ calls \in 0 .. MaxPush
      /\ taken <= Len(accepted) /\ Len(accepted) < taken + Size
      /\ Len(accepted) + Cardinality(Offering) <= calls
      /\ Len(accepted) <= calls
  BY OfferingFinite DEF IInv, TypeOK, CounterInv
<1>2. ASSUME NeverLaps PROVE start = taken /\ end = Len(accepted)
  BY <1>1, <1>2, ModSmall, SizeAssumption, BoundAssumption DEF NeverLaps, IInv, CounterInv
<1>3. QED BY <1>1, <1>2

\* A push that is about to move `end` has room to do so.
LEMMA OfferRoom ==
  ASSUME Calm, IInv, NEW t \in Producers, at[t] = "push_cas"
  PROVE  /\ Len(accepted) + 1 < taken + Size
         /\ Len(accepted) + 1 + Cardinality(Offering \ {t}) <= calls
<1>1. t \in Offering
  BY DEF Offering
<1>2. /\ Cardinality(Offering \ {t}) = Cardinality(Offering) - 1
      /\ Cardinality(Offering \ {t}) \in Nat
  BY <1>1, OfferingFinite, FS_RemoveElement, FS_CardinalityType
<1>3. Len(accepted) + 1 + Cardinality(Offering \ {t}) <= calls
  BY <1>2, Counters, OfferingFinite
<1>4. CASE NeverLaps
  BY <1>2, <1>3, <1>4, Counters, SizeAssumption, BoundAssumption DEF NeverLaps
<1>5. CASE SingleProducer
  BY <1>3, <1>5 DEF IInv, OfferInv
<1>6. QED BY <1>3, <1>4, <1>5 DEF Calm

LEMMA QuietIInv ==
  ASSUME Calm, IInv, Quiet, TypeOK', CounterInv', OfferInv', TakeInv', ItemInv'
  PROVE  IInv'
<1>1. StoreInv' /\ RemoveInv' /\ UnstoredInv' /\ SlotInv' /\ GotInv' /\ AtMostOnce'
  BY QuietStep
<1>2. LiveSpan'
  BY <1>1, SpanNext
<1>3. QED BY <1>1, <1>2 DEF IInv

LEMMA PushBeginStep ==
  ASSUME Calm, IInv, TypeOK', NEW t \in Producers, PushBegin(t)
  PROVE  IInv'
<1> USE DEF PushBegin, PushCall
<1>1. Quiet
  BY ThreadAssumption DEF IInv, TypeOK, Quiet, Storing, Removing, Threads
<1>2. Offering' = Offering \cup {t} /\ t \notin Offering
  BY DEF IInv, TypeOK, Offering, Threads
<1>3. CounterInv'
  <2>1. Cardinality(Offering') = Cardinality(Offering) + 1
    BY <1>2, OfferingFinite, FS_AddElement
  <2>2. QED BY <2>1, Counters, OfferingFinite DEF IInv, CounterInv
<1>4. OfferInv'
  BY DEF IInv, TypeOK, OfferInv, SingleProducer, Threads
<1>5. TakeInv'
  BY ThreadAssumption DEF IInv, TypeOK, TakeInv, SingleConsumer, Threads
<1>6. ItemInv'
  <2>1. \A u \in Offering : val'[u] = val[u] /\ val[u] \in Nat /\ val[u] <= calls
    BY <1>2 DEF IInv, TypeOK, ItemInv, Offering, Threads, Items, PushLabels
  <2>2. val'[t] = calls + 1
    BY DEF IInv, TypeOK, Threads
  <2>3. accepted \in Seq(Nat) /\ refused \subseteq Nat
    BY BoundAssumption DEF IInv, TypeOK, Items
  <2>4. QED BY <1>2, <2>1, <2>2, <2>3, Counters DEF IInv, ItemInv
<1>7. QED BY <1>1, <1>3, <1>4, <1>5, <1>6, QuietIInv

LEMMA PushRoomStep ==
  ASSUME Calm, IInv, TypeOK', NEW t \in Producers, PushRoom(t), UNCHANGED history
  PROVE  IInv'
<1> USE DEF PushRoom
<1>1. Quiet
  BY ThreadAssumption DEF IInv, TypeOK, Quiet, Storing, Removing, Threads
<1>2. Offering' = Offering
  BY DEF IInv, TypeOK, Offering, Threads
<1>3. CounterInv'
  BY <1>2 DEF IInv, CounterInv
<1>4. OfferInv'
  <2>1. ASSUME SingleProducer PROVE Len(accepted) + 1 < taken + Size
    <3>1. Succ(end) # start
      BY <2>1 DEF IInv, OfferInv
    <3>2. (Len(accepted) + 1) % Size # taken % Size
      BY <3>1, Counters, ModSucc DEF IInv, CounterInv
    <3>3. Len(accepted) + 1 # taken + Size
      BY <3>2, ModLap, Counters
    <3>4. QED BY <3>3, Counters, SizeAssumption
  <2>2. QED BY <2>1 DEF IInv, TypeOK, OfferInv, Threads, SingleProducer
<1>5. TakeInv'
  BY ThreadAssumption DEF IInv, TypeOK, TakeInv, SingleConsumer, Threads
<1>6. ItemInv'
  BY <1>2 DEF IInv, ItemInv
<1>7. QED BY <1>1, <1>3, <1>4, <1>5, <1>6, QuietIInv

LEMMA PushRetryStep ==
  ASSUME Calm, IInv, TypeOK', NEW t \in Producers, PushRetry(t), UNCHANGED history
  PROVE  IInv'
<1> USE DEF PushRetry
<1>1. Quiet
  BY ThreadAssumption DEF IInv, TypeOK, Quiet, Storing, Removing, Threads
<1>2. Offering' = Offering
  BY DEF IInv, TypeOK, Offering, Threads
<1>3. CounterInv'
  BY <1>2 DEF IInv, CounterInv
<1>4. OfferInv'
  BY DEF IInv, TypeOK, OfferInv, Threads, SingleProducer
<1>5. TakeInv'
  BY ThreadAssumption DEF IInv, TypeOK, TakeInv, SingleConsumer, Threads
<1>6. ItemInv'
  BY <1>2 DEF IInv, ItemInv
<1>7. QED BY <1>1, <1>3, <1>4, <1>5, <1>6, QuietIInv

LEMMA PushRefusedStep ==
  ASSUME Calm, IInv, TypeOK', NEW t \in Producers, PushRefused(t)
  PROVE  IInv'
<1> USE DEF PushRefused, PushFull
<1>1. Quiet
  BY ThreadAssumption DEF IInv, TypeOK, Quiet, Storing, Removing, Threads
<1>2. Offering' = Offering \ {t} /\ t \in Offering
  BY DEF IInv, TypeOK, Offering, Threads
<1>3. CounterInv'
  <2>1. Cardinality(Offering') = Cardinality(Offering) - 1
    BY <1>2, OfferingFinite, FS_RemoveElement
  <2>2. QED BY <2>1, Counters, OfferingFinite DEF IInv, CounterInv
<1>4. OfferInv'
  BY DEF IInv, TypeOK, OfferInv, SingleProducer, Threads
<1>5. TakeInv'
  BY ThreadAssumption DEF IInv, TypeOK, TakeInv, SingleConsumer, Threads
<1>6. ItemInv'
  <2>1. \A u \in Offering : u # t => val'[u] = val[u]
    BY DEF IInv, TypeOK, Offering, Threads
  <2>2. QED BY <1>2, <2>1 DEF IInv, ItemInv
<1>7. QED BY <1>1, <1>3, <1>4, <1>5, <1>6, QuietIInv

LEMMA PopCallStep ==
  ASSUME Calm, IInv, TypeOK', NEW t \in Consumers, PopCall(t), UNCHANGED history
  PROVE  IInv'
<1> USE DEF PopCall
<1>1. Quiet
  BY ThreadAssumption DEF IInv, TypeOK, Quiet, Storing, Removing, Threads
<1>2. Offering' = Offering
  BY ThreadAssumption DEF IInv, TypeOK, Offering, Threads
<1>3. CounterInv'
  BY <1>2 DEF IInv, CounterInv
<1>4. OfferInv'
  BY ThreadAssumption DEF IInv, TypeOK, OfferInv, Threads, SingleProducer
<1>5. TakeInv'
  BY SizeAssumption DEF IInv, TypeOK, RingTypeOK, TakeInv, SingleConsumer, Threads, Slots
<1>6. ItemInv'
  BY <1>2 DEF IInv, ItemInv
<1>7. QED BY <1>1, <1>3, <1>4, <1>5, <1>6, QuietIInv

\* A pop that returns nothing.
LEMMA PopNothingStep ==
  ASSUME Calm, IInv, TypeOK', NEW t \in Consumers, PopEmpty(t) \/ PopLost(t), UNCHANGED history
  PROVE  IInv'
<1> USE DEF PopEmpty, PopLost
<1>1. Quiet
  BY ThreadAssumption DEF IInv, TypeOK, Quiet, Storing, Removing, Threads
<1>2. Offering' = Offering /\ \A u \in Offering : val'[u] = val[u]
  BY ThreadAssumption DEF IInv, TypeOK, Offering, Threads
<1>3. CounterInv'
  BY <1>2 DEF IInv, CounterInv
<1>4. OfferInv'
  BY ThreadAssumption DEF IInv, TypeOK, OfferInv, Threads, SingleProducer
<1>5. TakeInv'
  BY DEF IInv, TypeOK, TakeInv, SingleConsumer, Threads
<1>6. ItemInv'
  BY <1>2 DEF IInv, ItemInv
<1>7. QED BY <1>1, <1>3, <1>4, <1>5, <1>6, QuietIInv

LEMMA PopSomeStep ==
  ASSUME Calm, IInv, TypeOK', NEW t \in Consumers, PopSome(t), UNCHANGED history
  PROVE  IInv'
<1> USE DEF PopSome
<1>1. Quiet
  BY ThreadAssumption DEF IInv, TypeOK, Quiet, Storing, Removing, Threads
<1>2. Offering' = Offering
  BY ThreadAssumption DEF IInv, TypeOK, Offering, Threads
<1>3. CounterInv'
  BY <1>2 DEF IInv, CounterInv
<1>4. OfferInv'
  BY ThreadAssumption DEF IInv, TypeOK, OfferInv, Threads, SingleProducer
<1>5. TakeInv'
  <2>1. ASSUME idx[t] = start PROVE taken < Len(accepted)
    <3>1. taken # Len(accepted)
      BY <2>1 DEF IInv, CounterInv
    <3>2. QED BY <3>1, Counters
  <2>2. QED BY <2>1 DEF IInv, TypeOK, TakeInv, SingleConsumer, Threads
<1>6. ItemInv'
  BY <1>2 DEF IInv, ItemInv
<1>7. QED BY <1>1, <1>3, <1>4, <1>5, <1>6, QuietIInv

\* A pop has found the item in its slot.
LEMMA PopLoadStep ==
  ASSUME Calm, IInv, TypeOK', NEW t \in Consumers, PopLoad(t), UNCHANGED history
  PROVE  IInv'
<1> USE DEF PopLoad
<1>1. /\ t \in Threads /\ t \notin Producers
      /\ at' = [at EXCEPT ![t] = "pop_clear"] /\ at[t] = "pop_load"
      /\ \A u \in Threads : u # t => at'[u] = at[u] /\ val'[u] = val[u]
      /\ at'[t] = "pop_clear" /\ val'[t] = buffer[idx[t]]
  BY ThreadAssumption DEF IInv, TypeOK, Threads
<1>2. /\ \A u \in Consumers : Removing(u)' = Removing(u)
      /\ \A u \in Producers : Storing(u)' = Storing(u)
  BY <1>1, ThreadAssumption DEF Removing, Storing, Threads
<1>3. Live' = Live /\ Unstored' = Unstored
  BY <1>2 DEF Live, Unstored
<1>4. Offering' = Offering /\ \A u \in Offering : val'[u] = val[u]
  BY <1>1 DEF Offering, Threads
<1>5. CounterInv'
  BY <1>4 DEF IInv, CounterInv
<1>6. OfferInv'
  BY <1>1 DEF IInv, OfferInv, Threads, SingleProducer
<1>7. TakeInv'
  BY <1>1 DEF IInv, TakeInv, SingleConsumer, Threads
<1>8. StoreInv'
  BY <1>1, <1>2 DEF IInv, StoreInv, SlotOf, Threads
<1>9. RemoveInv'
  <2>1. Removing(t) /\ ticket[t] \in Live /\ idx[t] = SlotOf(ticket[t])
    BY <1>1 DEF IInv, RemoveInv, Removing, Live
  <2>2. ticket[t] \notin Unstored /\ val'[t] = accepted[ticket[t]]
    BY <1>1, <2>1 DEF IInv, SlotInv
  <2>3. QED BY <1>1, <1>2, <1>3, <2>2 DEF IInv, RemoveInv, SlotOf, Threads
<1>10. UnstoredInv' /\ SlotInv' /\ GotInv' /\ AtMostOnce'
  BY <1>3 DEF IInv, UnstoredInv, SlotInv, SlotOf, GotInv, Delivered, AtMostOnce
<1>11. ItemInv'
  BY <1>4 DEF IInv, ItemInv
<1>12. LiveSpan'
  BY <1>5, <1>9, SpanNext
<1>13. QED
  BY <1>5, <1>6, <1>7, <1>8, <1>9, <1>10, <1>11, <1>12 DEF IInv

\* A push has moved `end`: its item is accepted and its slot is free.
LEMMA PushAcceptedStep ==
  ASSUME Calm, IInv, TypeOK', NEW t \in Producers, PushAccepted(t)
  PROVE  IInv'
<1> USE DEF PushAccepted, PushClaim
<1> DEFINE n == Len(accepted) + 1
<1>1. /\ t \in Threads /\ t \notin Consumers
      /\ at[t] = "push_cas" /\ at'[t] = "push_store"
      /\ \A u \in Threads : u # t => at'[u] = at[u] /\ ticket'[u] = ticket[u]
      /\ ticket'[t] = n
  BY ThreadAssumption DEF IInv, TypeOK, Threads
<1>2. /\ n \in Nat \ {0} /\ Len(accepted') = n /\ DOMAIN accepted' = 1 .. n
      /\ accepted'[n] = val[t] /\ \A k \in 1 .. Len(accepted) : accepted'[k] = accepted[k]
      /\ DOMAIN accepted = 1 .. Len(accepted) /\ n \notin 1 .. Len(accepted)
  BY <1>1 DEF IInv, TypeOK, PushLabels
<1>3. n < taken + Size /\ n + Cardinality(Offering \ {t}) <= calls
  BY <1>1, OfferRoom
<1>4. t \in Offering /\ Offering' = Offering \ {t}
  BY <1>1 DEF Offering, Threads
<1>5. Live' = Live \cup {n} /\ Live \subseteq 1 .. Len(accepted)
  <2>1. \A u \in Consumers : Removing(u)' = Removing(u) /\ ticket'[u] = ticket[u]
    BY <1>1 DEF Removing, Threads
  <2>2. Live \subseteq 1 .. Len(accepted)
    BY Span DEF IInv
  <2>3. (taken + 1 .. n) = (taken + 1 .. Len(accepted)) \cup {n}
    BY <1>2, Counters
  <2>4. Live' = (taken + 1 .. n) \cup {ticket[c] : c \in {d \in Consumers : Removing(d)}}
    BY <1>2, <2>1 DEF Live
  <2>5. QED BY <2>2, <2>3, <2>4 DEF Live
<1>6. Unstored' = Unstored \cup {n}
  <2>1. ~Storing(t) /\ Storing(t)' /\ \A u \in Producers : u # t => Storing(u)' = Storing(u)
    BY <1>1 DEF Storing, Threads
  <2>2. QED BY <1>1, <2>1 DEF Unstored, Threads
<1>7. CounterInv'
  <2>1. end' = n % Size
    BY Counters, ModSucc DEF IInv, CounterInv
  <2>2. QED BY <1>2, <1>3, <1>4, <2>1, Counters DEF IInv, CounterInv
<1>8. OfferInv'
  BY <1>1 DEF IInv, OfferInv, SingleProducer, Threads
<1>9. TakeInv'
  BY <1>1, <1>2, Counters DEF IInv, TakeInv, SingleConsumer, Threads
<1>10. StoreInv'
  <2>1. idx[t] = SlotOf(n)
    BY <1>2 DEF IInv, CounterInv, SlotOf
  <2>2. \A u \in Producers : Storing(u) => ticket[u] \in 1 .. Len(accepted)
    BY DEF IInv, StoreInv
  <2>3. QED BY <1>1, <1>2, <2>1, <2>2 DEF IInv, StoreInv, SlotOf, Storing, Threads
<1>11. RemoveInv'
  <2>1. \A u \in Consumers : Removing(u) => ticket[u] \in 1 .. Len(accepted)
    BY Counters DEF IInv, RemoveInv
  <2>2. QED BY <1>1, <1>2, <1>6, <2>1 DEF IInv, RemoveInv, SlotOf, Removing, Threads
<1>12. UnstoredInv'
  BY <1>5, <1>6 DEF IInv, UnstoredInv
<1>13. LiveSpan'
  BY <1>7, <1>11, SpanNext
<1>14. SlotInv'
  <2>1. \A k \in Live : k # n /\ SlotOf(k) # SlotOf(n)
    BY <1>2, <1>5, <1>13, SlotDistinct, SizeAssumption DEF LiveSpan
  <2>2. SlotOf(n) \in Slots /\ buffer[SlotOf(n)] = Null
    BY <1>2, <2>1, DivMod DEF IInv, SlotInv, SlotOf
  <2>3. QED BY <1>2, <1>5, <1>6, <2>1, <2>2 DEF IInv, SlotInv, SlotOf
<1>15. ItemInv'
  <2>1. /\ val[t] <= calls /\ val[t] \notin refused
        /\ \A k \in 1 .. Len(accepted) : accepted[k] # val[t]
        /\ \A u \in Offering : val[u] = val[t] => u = t
    BY <1>2, <1>4 DEF IInv, ItemInv
  <2>2. QED BY <1>2, <1>4, <2>1 DEF IInv, ItemInv
<1>16. GotInv'
  <2>1. \A k \in 1 .. taken : k \in 1 .. Len(accepted)
    BY Counters
  <2>2. QED BY <1>2, <1>5, <2>1 DEF IInv, GotInv, Delivered
<1>17. AtMostOnce'
  BY DEF IInv, AtMostOnce
<1>18. QED
  BY <1>7, <1>8, <1>9, <1>10, <1>11, <1>12, <1>13, <1>14, <1>15, <1>16, <1>17 DEF IInv

\* A push has stored its item: the position is no longer missing from its slot.
LEMMA PushDoneStep ==
  ASSUME Calm, IInv, TypeOK', NEW t \in Producers, PushDone(t)
  PROVE  IInv'
<1> USE DEF PushDone, PushStore
<1> DEFINE n == ticket[t]
<1>1. /\ t \in Threads /\ t \notin Consumers
      /\ at[t] = "push_store" /\ at'[t] = "idle"
      /\ \A u \in Threads : u # t => at'[u] = at[u] /\ ticket'[u] = ticket[u]
                                    /\ idx'[u] = idx[u] /\ val'[u] = val[u]
  BY ThreadAssumption DEF IInv, TypeOK, Threads
<1>2. /\ n \in 1 .. Len(accepted) /\ accepted[n] = val[t] /\ idx[t] = SlotOf(n)
      /\ n \in Unstored /\ n \in Live
  BY <1>1 DEF IInv, StoreInv, UnstoredInv, Storing, Unstored
<1>3. Live' = Live
  <2>1. \A u \in Consumers : Removing(u)' = Removing(u) /\ ticket'[u] = ticket[u]
    BY <1>1 DEF Removing, Threads
  <2>2. QED BY <2>1 DEF Live
<1>4. Unstored' = Unstored \ {n}
  <2>1. Storing(t) /\ ~Storing(t)' /\ \A u \in Producers : u # t => Storing(u)' = Storing(u)
    BY <1>1 DEF Storing, Threads
  <2>2. \A u \in Producers : Storing(u) /\ ticket[u] = n => u = t
    BY <2>1 DEF IInv, StoreInv
  <2>3. QED BY <1>1, <2>1, <2>2 DEF Unstored, Threads
<1>5. Offering' = Offering /\ \A u \in Offering : val'[u] = val[u]
  BY <1>1 DEF Offering, Threads
<1>6. CounterInv'
  BY <1>5 DEF IInv, CounterInv
<1>7. OfferInv'
  BY <1>1 DEF IInv, OfferInv, SingleProducer, Threads
<1>8. TakeInv'
  BY <1>1 DEF IInv, TakeInv, SingleConsumer, Threads
<1>9. StoreInv'
  BY <1>1 DEF IInv, StoreInv, SlotOf, Storing, Threads
<1>10. RemoveInv'
  BY <1>1, <1>4 DEF IInv, RemoveInv, SlotOf, Removing, Threads
<1>11. UnstoredInv'
  BY <1>3, <1>4 DEF IInv, UnstoredInv
<1>12. LiveSpan'
  BY <1>6, <1>10, SpanNext
<1>13. SlotInv'
  <2>1. Live \subseteq 1 .. Len(accepted) /\ Len(accepted) \in Nat
    BY Span, Counters DEF IInv
  <2>2. \A k \in Live : k # n => SlotOf(k) # SlotOf(n)
    BY <1>2, <2>1, SlotDistinct, SizeAssumption DEF IInv, LiveSpan
  <2>3. SlotOf(n) \in Slots /\ buffer' = [buffer EXCEPT ![SlotOf(n)] = accepted[n]]
    BY <1>2 DEF IInv, TypeOK, Threads
  <2>4. \A i \in Slots : buffer'[i] = IF i = SlotOf(n) THEN accepted[n] ELSE buffer[i]
    BY <2>3 DEF IInv, TypeOK, RingTypeOK
  <2>5. \A k \in Live : SlotOf(k) \in Slots
    BY <2>1, DivMod DEF SlotOf
  <2>6. QED BY <1>2, <1>3, <1>4, <2>2, <2>4, <2>5 DEF IInv, SlotInv, SlotOf
<1>14. ItemInv'
  BY <1>5 DEF IInv, ItemInv
<1>15. GotInv' /\ AtMostOnce'
  BY <1>3 DEF IInv, GotInv, Delivered, AtMostOnce
<1>16. QED
  BY <1>6, <1>7, <1>8, <1>9, <1>10, <1>11, <1>12, <1>13, <1>14, <1>15 DEF IInv

\* A pop has moved `start`: it owns the oldest position not taken before.
LEMMA PopTakenStep ==
  ASSUME Calm, IInv, TypeOK', NEW t \in Consumers, PopTaken(t)
  PROVE  IInv'
<1> USE DEF PopTaken, PopClaim
<1> DEFINE n == taken + 1
<1>1. /\ t \in Threads /\ t \notin Producers
      /\ at[t] = "pop_cas" /\ at'[t] = "pop_load" /\ start = idx[t]
      /\ \A u \in Threads : u # t => at'[u] = at[u] /\ ticket'[u] = ticket[u]
      /\ ticket'[t] = n
  BY ThreadAssumption DEF IInv, TypeOK, Threads
<1>2. n \in Nat \ {0} /\ n <= Len(accepted)
  BY <1>1, Counters DEF IInv, TakeInv
<1>3. \A u \in Consumers : Removing(u) => ticket[u] \in 1 .. taken
  BY DEF IInv, RemoveInv
<1>4. Live' = Live
  <2>1. ~Removing(t) /\ Removing(t)' /\ \A u \in Consumers : u # t => Removing(u)' = Removing(u)
    BY <1>1 DEF Removing, Threads
  <2>2. (n .. Len(accepted)) = (n + 1 .. Len(accepted)) \cup {n}
    BY <1>2, Counters
  <2>3. {ticket'[c] : c \in {d \in Consumers : Removing(d)'}} =
          {ticket[c] : c \in {d \in Consumers : Removing(d)}} \cup {n}
    BY <1>1, <2>1 DEF Threads
  <2>4. QED BY <2>2, <2>3 DEF Live
<1>5. Unstored' = Unstored
  BY <1>1 DEF Unstored, Storing, Threads
<1>6. Offering' = Offering
  BY <1>1 DEF Offering, Threads
<1>7. CounterInv'
  <2>1. start' = n % Size
    BY Counters, ModSucc DEF IInv, CounterInv
  <2>2. QED BY <1>2, <1>6, <2>1, Counters, SizeAssumption DEF IInv, CounterInv
<1>8. OfferInv'
  BY <1>1, Counters, SizeAssumption DEF IInv, OfferInv, SingleProducer, Threads
<1>9. TakeInv'
  <2>1. CASE SingleConsumer
    BY <1>1, <2>1 DEF TakeInv, SingleConsumer, Threads
  <2>2. CASE NeverLaps
    <3>1. start = taken /\ n < Size
      BY <1>2, <2>2, Counters, SizeAssumption, BoundAssumption DEF NeverLaps
    <3>2. start' = start + 1 /\ start \in Nat
      <4>1. (taken + 1) % Size = taken + 1
        BY <1>2, <3>1, ModSmall
      <4>2. QED BY <1>1, <3>1, <4>1, Counters DEF Succ
    <3>3. \A u \in Consumers : idx[u] \in Nat
      BY SizeAssumption DEF IInv, TypeOK, Threads, Slots
    <3>4. QED BY <1>1, <2>2, <3>2, <3>3 DEF IInv, TakeInv, SingleConsumer, Threads
  <2>3. QED BY <2>1, <2>2 DEF Calm
<1>10. StoreInv'
  BY <1>1 DEF IInv, StoreInv, SlotOf, Storing, Threads
<1>11. RemoveInv'
  <2>1. idx[t] = SlotOf(n)
    <3>1. n - 1 = taken
      BY Counters
    <3>2. QED BY <1>1, <3>1 DEF IInv, CounterInv, SlotOf
  <2>2. \A u \in Consumers : Removing(u) => ticket[u] \in 1 .. n /\ ticket[u] # n
    <3>1. \A k \in 1 .. taken : k \in 1 .. n /\ k # n
      BY Counters
    <3>2. QED BY <1>3, <3>1
  <2>3. n \in 1 .. n
    BY <1>2
  <2>4. ASSUME NEW u \in Consumers, u # t, Removing(u)'
        PROVE  /\ Removing(u) /\ ~SingleConsumer
               /\ at'[u] = at[u] /\ ticket'[u] = ticket[u]
    BY <1>1, <2>4 DEF Removing, Threads, SingleConsumer
  <2>5. ASSUME NEW u \in Consumers, u # t, Removing(u)'
        PROVE  /\ ticket'[u] \in 1 .. taken' /\ ticket'[u] # n
               /\ idx'[u] = SlotOf(ticket'[u])
               /\ at'[u] = "pop_clear" =>
                     ticket'[u] \notin Unstored' /\ val'[u] = accepted'[ticket'[u]]
    BY <1>5, <2>2, <2>4, <2>5 DEF IInv, RemoveInv
  <2>6. \A u, v \in Consumers :
          Removing(u)' /\ Removing(v)' /\ ticket'[u] = ticket'[v] => u = v
    BY <1>1, <2>4, <2>5 DEF IInv, RemoveInv
  <2>7. QED BY <1>1, <2>1, <2>3, <2>4, <2>5, <2>6 DEF RemoveInv, SlotOf
<1>12. UnstoredInv'
  BY <1>4, <1>5 DEF IInv, UnstoredInv
<1>13. LiveSpan'
  BY <1>7, <1>11, SpanNext
<1>14. SlotInv'
  BY <1>4, <1>5 DEF IInv, SlotInv, SlotOf
<1>15. ItemInv'
  BY <1>6 DEF IInv, ItemInv
<1>16. GotInv'
  <2>1. n \in Live'
    BY <1>1 DEF Live, Removing
  <2>2. QED BY <1>2, <1>4, <2>1, Counters DEF IInv, GotInv, Delivered
<1>17. AtMostOnce'
  BY DEF IInv, AtMostOnce
<1>18. QED
  BY <1>7, <1>8, <1>9, <1>10, <1>11, <1>12, <1>13, <1>14, <1>15, <1>16, <1>17 DEF IInv

\* A pop has cleared its slot and returns the item.
LEMMA PopDoneStep ==
  ASSUME Calm, IInv, TypeOK', NEW t \in Consumers, PopDone(t)
  PROVE  IInv'
<1> USE DEF PopDone, PopClear
<1> DEFINE n == ticket[t]
<1>1. /\ t \in Threads /\ t \notin Producers
      /\ at[t] = "pop_clear" /\ at'[t] = "idle"
      /\ \A u \in Threads : u # t => at'[u] = at[u] /\ ticket'[u] = ticket[u]
                                    /\ idx'[u] = idx[u] /\ val'[u] = val[u]
  BY ThreadAssumption DEF IInv, TypeOK, Threads
<1>2. /\ n \in 1 .. taken /\ n <= Len(accepted) /\ idx[t] = SlotOf(n)
      /\ n \notin Unstored /\ val[t] = accepted[n] /\ n \in Live
      /\ \A u \in Consumers : Removing(u) /\ ticket[u] = n => u = t
  BY <1>1, Counters DEF IInv, RemoveInv, Removing, Live
<1>3. Live' = Live \ {n}
  <2>1. Removing(t) /\ ~Removing(t)' /\ \A u \in Consumers : u # t => Removing(u)' = Removing(u)
    BY <1>1 DEF Removing, Threads
  <2>2. n \notin taken + 1 .. Len(accepted)
    BY <1>2, Counters
  <2>3. {ticket'[c] : c \in {d \in Consumers : Removing(d)'}} =
          {ticket[c] : c \in {d \in Consumers : Removing(d)}} \ {n}
    BY <1>1, <1>2, <2>1 DEF Threads
  <2>4. QED BY <2>2, <2>3 DEF Live
<1>4. Unstored' = Unstored
  BY <1>1 DEF Unstored, Storing, Threads
<1>5. Offering' = Offering /\ \A u \in Offering : val'[u] = val[u]
  BY <1>1 DEF Offering, Threads
<1>6. CounterInv'
  BY <1>5 DEF IInv, CounterInv
<1>7. OfferInv'
  BY <1>1 DEF IInv, OfferInv, SingleProducer, Threads
<1>8. TakeInv'
  BY <1>1 DEF IInv, TakeInv, SingleConsumer, Threads
<1>9. StoreInv'
  BY <1>1 DEF IInv, StoreInv, SlotOf, Storing, Threads
<1>10. RemoveInv'
  BY <1>1, <1>4 DEF IInv, RemoveInv, SlotOf, Removing, Threads
<1>11. UnstoredInv'
  BY <1>2, <1>3, <1>4 DEF IInv, UnstoredInv
<1>12. LiveSpan'
  BY <1>6, <1>10, SpanNext
<1>13. SlotInv'
  <2>1. Live \subseteq 1 .. Len(accepted) /\ Len(accepted) \in Nat
    BY Span, Counters DEF IInv
  <2>2. \A k \in Live : k # n => SlotOf(k) # SlotOf(n)
    BY <1>2, <2>1, SlotDistinct, SizeAssumption DEF IInv, LiveSpan
  <2>3. SlotOf(n) \in Slots
    BY <1>2 DEF IInv, TypeOK, Threads
  <2>4. \A i \in Slots : buffer'[i] = IF i = SlotOf(n) THEN Null ELSE buffer[i]
    BY <1>2, <2>3 DEF IInv, TypeOK, RingTypeOK
  <2>5. \A k \in Live : SlotOf(k) \in Slots
    BY <2>1, DivMod DEF SlotOf
  <2>6. QED BY <1>2, <1>3, <1>4, <2>2, <2>4, <2>5 DEF IInv, SlotInv, SlotOf
<1>14. ItemInv'
  BY <1>5 DEF IInv, ItemInv
<1>15. /\ \A c \in Consumers : c # t => got'[c] = got[c]
       /\ got'[t] = Append(got[t], accepted[n])
       /\ \A c \in Consumers : got[c] \in Seq(Items)
  BY <1>2 DEF IInv, TypeOK
<1>16. /\ DOMAIN got'[t] = DOMAIN got[t] \cup {Len(got[t]) + 1}
       /\ \A j \in DOMAIN got[t] : got'[t][j] = got[t][j]
       /\ got'[t][Len(got[t]) + 1] = accepted[n]
       /\ Len(got[t]) + 1 \notin DOMAIN got[t]
  BY <1>15
<1>17. GotInv'
  <2>1. \A x : x \in Delivered \/ x = accepted[n] => x \in Delivered'
    BY <1>15, <1>16 DEF Delivered
  <2>2. \A k \in 1 .. taken : k \in Live' \/ accepted[k] \in Delivered'
    BY <1>3, <2>1 DEF IInv, GotInv
  <2>3. ASSUME NEW c \in Consumers, NEW j \in DOMAIN got'[c]
        PROVE  \E k \in 1 .. taken : k \notin Live' /\ got'[c][j] = accepted[k]
    <3>1. CASE c = t /\ j = Len(got[t]) + 1
      BY <1>2, <1>3, <1>16, <3>1
    <3>2. CASE ~(c = t /\ j = Len(got[t]) + 1)
      <4>1. j \in DOMAIN got[c] /\ got'[c][j] = got[c][j]
        BY <1>15, <1>16, <2>3, <3>2
      <4>2. QED BY <1>3, <4>1 DEF IInv, GotInv
    <3>3. QED BY <3>1, <3>2
  <2>4. QED BY <2>2, <2>3 DEF GotInv
<1>18. AtMostOnce'
  <2>1. \A c \in Consumers : \A j \in DOMAIN got[c] : got[c][j] # accepted[n]
    <3>1. \A k \in 1 .. taken : k \in DOMAIN accepted
      BY Counters DEF IInv, TypeOK
    <3>2. \A k \in 1 .. taken : k \notin Live => accepted[k] # accepted[n]
      BY <1>2, <3>1 DEF IInv, ItemInv
    <3>3. QED BY <3>2 DEF IInv, GotInv
  <2>2. QED BY <1>15, <1>16, <2>1 DEF IInv, AtMostOnce
<1>19. QED
  BY <1>6, <1>7, <1>8, <1>9, <1>10, <1>11, <1>12, <1>13, <1>14, <1>17, <1>18 DEF IInv

LEMMA CalmInit == Init => IInv
<1> SUFFICES ASSUME Init PROVE IInv
  OBVIOUS
<1>1. TypeOK
  BY TypeInit
<1>2. /\ Len(accepted) = 0 /\ taken = 0 /\ calls = 0
      /\ DOMAIN accepted = {} /\ \A c \in Consumers : DOMAIN got[c] = {}
      /\ \A t \in Threads : at[t] = "idle"
  BY DEF Init
<1>3. Live = {} /\ Unstored = {} /\ Offering = {}
  BY <1>2 DEF Live, Unstored, Offering, Removing, Storing, Threads
<1>4. CounterInv
  BY <1>2, <1>3, FS_EmptySet, SizeAssumption DEF CounterInv, Init, RingInit
<1>5. OfferInv /\ TakeInv /\ StoreInv /\ RemoveInv
  BY <1>2 DEF OfferInv, TakeInv, StoreInv, RemoveInv, Storing, Removing, Threads
<1>6. UnstoredInv /\ LiveSpan /\ SlotInv
  BY <1>3 DEF UnstoredInv, LiveSpan, SlotInv, Init, RingInit
<1>7. ItemInv /\ GotInv /\ AtMostOnce
  BY <1>2, <1>3 DEF ItemInv, GotInv, AtMostOnce, Init
<1>8. QED BY <1>1, <1>4, <1>5, <1>6, <1>7 DEF IInv

LEMMA CalmStep == Calm /\ IInv /\ [Next]_vars => IInv'
<1> SUFFICES ASSUME Calm, IInv, [Next]_vars
             PROVE  IInv'
  OBVIOUS
<1>0. TypeOK'
  BY TypeStep DEF IInv
<1>1. ASSUME NEW t \in Producers, PushBegin(t) \/ PushStep(t) PROVE IInv'
  BY <1>0, <1>1, PushBeginStep, PushRoomStep, PushRetryStep, PushRefusedStep,
     PushAcceptedStep, PushDoneStep DEF PushStep
<1>2. ASSUME NEW t \in Consumers, PopStep(t) PROVE IInv'
  BY <1>0, <1>2, PopCallStep, PopNothingStep, PopSomeStep, PopLoadStep,
     PopTakenStep, PopDoneStep DEF PopStep
<1>3. CASE UNCHANGED vars
  <2>1. Quiet /\ Offering' = Offering
    BY <1>3 DEF Quiet, Storing, Removing, Offering
  <2>2. CounterInv' /\ OfferInv' /\ TakeInv' /\ ItemInv'
    BY <1>3, <2>1 DEF IInv, CounterInv, OfferInv, TakeInv, ItemInv
  <2>3. QED BY <1>0, <2>1, <2>2, QuietIInv
<1>4. QED BY <1>1, <1>2, <1>3 DEF Next

\* With one producer and one consumer, or without laps, the positions claimed by
\* push and pop (atomic_queue.h:53-91) and the contents of the slots stay in
\* step: IInv is inductive for every Size, MaxPush and number of threads.
THEOREM CalmInvariant == Calm => (Spec => []IInv)
<1>1. Calm => (Init => IInv)
  BY CalmInit
<1>2. Calm /\ IInv /\ [Next]_vars => IInv'
  BY CalmStep
<1>3. SUFFICES ASSUME Calm PROVE Spec => []IInv
  OBVIOUS
<1>4. IInv /\ [Next]_vars => IInv'
  BY <1>2, <1>3
<1>5. QED BY <1>4, CalmInit, PTL DEF Spec

LEMMA NothingLostFromIInv == Calm /\ IInv => NothingLost
<1> SUFFICES ASSUME IInv, NEW k \in DOMAIN accepted
             PROVE  InSlot(accepted[k]) \/ InHand(accepted[k]) \/ accepted[k] \in Delivered
  BY DEF NothingLost
<1>1. k \in 1 .. Len(accepted) /\ k \in Nat \ {0}
  BY DEF IInv, TypeOK
<1>2. CASE k \in Live /\ k \in Unstored
  <2>1. PICK t \in Producers : Storing(t) /\ ticket[t] = k
    BY <1>2 DEF Unstored
  <2>2. QED BY <2>1 DEF IInv, StoreInv, Storing, InHand, Threads
<1>3. CASE k \in Live /\ k \notin Unstored
  <2>1. SlotOf(k) \in Slots
    BY <1>1, DivMod DEF SlotOf
  <2>2. QED BY <1>3, <2>1 DEF IInv, SlotInv, InSlot
<1>4. CASE k \notin Live
  <2>1. k \in 1 .. taken
    BY <1>1, <1>4, Counters DEF Live
  <2>2. QED BY <1>4, <2>1 DEF IInv, GotInv
<1>5. QED BY <1>2, <1>3, <1>4

\* No item that push accepted is ever overwritten or forgotten
\* (atomic_queue.h:64-66, 84-90), for every Size and number of calls.
THEOREM NothingIsLost == Calm => (Spec => []NothingLost)
<1> SUFFICES ASSUME Calm PROVE Spec => []NothingLost
  OBVIOUS
<1>1. Spec => []IInv
  BY CalmInvariant
<1>2. IInv => NothingLost
  BY NothingLostFromIInv
<1>3. QED BY <1>1, <1>2, PTL

\* No item is returned by two pops, or twice by one (atomic_queue.h:79, 90).
THEOREM DeliveredAtMostOnce == Calm => (Spec => []AtMostOnce)
<1> SUFFICES ASSUME Calm PROVE Spec => []AtMostOnce
  OBVIOUS
<1>1. Spec => []IInv
  BY CalmInvariant
<1>2. IInv => AtMostOnce
  BY DEF IInv
<1>3. QED BY <1>1, <1>2, PTL

-----------------------------------------------------------------------------
(* Refinement. *)

\* The abstract queue of the first m taken out of s, when an item is appended
\* and when one more is taken.
LEMMA WindowAppend ==
  ASSUME NEW s \in Seq(Items), NEW m \in Nat, m <= Len(s), NEW x \in Items
  PROVE  SubSeq(Append(s, x), m + 1, Len(s) + 1) = Append(SubSeq(s, m + 1, Len(s)), x)
<1> DEFINE a == SubSeq(Append(s, x), m + 1, Len(s) + 1)
           b == SubSeq(s, m + 1, Len(s))
<1>1. /\ Append(s, x) \in Seq(Items) /\ Len(Append(s, x)) = Len(s) + 1
      /\ \A i \in 1 .. Len(s) : Append(s, x)[i] = s[i]
      /\ Append(s, x)[Len(s) + 1] = x
  OBVIOUS
<1>2. /\ a \in Seq(Items) /\ Len(a) = Len(s) + 1 - m
      /\ \A i \in 1 .. Len(s) + 1 - m : a[i] = Append(s, x)[m + i]
  BY <1>1, SubSeqProperties
<1>3. /\ b \in Seq(Items) /\ Len(b) = Len(s) - m
      /\ \A i \in 1 .. Len(s) - m : b[i] = s[m + i]
  BY SubSeqProperties
<1>4. /\ Append(b, x) \in Seq(Items) /\ Len(Append(b, x)) = Len(s) - m + 1
      /\ \A i \in 1 .. Len(s) - m : Append(b, x)[i] = s[m + i]
      /\ Append(b, x)[Len(s) - m + 1] = x
  <2> HIDE DEF b
  <2>1. QED BY <1>3
<1> HIDE DEF a, b
<1>5. ASSUME NEW i \in 1 .. Len(s) + 1 - m PROVE a[i] = Append(b, x)[i]
  <2>1. a[i] = Append(s, x)[m + i]
    BY <1>2
  <2>2. CASE i \in 1 .. Len(s) - m
    <3>1. m + i \in 1 .. Len(s)
      BY <2>2
    <3>2. Append(s, x)[m + i] = s[m + i]
      BY <1>1, <3>1
    <3>3. Append(b, x)[i] = s[m + i]
      BY <1>4, <2>2
    <3>4. QED BY <2>1, <3>2, <3>3
  <2>3. CASE i = Len(s) - m + 1
    <3>1. m + i = Len(s) + 1
      BY <2>3
    <3>2. QED BY <1>1, <1>4, <2>1, <2>3, <3>1
  <2>4. i \in 1 .. Len(s) - m \/ i = Len(s) - m + 1
    <3>1. Len(s) \in Nat
      OBVIOUS
    <3>2. QED BY <3>1
  <2>5. QED BY <2>2, <2>3, <2>4
<1>6. a = Append(b, x)
  <2>1. Len(a) = Len(Append(b, x)) /\ 1 .. Len(a) = 1 .. Len(s) + 1 - m
    BY <1>2, <1>4
  <2>2. QED BY <1>2, <1>4, <1>5, <2>1, SeqEqual
<1>7. QED BY <1>6 DEF a, b

LEMMA WindowTake ==
  ASSUME NEW s \in Seq(Items), NEW m \in Nat, m < Len(s)
  PROVE  /\ SubSeq(s, m + 1, Len(s)) # <<>>
         /\ Head(SubSeq(s, m + 1, Len(s))) = s[m + 1]
         /\ Tail(SubSeq(s, m + 1, Len(s))) = SubSeq(s, m + 1 + 1, Len(s))
<1>1. m + 1 \in 1 .. Len(s) /\ Len(s) \in m + 1 .. Len(s)
  OBVIOUS
<1>2. Len(SubSeq(s, m + 1, Len(s))) = Len(s) - m
  BY SubSeqProperties
<1>3. SubSeq(s, m + 1, Len(s)) # <<>>
  BY SMTT(30), <1>2
<1>4. QED BY <1>1, <1>3, HeadTailOfSubSeq

\* The refinement mapping, named.
FifoQueue == SubSeq(accepted, taken + 1, Len(accepted))
FifoHeld == [c \in Consumers |-> IF Removing(c) THEN accepted[ticket[c]] ELSE Null]

\* No item that is about to be pushed is known to the abstract queue.
LEMMA FreshItem ==
  ASSUME IInv, NEW t \in Producers, at[t] \in {"push_check", "push_cas"}
  PROVE  Fifo!Fresh(val[t])
<1>1. /\ t \in Offering /\ val[t] \in Items
  BY DEF Offering, IInv, TypeOK, Threads, PushLabels
<1>2. /\ val[t] \notin refused
      /\ \A k \in 1 .. Len(accepted) : accepted[k] # val[t]
  BY <1>1 DEF IInv, ItemInv, TypeOK
<1>3. val[t] \notin Fifo!Pending
  <2>1. \A k \in DOMAIN FifoQueue : \E j \in 1 .. Len(accepted) : FifoQueue[k] = accepted[j]
    <3>1. \A j \in taken + 1 .. Len(accepted) : accepted[j] \in Items
      BY Counters DEF IInv, TypeOK
    <3>2. CASE taken + 1 <= Len(accepted)
      <4>1. /\ FifoQueue \in Seq(Items) /\ Len(FifoQueue) = Len(accepted) - taken
            /\ \A k \in 1 .. Len(accepted) - taken : FifoQueue[k] = accepted[taken + 1 + k - 1]
        BY <3>1, <3>2, Counters, SubSeqProperties DEF FifoQueue
      <4>2. ASSUME NEW k \in DOMAIN FifoQueue
            PROVE  \E j \in 1 .. Len(accepted) : FifoQueue[k] = accepted[j]
        <5>1. k \in 1 .. Len(accepted) - taken
          BY <4>1, <4>2, LenProperties
        <5>2. taken + 1 + k - 1 \in 1 .. Len(accepted)
          BY <5>1, Counters
        <5>3. QED BY <4>1, <5>1, <5>2
      <4>3. QED BY <4>2
    <3>3. CASE ~(taken + 1 <= Len(accepted))
      <4>1. FifoQueue = <<>>
        BY <3>3, Counters, SubSeqEmpty DEF FifoQueue
      <4>2. QED BY <4>1
    <3>4. QED BY <3>2, <3>3
  <2>2. QED BY <1>2, <2>1 DEF Fifo!Pending, FifoQueue
<1>4. val[t] \notin Fifo!Handed
  <2>1. \A c \in Consumers : FifoHeld[c] # val[t]
    <3>1. \A c \in Consumers : Removing(c) => ticket[c] \in 1 .. Len(accepted)
      BY Counters DEF IInv, RemoveInv
    <3>2. QED BY <1>1, <1>2, <3>1, NullAssumption DEF FifoHeld
  <2>2. \A c \in Consumers : \A j \in DOMAIN got[c] : got[c][j] # val[t]
    <3>1. \A k \in 1 .. taken : k \in 1 .. Len(accepted)
      BY Counters
    <3>2. QED BY <1>2, <3>1 DEF IInv, GotInv
  <2>3. QED BY <2>1, <2>2 DEF Fifo!Handed, FifoHeld
<1>5. QED BY <1>2, <1>3, <1>4 DEF Fifo!Fresh

LEMMA RefinementInit == Init => Fifo!Init
<1> SUFFICES ASSUME Init PROVE Fifo!Init
  OBVIOUS
<1>1. SubSeq(accepted, taken + 1, Len(accepted)) = <<>>
  BY SubSeqEmpty DEF Init
<1>2. \A c \in Consumers : ~Removing(c)
  BY DEF Init, Removing, Threads
<1>3. QED BY <1>1, <1>2 DEF Init, Fifo!Init

\* A step that does not touch the counters, the tickets of the removals or the
\* results is a step the abstract queue does not see.
LEMMA RefinementStutter ==
  ASSUME UNCHANGED <<accepted, taken, got, refused>>,
         \A c \in Consumers : Removing(c)' = Removing(c) /\ (Removing(c) => ticket'[c] = ticket[c])
  PROVE  UNCHANGED Fifo!vars
BY DEF Fifo!vars

LEMMA RefinementStep == Calm /\ IInv /\ IInv' /\ [Next]_vars => [Fifo!Next]_(Fifo!vars)
<1> SUFFICES ASSUME Calm, IInv, IInv', [Next]_vars
             PROVE  [Fifo!Next]_(Fifo!vars)
  OBVIOUS
<1>t. /\ \A t \in Producers : t \in Threads /\ t \notin Consumers
      /\ \A t \in Consumers : t \in Threads /\ t \notin Producers
      /\ at \in [Threads -> Labels] /\ ticket \in [Threads -> Nat]
      /\ accepted \in Seq(Items) /\ got \in [Consumers -> Seq(Items)]
  BY ThreadAssumption DEF Threads, IInv, TypeOK
<1>1. ASSUME NEW t \in Producers,
             \/ PushBegin(t)
             \/ PushRoom(t) /\ UNCHANGED history
             \/ PushRetry(t) /\ UNCHANGED history
             \/ PushDone(t)
      PROVE  UNCHANGED Fifo!vars
  <2>1. \A c \in Consumers : at'[c] = at[c] /\ ticket'[c] = ticket[c]
    BY <1>t, <1>1 DEF PushBegin, PushCall, PushRoom, PushRetry, PushDone, PushStore
  <2>2. UNCHANGED <<accepted, taken, got, refused>>
    BY <1>1 DEF PushBegin, PushDone
  <2>3. QED BY <2>1, <2>2, RefinementStutter DEF Removing
<1>2. ASSUME NEW t \in Producers, PushRefused(t)
      PROVE  Fifo!Refuse(val[t])
  <2>1. at[t] = "push_check" /\ Fifo!Fresh(val[t]) /\ val[t] \in Items
    BY <1>2, <1>t, FreshItem DEF PushRefused, PushFull, IInv, TypeOK, PushLabels
  <2>2. /\ \A c \in Consumers : at'[c] = at[c]
        /\ UNCHANGED <<accepted, taken, got, ticket>> /\ refused' = refused \cup {val[t]}
    BY <1>2, <1>t DEF PushRefused, PushFull
  <2>3. SingleProducer => Len(SubSeq(accepted, taken + 1, Len(accepted))) = Size - 1
    <3>1. SUFFICES ASSUME SingleProducer PROVE Len(accepted) - taken = Size - 1
      <4>1. ASSUME Len(accepted) - taken = Size - 1
            PROVE  Len(SubSeq(accepted, taken + 1, Len(accepted))) = Size - 1
        <5>1. \A j \in taken + 1 .. Len(accepted) : accepted[j] \in Items
          BY <1>t, Counters
        <5>2. CASE taken + 1 <= Len(accepted)
          BY <4>1, <5>1, <5>2, Counters, SubSeqProperties
        <5>3. CASE ~(taken + 1 <= Len(accepted))
          BY <4>1, <5>3, Counters, SubSeqEmpty, SizeAssumption
        <5>4. QED BY <5>2, <5>3
      <4>2. QED BY <3>1, <4>1
    <3>2. Succ(end) = start
      BY <1>2, <2>1, <3>1 DEF IInv, OfferInv, PushRefused, PushFull
    <3>3. (Len(accepted) + 1) % Size = taken % Size
      BY <3>2, Counters, ModSucc DEF IInv, CounterInv
    <3>4. ~(taken < Len(accepted) + 1 /\ Len(accepted) + 1 < taken + Size)
      BY <3>3, ModDistinct, Counters
    <3>5. QED BY <3>4, Counters, SizeAssumption
  <2>4. QED BY <2>1, <2>2, <2>3 DEF Fifo!Refuse, Removing
<1>3. ASSUME NEW t \in Producers, PushAccepted(t)
      PROVE  Fifo!Accept(val[t])
  <2>1. at[t] = "push_cas" /\ Fifo!Fresh(val[t]) /\ val[t] \in Items
    BY <1>3, <1>t, FreshItem DEF PushAccepted, PushClaim, IInv, TypeOK, PushLabels
  <2>2. /\ \A c \in Consumers : at'[c] = at[c] /\ ticket'[c] = ticket[c]
        /\ UNCHANGED <<taken, got, refused>> /\ accepted' = Append(accepted, val[t])
    BY <1>3, <1>t DEF PushAccepted, PushClaim
  <2>3. Len(SubSeq(accepted, taken + 1, Len(accepted))) < Size - 1
    <3>1. Len(accepted) - taken < Size - 1
      <4>1. Len(accepted) + 1 < taken + Size
        BY <2>1, OfferRoom
      <4>2. QED BY <4>1, Counters, SizeAssumption
    <3>2. \A j \in taken + 1 .. Len(accepted) : accepted[j] \in Items
      BY <1>t, Counters
    <3>3. CASE taken + 1 <= Len(accepted)
      BY <3>1, <3>2, <3>3, Counters, SubSeqProperties
    <3>4. CASE ~(taken + 1 <= Len(accepted))
      BY <3>1, <3>4, Counters, SubSeqEmpty, SizeAssumption
    <3>5. QED BY <3>3, <3>4
  <2>4. Len(accepted') = Len(accepted) + 1
    BY <1>t, <2>1, <2>2
  <2>5. SubSeq(accepted', taken' + 1, Len(accepted')) =
          Append(SubSeq(accepted, taken + 1, Len(accepted)), val[t])
    <3>1. SubSeq(Append(accepted, val[t]), taken + 1, Len(accepted) + 1) =
            Append(SubSeq(accepted, taken + 1, Len(accepted)), val[t])
      BY <1>t, <2>1, WindowAppend, Counters
    <3>2. QED BY <2>2, <2>4, <3>1
  <2>6. \A c \in Consumers : Removing(c) => accepted'[ticket[c]] = accepted[ticket[c]]
    <3>1. \A c \in Consumers : Removing(c) => ticket[c] \in 1 .. Len(accepted)
      BY Counters DEF IInv, RemoveInv
    <3>2. \A k \in 1 .. Len(accepted) : accepted'[k] = accepted[k]
      BY <1>t, <2>1, <2>2
    <3>3. QED BY <3>1, <3>2
  <2>7. QED BY <2>1, <2>2, <2>3, <2>5, <2>6 DEF Fifo!Accept, Removing
<1>4. ASSUME NEW t \in Consumers,
             PopCall(t) \/ PopEmpty(t) \/ PopSome(t) \/ PopLost(t) \/ PopLoad(t),
             UNCHANGED history
      PROVE  UNCHANGED Fifo!vars
  <2>1. \A c \in Consumers : Removing(c)' = Removing(c)
    BY <1>t, <1>4 DEF PopCall, PopEmpty, PopSome, PopLost, PopLoad, Removing
  <2>2. QED BY <1>4, <2>1, RefinementStutter
<1>5. ASSUME NEW t \in Consumers, PopTaken(t)
      PROVE  Fifo!Take(t)
  <2>1. /\ ~Removing(t) /\ Removing(t)' /\ ticket'[t] = taken + 1
        /\ \A c \in Consumers : c # t => Removing(c)' = Removing(c) /\ ticket'[c] = ticket[c]
        /\ UNCHANGED <<accepted, got, refused>> /\ taken' = taken + 1
    BY <1>5, <1>t DEF PopTaken, PopClaim, Removing
  <2>2. taken < Len(accepted)
    BY <1>5 DEF PopTaken, PopClaim, IInv, TakeInv
  <2>3. /\ FifoQueue # <<>> /\ Head(FifoQueue) = accepted[taken + 1]
        /\ Tail(FifoQueue) = SubSeq(accepted, taken + 1 + 1, Len(accepted))
    BY <1>t, <2>2, WindowTake, Counters DEF FifoQueue
  <2>4. SubSeq(accepted', taken' + 1, Len(accepted')) = Tail(FifoQueue)
    BY <2>1, <2>3
  <2>5. FifoHeld' = [FifoHeld EXCEPT ![t] = Head(FifoQueue)] /\ FifoHeld[t] = Null
    BY <1>5, <2>1, <2>3 DEF FifoHeld
  <2>6. QED BY <2>1, <2>3, <2>4, <2>5 DEF Fifo!Take, FifoQueue, FifoHeld
<1>6. ASSUME NEW t \in Consumers, PopDone(t)
      PROVE  Fifo!Deliver(t)
  <2>1. /\ Removing(t) /\ ~Removing(t)' /\ val[t] = accepted[ticket[t]] /\ val[t] # Null
        /\ \A c \in Consumers : c # t => Removing(c)' = Removing(c) /\ ticket'[c] = ticket[c]
        /\ UNCHANGED <<accepted, taken, refused>> /\ got' = [got EXCEPT ![t] = Append(@, val[t])]
    BY <1>6, <1>t, NullAssumption
       DEF PopDone, PopClear, Removing, IInv, TypeOK, RemoveInv, PushLabels
  <2>2. QED BY <1>t, <2>1 DEF Fifo!Deliver
<1>7. CASE UNCHANGED vars
  BY <1>7, RefinementStutter DEF Removing
<1>8. ASSUME NEW t \in Producers, PushBegin(t) \/ PushStep(t)
      PROVE  [Fifo!Next]_(Fifo!vars)
  <2>1. PushRefused(t) \/ PushAccepted(t) => val[t] \in Items
    BY <1>t DEF PushRefused, PushFull, PushAccepted, PushClaim, IInv, TypeOK, PushLabels
  <2>2. QED BY <1>1, <1>2, <1>3, <1>8, <2>1 DEF PushStep, Fifo!Next
<1>9. ASSUME NEW t \in Consumers, PopStep(t)
      PROVE  [Fifo!Next]_(Fifo!vars)
  BY <1>4, <1>5, <1>6, <1>9 DEF PopStep, Fifo!Next
<1>10. QED BY <1>7, <1>8, <1>9 DEF Next

\* The ring refines the abstract bounded FIFO queue: with one producer and one
\* consumer, or without laps, the calls of atomic_queue.h:53-91 behave as if each
\* took effect in one step, for every Size, MaxPush and number of threads.
THEOREM Refinement == Calm => (Spec => ImplementsFifo)
<1> SUFFICES ASSUME Calm PROVE Spec => Fifo!Spec
  BY DEF ImplementsFifo
<1>1. Spec => []IInv
  BY CalmInvariant
<1>2. IInv /\ IInv' /\ [Next]_vars => [Fifo!Next]_(Fifo!vars)
  BY RefinementStep
<1>3. QED BY <1>1, <1>2, RefinementInit, PTL DEF Spec, Fifo!Spec
=============================================================================
