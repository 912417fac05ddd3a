---------------------------- MODULE Arena_proofs ----------------------------
(***************************************************************************)
(* Proofs about the allocator of worker.h for every buffer size, set of    *)
(* job sizes and number of threads, as long as no index wraps (NoWrap).    *)
(***************************************************************************)
EXTENDS Arena, TLAPS

LEMMA SizesAreNaturals ==
  ASSUME SizesAssumption
  PROVE  /\ BufferSize \in Nat
         /\ \A sz \in Sizes : sz \in Nat /\ sz > 0
BY DEF SizesAssumption

LEMMA BlockNumbers ==
  ASSUME SizesAssumption, NEW b \in Blocks
  PROVE  b.at \in Nat /\ b.at <= BufferSize /\ b.size \in Nat
<1>1. b.at \in 0 .. BufferSize /\ b.size \in Sizes
  BY DEF Blocks
<1>2. QED BY <1>1, SizesAreNaturals

LEMMA OperandNumbers ==
  ASSUME SizesAssumption, NEW i \in 0 .. BufferSize, NEW sz \in Sizes
  PROVE  i \in Nat /\ sz \in Nat
BY SizesAreNaturals

LEMMA BumpIsSum ==
  ASSUME SizesAssumption, NoWrap, NEW i \in 0 .. BufferSize, NEW sz \in Sizes
  PROVE  Bump(i, sz) = i + sz
<1>1. i + sz \in Nat /\ i + sz < WorkSizeMod
  BY DEF NoWrap, SizesAssumption
<1>2. QED BY <1>1 DEF Bump, SizesAssumption

LEMMA ArenaInit == SizesAssumption /\ Init => IInv
BY DEF SizesAssumption, Init, IInv, TypeOK, Disjoint, BelowIndex, Free

\* The types hold even where an index wraps: alloc() looks at the wrapped sum.
LEMMA ArenaTypeStep == SizesAssumption /\ TypeOK /\ [Next]_arena => TypeOK'
<1> SUFFICES ASSUME SizesAssumption, TypeOK, [Next]_arena
             PROVE  TypeOK'
  OBVIOUS
<1> USE DEF SizesAssumption, TypeOK, Free
<1>1. ASSUME NEW t \in Threads, NEW sz \in Sizes, AllocRead(t, sz)
      PROVE  TypeOK'
  BY <1>1 DEF AllocRead
<1>2. ASSUME NEW t \in Threads, NEW sz \in Sizes, AllocRefused(t, sz)
      PROVE  TypeOK'
  BY <1>2 DEF AllocRefused, arena
<1>3. ASSUME NEW t \in Threads, AllocClaim(t)
      PROVE  TypeOK'
  <2>1. cidx[t] \in 0 .. BufferSize /\ want[t] \in Sizes /\ Fits(cidx[t], want[t])
    BY <1>3 DEF AllocClaim
  <2>2. Bump(cidx[t], want[t]) \in 0 .. BufferSize
    <3>1. cidx[t] \in Nat /\ want[t] \in Nat
      BY <2>1, OperandNumbers
    <3>2. QED BY <2>1, <3>1 DEF Fits, Bump
  <2>3. [thread |-> t, at |-> cidx[t], size |-> want[t]] \in Blocks
    BY <2>1 DEF Blocks
  <2>4. QED BY <1>3, <2>2, <2>3 DEF AllocClaim, Give
<1>4. ASSUME NEW t \in Threads, AllocRetry(t)
      PROVE  TypeOK'
  BY <1>4 DEF AllocRetry, Give
<1>5. CASE Clear
  BY <1>5 DEF Clear
<1>6. CASE UNCHANGED arena
  BY <1>6 DEF arena
<1>7. QED BY <1>1, <1>2, <1>3, <1>4, <1>5, <1>6 DEF Next

LEMMA ArenaStep == SizesAssumption /\ NoWrap /\ IInv /\ [Next]_arena => IInv'
<1> SUFFICES ASSUME SizesAssumption, NoWrap, IInv, [Next]_arena
             PROVE  IInv'
  OBVIOUS
<1> USE DEF SizesAssumption, IInv, TypeOK, Free
<1>1. ASSUME NEW t \in Threads, NEW sz \in Sizes, AllocRead(t, sz)
      PROVE  IInv'
  BY <1>1 DEF AllocRead, Disjoint, BelowIndex
<1>2. ASSUME NEW t \in Threads, NEW sz \in Sizes, AllocRefused(t, sz)
      PROVE  IInv'
  BY <1>2 DEF AllocRefused, arena, Disjoint, BelowIndex
<1>3. ASSUME NEW t \in Threads, AllocClaim(t)
      PROVE  IInv'
  <2> DEFINE b == [thread |-> t, at |-> cidx[t], size |-> want[t]]
  <2>1. /\ cidx[t] \in 0 .. BufferSize /\ want[t] \in Sizes /\ buffer_index = cidx[t]
        /\ blocks' = blocks \cup {b}
    BY <1>3 DEF AllocClaim
  <2>2. buffer_index' = cidx[t] + want[t] /\ buffer_index' <= BufferSize
    BY <1>3, <2>1, BumpIsSum DEF AllocClaim, Fits
  <2>3. b \in Blocks /\ b.at + b.size = buffer_index' /\ b.at = buffer_index
    BY <2>1, <2>2 DEF Blocks
  <2>4. \A a \in blocks : a \in Blocks /\ a.at + a.size <= buffer_index
    BY DEF BelowIndex
  <2>5. \A a \in Blocks : a.at \in Nat /\ a.size \in Nat
    BY BlockNumbers
  <2>6. buffer_index' \in 0 .. BufferSize
    <3>1. cidx[t] \in Nat /\ want[t] \in Nat
      BY <2>1, OperandNumbers
    <3>2. QED BY <2>2, <3>1, SizesAreNaturals
  <2>7. TypeOK'
    BY <1>3, <2>1, <2>3, <2>6 DEF AllocClaim, Give
  <2>8. BelowIndex'
    BY <2>1, <2>2, <2>3, <2>4, <2>5, <2>6 DEF BelowIndex
  <2>9. Disjoint'
    BY <2>1, <2>3, <2>4, <2>5 DEF Disjoint
  <2>10. QED BY <2>7, <2>8, <2>9
<1>4. ASSUME NEW t \in Threads, AllocRetry(t)
      PROVE  IInv'
  BY <1>4 DEF AllocRetry, Give, Disjoint, BelowIndex
<1>5. CASE Clear
  BY <1>5 DEF Clear, Disjoint, BelowIndex
<1>6. CASE UNCHANGED arena
  BY <1>6 DEF arena, Disjoint, BelowIndex
<1>7. QED BY <1>1, <1>2, <1>3, <1>4, <1>5, <1>6 DEF Next

\* Concurrent calls of alloc() never get overlapping memory (worker.h:82-98).
THEOREM BlocksDisjoint == SizesAssumption /\ NoWrap => (Spec => []Disjoint)
<1> SUFFICES ASSUME SizesAssumption, NoWrap PROVE Spec => []Disjoint
  OBVIOUS
<1>1. IInv /\ [Next]_arena => IInv'
  BY ArenaStep
<1>2. IInv => Disjoint
  BY DEF IInv
<1>3. QED BY <1>1, <1>2, ArenaInit, PTL DEF Spec

\* Memory handed out lies inside the buffer (worker.h:91-98).
THEOREM BlocksInBounds == SizesAssumption /\ NoWrap => (Spec => []InBounds)
<1> SUFFICES ASSUME SizesAssumption, NoWrap PROVE Spec => []InBounds
  OBVIOUS
<1>1. IInv /\ [Next]_arena => IInv'
  BY ArenaStep
<1>2. IInv => InBounds
  <2>1. ASSUME IInv, NEW b \in blocks PROVE b.at + b.size <= BufferSize
    <3>1. b \in Blocks /\ b.at + b.size <= buffer_index /\ buffer_index \in 0 .. BufferSize
      BY <2>1 DEF IInv, TypeOK, BelowIndex
    <3>2. b.at \in Nat /\ b.size \in Nat
      BY <3>1, BlockNumbers
    <3>3. QED BY <3>1, <3>2, SizesAreNaturals
  <2>2. QED BY <2>1 DEF InBounds
<1>3. QED BY <1>1, <1>2, ArenaInit, PTL DEF Spec
=============================================================================
