-------------------------------- MODULE Arena -------------------------------
(***************************************************************************)
(* The memory of worker.h's job objects: alloc() hands out the bytes of    *)
(* `buffer` from the front, any thread may call it, and clear() starts     *)
(* again at the front.  buffer_index is a uint16_t.                        *)
(***************************************************************************)
EXTENDS Naturals

CONSTANTS
  Threads,
  BufferSize,    \* buffer.size()
  Sizes,         \* the sizes asked for: sizeof(m) of the job classes
  WorkSizeMod,   \* 2^16, the number of values of work_size_t
  WeakFails

\* What is asked of the constants.
SizesAssumption == BufferSize \in Nat /\ WorkSizeMod \in Nat \ {0} /\ Sizes \subseteq Nat \ {0}

VARIABLES
  buffer_index,  \* the first byte not handed out
  cidx,          \* per thread in alloc(): the index it has read, else Free
  want,          \* per thread in alloc(): the size it asks for
  blocks         \* the blocks handed out since the last clear()

arena == <<buffer_index, cidx, want, blocks>>

Free == BufferSize + 1

Init == /\ buffer_index = 0
        /\ cidx = [t \in Threads |-> Free]
        /\ want = [t \in Threads |-> 0]
        /\ blocks = {}

\* next = cidx + sz, in 16 bits
Bump(i, sz) == (i + sz) % WorkSizeMod
Fits(i, sz) == Bump(i, sz) <= BufferSize

Give(t) == /\ cidx' = [cidx EXCEPT ![t] = Free]
           /\ want' = [want EXCEPT ![t] = 0]

-----------------------------------------------------------------------------
\* cidx = buffer_index; if (next > buffer.size()) return {nullptr, 0};
AllocRefused(t, sz) == /\ cidx[t] = Free
                       /\ ~Fits(buffer_index, sz)
                       /\ UNCHANGED arena

AllocRead(t, sz) == /\ cidx[t] = Free
                    /\ Fits(buffer_index, sz)
                    /\ cidx' = [cidx EXCEPT ![t] = buffer_index]
                    /\ want' = [want EXCEPT ![t] = sz]
                    /\ UNCHANGED <<buffer_index, blocks>>

\* Mutant of AllocClaim: buffer_index = next without the comparison.
AllocClaimBlind(t) == /\ cidx[t] # Free
                      /\ buffer_index' = Bump(cidx[t], want[t])
                      /\ blocks' = blocks \cup {[thread |-> t, at |-> cidx[t], size |-> want[t]]}
                      /\ Give(t)

\* buffer_index.compare_exchange_weak(cidx, next) succeeds
AllocClaim(t) == /\ cidx[t] # Free
                 /\ buffer_index = cidx[t]
                 /\ buffer_index' = Bump(cidx[t], want[t])
                 /\ blocks' = blocks \cup {[thread |-> t, at |-> cidx[t], size |-> want[t]]}
                 /\ Give(t)

\* ... fails: the loop reads buffer_index anew
AllocRetry(t) == /\ cidx[t] # Free
                 /\ buffer_index # cidx[t] \/ WeakFails
                 /\ Give(t)
                 /\ UNCHANGED <<buffer_index, blocks>>

\* void clear() { buffer_index = 0; }
Clear == /\ buffer_index' = 0
         /\ blocks' = {}
         /\ UNCHANGED <<cidx, want>>

Next == \/ \E t \in Threads : \/ \E sz \in Sizes : AllocRead(t, sz) \/ AllocRefused(t, sz)
                              \/ AllocClaim(t) \/ AllocRetry(t)
        \/ Clear

Spec == Init /\ [][Next]_arena

-----------------------------------------------------------------------------
\* No index up to the end of the buffer wraps when the largest job is added: the
\* default buffer of 4096 bytes is far from it, one of 65536 bytes is not.
NoWrap == \A sz \in Sizes : BufferSize + sz < WorkSizeMod

Blocks == [thread : Threads, at : 0 .. BufferSize, size : Sizes]

\* Indexes, sizes and blocks are in range.
TypeOK == /\ buffer_index \in 0 .. BufferSize
          /\ cidx \in [Threads -> 0 .. Free]
          /\ want \in [Threads -> Sizes \cup {0}]
          /\ \A t \in Threads : cidx[t] # Free => want[t] \in Sizes /\ Fits(cidx[t], want[t])
          /\ blocks \subseteq Blocks

\* A block is inside the buffer (worker.h:86-98).
InBounds == \A b \in blocks : b.at + b.size <= BufferSize

\* Blocks handed out to different calls do not overlap, however the calls
\* interleave and whatever they do while clear() runs (worker.h:82-98).
Disjoint == \A a, b \in blocks : a # b => a.at + a.size <= b.at \/ b.at + b.size <= a.at

\* Everything handed out lies below the index.
BelowIndex == \A b \in blocks : b.at + b.size <= buffer_index

IInv == TypeOK /\ Disjoint /\ BelowIndex
=============================================================================
