----------------------------- MODULE AtomicRing -----------------------------
(***************************************************************************)
(* The ring of atomic_queue.h: Queue<T> (pointers, empty slot = nullptr)   *)
(* and NQueue<T> (numbers, empty slot = invalid_value) are the same        *)
(* algorithm, so one module stands for both.                               *)
(*                                                                         *)
(* Every std::atomic access of the C++ code is sequentially consistent,    *)
(* hence one step of this module is one atomic access of one thread.  The  *)
(* module only knows the ring and the registers of the calls in progress;  *)
(* the modules that use a ring decide who calls it and what a return is    *)
(* good for.                                                               *)
(***************************************************************************)
EXTENDS Naturals

CONSTANTS
  Size,      \* buffer.size()
  Null,      \* nullptr, or the invalid_value of an NQueue
  WeakFails  \* may compare_exchange_weak fail although the value matches?

ASSUME SizeAssumption == Size \in Nat \ {0}
ASSUME WeakAssumption == WeakFails \in BOOLEAN

VARIABLES
  buffer,    \* the slots
  start,     \* next slot to pop
  end,       \* next slot to push to
  at,        \* per thread: the access it performs next
  idx,       \* per thread: the local e (push) or s (pop, empty)
  val        \* per thread: the local p

ring == <<buffer, start, end>>
regs == <<at, idx, val>>

Slots == 0 .. Size - 1
Succ(i) == (i + 1) % Size

PushLabels == {"push_check", "push_cas", "push_store"}
PopLabels == {"pop_check", "pop_cas", "pop_load", "pop_clear"}
Labels == {"idle", "empty_check"} \cup PushLabels \cup PopLabels

RingInit == /\ buffer = [i \in Slots |-> Null]
            /\ start = 0
            /\ end = 0

RingTypeOK(Payload) == /\ buffer \in [Slots -> Payload \cup {Null}]
                       /\ start \in Slots
                       /\ end \in Slots

Goto(t, label) == at' = [at EXCEPT ![t] = label]

\* The call is over: its locals are gone.
Return(t) == /\ Goto(t, "idle")
             /\ idx' = [idx EXCEPT ![t] = 0]
             /\ val' = [val EXCEPT ![t] = Null]

-----------------------------------------------------------------------------
\* bool push(T* p)

\* int n, e = end;
PushCall(t, p) == /\ at[t] = "idle"
                  /\ Goto(t, "push_check")
                  /\ idx' = [idx EXCEPT ![t] = end]
                  /\ val' = [val EXCEPT ![t] = p]
                  /\ UNCHANGED ring

\* if (n == start) return false;
PushFull(t) == /\ at[t] = "push_check"
               /\ Succ(idx[t]) = start
               /\ Return(t)
               /\ UNCHANGED ring

\* Mutant of PushRoom: the full check is missing.
PushRoomUnchecked(t) == /\ at[t] = "push_check"
                        /\ Goto(t, "push_cas")
                        /\ UNCHANGED <<ring, idx, val>>

PushRoom(t) == /\ at[t] = "push_check"
               /\ Succ(idx[t]) # start
               /\ Goto(t, "push_cas")
               /\ UNCHANGED <<ring, idx, val>>

\* Mutant of PushClaim: n = e + 1 without % buffer.size().
PushClaimUnwrapped(t) == /\ at[t] = "push_cas"
                         /\ end = idx[t]
                         /\ end' = end + 1
                         /\ Goto(t, "push_store")
                         /\ UNCHANGED <<buffer, start, idx, val>>

\* Mutant of PushClaim: a plain store, end = n.
PushClaimBlind(t) == /\ at[t] = "push_cas"
                     /\ end' = Succ(idx[t])
                     /\ Goto(t, "push_store")
                     /\ UNCHANGED <<buffer, start, idx, val>>

\* end.compare_exchange_weak(e, n) succeeds
PushClaim(t) == /\ at[t] = "push_cas"
                /\ end = idx[t]
                /\ end' = Succ(idx[t])
                /\ Goto(t, "push_store")
                /\ UNCHANGED <<buffer, start, idx, val>>

\* ... fails and reloads e
PushRetry(t) == /\ at[t] = "push_cas"
                /\ end # idx[t] \/ WeakFails
                /\ Goto(t, "push_check")
                /\ idx' = [idx EXCEPT ![t] = end]
                /\ UNCHANGED <<ring, val>>

\* Mutant of PushStore: buffer[n] = p.
PushStoreNext(t) == /\ at[t] = "push_store"
                    /\ buffer' = [buffer EXCEPT ![Succ(idx[t])] = val[t]]
                    /\ Return(t)
                    /\ UNCHANGED <<start, end>>

\* buffer[e] = p; return true;
PushStore(t) == /\ at[t] = "push_store"
                /\ buffer' = [buffer EXCEPT ![idx[t]] = val[t]]
                /\ Return(t)
                /\ UNCHANGED <<start, end>>

-----------------------------------------------------------------------------
\* T* pop()

\* int s = start;
PopCall(t) == /\ at[t] = "idle"
              /\ Goto(t, "pop_check")
              /\ idx' = [idx EXCEPT ![t] = start]
              /\ UNCHANGED <<ring, val>>

\* if (s == end) return nullptr;
PopEmpty(t) == /\ at[t] = "pop_check"
               /\ idx[t] = end
               /\ Return(t)
               /\ UNCHANGED ring

PopSome(t) == /\ at[t] = "pop_check"
              /\ idx[t] # end
              /\ Goto(t, "pop_cas")
              /\ UNCHANGED <<ring, idx, val>>

\* Mutant of PopClaim: a plain store, start = n.
PopClaimBlind(t) == /\ at[t] = "pop_cas"
                    /\ start' = Succ(idx[t])
                    /\ Goto(t, "pop_load")
                    /\ UNCHANGED <<buffer, end, idx, val>>

\* start.compare_exchange_weak(s, n) succeeds
PopClaim(t) == /\ at[t] = "pop_cas"
               /\ start = idx[t]
               /\ start' = Succ(idx[t])
               /\ Goto(t, "pop_load")
               /\ UNCHANGED <<buffer, end, idx, val>>

\* ... fails: return nullptr, although the ring need not be empty
PopLost(t) == /\ at[t] = "pop_cas"
              /\ start # idx[t] \/ WeakFails
              /\ Return(t)
              /\ UNCHANGED ring

\* Mutant of PopLoad: no loop while (p == nullptr).
PopLoadNoWait(t) == /\ at[t] = "pop_load"
                    /\ val' = [val EXCEPT ![t] = buffer[idx[t]]]
                    /\ Goto(t, "pop_clear")
                    /\ UNCHANGED <<ring, idx>>

\* p = buffer[s].load() and the loop while (p == nullptr): the loads that find
\* nothing change nothing, so the step is the load that leaves the loop.
PopLoad(t) == /\ at[t] = "pop_load"
              /\ buffer[idx[t]] # Null
              /\ val' = [val EXCEPT ![t] = buffer[idx[t]]]
              /\ Goto(t, "pop_clear")
              /\ UNCHANGED <<ring, idx>>

\* Mutant of PopClear: buffer[s] = nullptr is missing.
PopClearSkipped(t) == /\ at[t] = "pop_clear"
                      /\ Return(t)
                      /\ UNCHANGED ring

\* buffer[s] = nullptr; return p;
PopClear(t) == /\ at[t] = "pop_clear"
               /\ buffer' = [buffer EXCEPT ![idx[t]] = Null]
               /\ Return(t)
               /\ UNCHANGED <<start, end>>

-----------------------------------------------------------------------------
\* bool empty() const { return start == end; } is two loads.

EmptyCall(t) == /\ at[t] = "idle"
                /\ Goto(t, "empty_check")
                /\ idx' = [idx EXCEPT ![t] = start]
                /\ UNCHANGED <<ring, val>>

EmptyTrue(t) == /\ at[t] = "empty_check"
                /\ idx[t] = end
                /\ Return(t)
                /\ UNCHANGED ring

EmptyFalse(t) == /\ at[t] = "empty_check"
                 /\ idx[t] # end
                 /\ Return(t)
                 /\ UNCHANGED ring
=============================================================================
