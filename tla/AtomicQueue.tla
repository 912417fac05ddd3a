----------------------------- MODULE AtomicQueue ----------------------------
(***************************************************************************)
(* Clients of one Queue of atomic_queue.h: every producer thread may call  *)
(* push with an item of its own, every consumer thread calls pop again and *)
(* again, as the worker threads of worker.h and worker2.h do.  MaxPush     *)
(* bounds the number of push calls of a behaviour.                         *)
(*                                                                         *)
(* The history variables say what the calls did to the queue:              *)
(*   calls     the number of push calls; the k-th call pushes item k       *)
(*   accepted  the items in the order in which push moved `end`            *)
(*   taken     how often pop moved `start`                                 *)
(*   ticket    per thread, the position its call claimed: the k-th push    *)
(*             claim or the k-th pop claim                                 *)
(*   got       per consumer, the items pop returned                        *)
(*   refused   the items for which push returned false                     *)
(***************************************************************************)
EXTENDS AtomicRing, Sequences, FiniteSets

CONSTANTS Producers, Consumers, MaxPush

Items == 1 .. MaxPush
Threads == Producers \cup Consumers

ASSUME ThreadAssumption == /\ IsFiniteSet(Producers)
                           /\ Producers \cap Consumers = {}
ASSUME BoundAssumption == MaxPush \in Nat
\* An NQueue must never be given its invalid_value, nor a Queue a nullptr:
\* the slot would look empty for ever.
ASSUME NullAssumption == Null \notin Items

VARIABLES calls, accepted, taken, ticket, got, refused

history == <<calls, accepted, taken, ticket, got, refused>>
vars == <<ring, regs, history>>

Init == /\ RingInit
        /\ at = [t \in Threads |-> "idle"]
        /\ idx = [t \in Threads |-> 0]
        /\ val = [t \in Threads |-> Null]
        /\ calls = 0
        /\ accepted = <<>>
        /\ taken = 0
        /\ ticket = [t \in Threads |-> 0]
        /\ got = [c \in Consumers |-> <<>>]
        /\ refused = {}

-----------------------------------------------------------------------------
PushBegin(t) == /\ calls < MaxPush
                /\ PushCall(t, calls + 1)
                /\ calls' = calls + 1
                /\ UNCHANGED <<accepted, taken, ticket, got, refused>>

PushRefused(t) == /\ PushFull(t)
                  /\ refused' = refused \cup {val[t]}
                  /\ UNCHANGED <<calls, accepted, taken, ticket, got>>

PushAccepted(t) == /\ PushClaim(t)
                   /\ accepted' = Append(accepted, val[t])
                   /\ ticket' = [ticket EXCEPT ![t] = Len(accepted) + 1]
                   /\ UNCHANGED <<calls, taken, got, refused>>

PushDone(t) == /\ PushStore(t)
               /\ ticket' = [ticket EXCEPT ![t] = 0]
               /\ UNCHANGED <<calls, accepted, taken, got, refused>>

\* The steps of a push call once it has begun.
PushStep(t) == \/ PushRoom(t) /\ UNCHANGED history
               \/ PushRetry(t) /\ UNCHANGED history
               \/ PushRefused(t)
               \/ PushAccepted(t)
               \/ PushDone(t)

PopTaken(t) == /\ PopClaim(t)
               /\ taken' = taken + 1
               /\ ticket' = [ticket EXCEPT ![t] = taken + 1]
               /\ UNCHANGED <<calls, accepted, got, refused>>

PopDone(t) == /\ PopClear(t)
              /\ got' = [got EXCEPT ![t] = Append(@, val[t])]
              /\ ticket' = [ticket EXCEPT ![t] = 0]
              /\ UNCHANGED <<calls, accepted, taken, refused>>

PopStep(t) == \/ PopCall(t) /\ UNCHANGED history
              \/ PopEmpty(t) /\ UNCHANGED history
              \/ PopSome(t) /\ UNCHANGED history
              \/ PopLost(t) /\ UNCHANGED history
              \/ PopLoad(t) /\ UNCHANGED history
              \/ PopTaken(t)
              \/ PopDone(t)

Next == \/ \E t \in Producers : PushBegin(t) \/ PushStep(t)
        \/ \E t \in Consumers : PopStep(t)

Spec == Init /\ [][Next]_vars

\* The operating system runs every thread; a call that has begun goes on, and
\* consumers poll.  Nobody has to push.
FairSpec == /\ Spec
            /\ \A t \in Producers : WF_vars(PushStep(t))
            /\ \A t \in Consumers : WF_vars(PopStep(t))

-----------------------------------------------------------------------------
(***************************************************************************)
(* Where the queue can be relied on: one producer and one consumer, or so  *)
(* few pushes that `end` never comes round to a slot used before.          *)
(***************************************************************************)
SingleProducer == \A t, u \in Producers : t = u
SingleConsumer == \A t, u \in Consumers : t = u
NeverLaps == MaxPush < Size
Calm == (SingleProducer /\ SingleConsumer) \/ NeverLaps

-----------------------------------------------------------------------------
\* The values have the types of the C++ members and locals (atomic_queue.h:42-62).
TypeOK == /\ RingTypeOK(Items)
          /\ at \in [Threads -> Labels]
          /\ \A t \in Producers : at[t] \in {"idle"} \cup PushLabels
          /\ \A t \in Consumers : at[t] \in {"idle"} \cup PopLabels
          /\ idx \in [Threads -> Slots]
          /\ val \in [Threads -> Items \cup {Null}]
          /\ \A t \in Threads : at[t] \in PushLabels \cup {"pop_clear"} => val[t] \in Items
          /\ calls \in 0 .. MaxPush
          /\ accepted \in Seq(Items)
          /\ taken \in Nat
          /\ ticket \in [Threads -> Nat]
          /\ got \in [Consumers -> Seq(Items)]
          /\ refused \subseteq Items

Delivered == UNION {{got[c][j] : j \in DOMAIN got[c]} : c \in Consumers}
InSlot(x) == \E i \in Slots : buffer[i] = x
InHand(x) == \E t \in Threads : at[t] \in {"push_store", "pop_clear"} /\ val[t] = x

\* push returned true (or is about to): from then on the item is in its slot,
\* in the local of the call that moves it, or returned by a pop.  Nothing
\* overwrites a slot before its pop has read it (atomic_queue.h:53-66, 84-90).
NothingLost == \A k \in DOMAIN accepted :
                 LET x == accepted[k] IN InSlot(x) \/ InHand(x) \/ x \in Delivered

\* No two pops return the same item: a slot is cleared before it is used
\* again and two pops never read the same slot (atomic_queue.h:79, 90).
AtMostOnce == \A c, d \in Consumers : \A j \in DOMAIN got[c], k \in DOMAIN got[d] :
                got[c][j] = got[d][k] => c = d /\ j = k

(***************************************************************************)
(* The inductive invariant.  Position k is the k-th accepted item; it      *)
(* lives in slot (k-1) % Size from its claim until the pop that claimed it *)
(* has cleared the slot.                                                   *)
(***************************************************************************)
SlotOf(k) == (k - 1) % Size
Storing(t) == at[t] = "push_store"
Removing(t) == at[t] \in {"pop_load", "pop_clear"}
Offering == {t \in Producers : at[t] \in {"push_check", "push_cas"}}

Live == (taken + 1 .. Len(accepted)) \cup {ticket[c] : c \in {d \in Consumers : Removing(d)}}
Unstored == {ticket[t] : t \in {u \in Producers : Storing(u)}}

\* start and end are the two counters modulo the size, never a lap apart.
CounterInv == /\ start = taken % Size
              /\ end = Len(accepted) % Size
              /\ taken <= Len(accepted)
              /\ Len(accepted) < taken + Size
              /\ Len(accepted) + Cardinality(Offering) <= calls

\* A single producer's view of `end` cannot get stale, and room only grows.
OfferInv == SingleProducer =>
              \A t \in Producers :
                /\ at[t] \in {"push_check", "push_cas"} => idx[t] = end
                /\ at[t] = "push_cas" => Len(accepted) + 1 < taken + Size

\* Nor can a single consumer's view of `start`; the ring only fills up.
\* Without laps start never returns to a value a slow consumer has read.
TakeInv == \A t \in Consumers :
             /\ at[t] \in {"pop_check", "pop_cas"} =>
                  /\ SingleConsumer => idx[t] = start
                  /\ NeverLaps => idx[t] <= start
             /\ at[t] = "pop_cas" /\ idx[t] = start => taken < Len(accepted)

StoreInv == \A t \in Producers : Storing(t) =>
              /\ ticket[t] \in 1 .. Len(accepted)
              /\ accepted[ticket[t]] = val[t]
              /\ idx[t] = SlotOf(ticket[t])
              /\ \A u \in Producers : Storing(u) /\ ticket[u] = ticket[t] => u = t

RemoveInv == \A t \in Consumers : Removing(t) =>
               /\ ticket[t] \in 1 .. taken
               /\ SingleConsumer => ticket[t] = taken
               /\ idx[t] = SlotOf(ticket[t])
               /\ \A u \in Consumers : Removing(u) /\ ticket[u] = ticket[t] => u = t
               /\ at[t] = "pop_clear" =>
                    ticket[t] \notin Unstored /\ val[t] = accepted[ticket[t]]

\* The items an unfinished push has claimed a slot for are still to be read.
UnstoredInv == Unstored \subseteq Live

\* No two live positions are a lap apart, so they have distinct slots.
LiveSpan == \A j, k \in Live : j < k + Size

\* The slots hold exactly the live items.
SlotInv == /\ \A k \in Live : buffer[SlotOf(k)] = IF k \in Unstored THEN Null ELSE accepted[k]
           /\ \A i \in Slots : buffer[i] # Null => \E k \in Live : i = SlotOf(k)

\* Every call pushes an item of its own, and no item is claimed twice.
ItemInv == /\ \A j, k \in DOMAIN accepted : accepted[j] = accepted[k] => j = k
           /\ \A k \in DOMAIN accepted : accepted[k] <= calls /\ accepted[k] \notin refused
           /\ \A x \in refused : x <= calls
           /\ \A t \in Offering :
                /\ val[t] <= calls
                /\ val[t] \notin refused
                /\ \A k \in DOMAIN accepted : accepted[k] # val[t]
                /\ \A u \in Offering : val[u] = val[t] => u = t

\* What has left the ring has been returned, and only that.
GotInv == /\ \A k \in 1 .. taken : k \in Live \/ accepted[k] \in Delivered
          /\ \A c \in Consumers : \A j \in DOMAIN got[c] :
                \E k \in 1 .. taken : k \notin Live /\ got[c][j] = accepted[k]

IInv == /\ TypeOK
        /\ CounterInv
        /\ OfferInv
        /\ TakeInv
        /\ StoreInv
        /\ RemoveInv
        /\ UnstoredInv
        /\ LiveSpan
        /\ SlotInv
        /\ ItemInv
        /\ GotInv
        /\ AtMostOnce

(***************************************************************************)
(* The promise.  The item of a push takes effect when `end` moves, that of *)
(* a pop when `start` moves; pushes from one thread are refused only when  *)
(* the ring holds Size - 1 items.                                          *)
(***************************************************************************)
Fifo == INSTANCE BoundedFifo WITH
          queue <- SubSeq(accepted, taken + 1, Len(accepted)),
          held <- [c \in Consumers |-> IF Removing(c) THEN accepted[ticket[c]] ELSE Null],
          Capacity <- Size - 1,
          Strict <- SingleProducer

\* Used by one producer and one consumer, or without laps, the ring is a FIFO
\* queue of capacity Size - 1: pop returns the items in the order in which the
\* pushes that returned true claimed their slots (atomic_queue.h:53-91).
ImplementsFifo == Fifo!Spec

\* An item that push accepted is eventually returned by a pop, although pop
\* gives up after one failed CAS and waits for a slow pusher in a loop
\* (atomic_queue.h:78-88).
Delivery == \A x \in Items :
              (\E k \in DOMAIN accepted : accepted[k] = x) ~> (x \in Delivered)
=============================================================================
