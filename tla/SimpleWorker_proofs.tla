------------------------ MODULE SimpleWorker_proofs ------------------------
(***************************************************************************)
(* Proofs about SimpleWorker::WorkerThread of worker2.h for every number   *)
(* of threads and slots and every program: that its members keep their     *)
(* types, for the programs that are Calm, that a slot has one owner, and,  *)
(* for those that are Promised too, that the workers are a JobPool.        *)
(*                                                                         *)
(* The second rests on what a claim of a ring's index needs: there is room *)
(* (a slot that fits and is not in the ring leaves a hole, RoomLeft), and  *)
(* the index read before the check is still the end of the ring (one       *)
(* thread is there, or the ring is never lapped).  Calm programs give      *)
(* both, and then each step moves one slot from a place to the next.       *)
(*                                                                         *)
(* The third needs the second: the stage of a job is told by the place of  *)
(* its slot (StageInv), a push still to come is of a job that was never in *)
(* a slot (OriginInv), and a counter is at least the number of lowerings   *)
(* still owed to it (DueInv), so at nought nothing is owed.                *)
(***************************************************************************)
EXTENDS SimpleWorker, FiniteSetTheorems, SequenceTheorems, TLAPS

-----------------------------------------------------------------------------
(* Where a thread is in the code, and the calls and slots that go with it. *)

Step(t) == Acquire(t) \/ Advance(t) \/ (Spurious(t) /\ UNCHANGED program)

AllLabels == UpdateLabels \cup ClientLabels \cup {"ops", "give"}

\* The members and locals but for executeCount, see CountInv.
TypeInv == /\ program \in Programs
           /\ WQ!RingTypeOK(WorkerSlots) /\ SQ!RingTypeOK(WorkerSlots)
           /\ at \in [Threads -> WQ!Labels]
           /\ idx \in [Threads -> WQ!Slots]
           /\ val \in [Threads -> WorkerSlots \cup {Null}]
           /\ pc \in [Threads -> AllLabels]
           /\ next \in [Threads -> Nat \ {0}]
           /\ running \in [Threads -> WorkerSlots \cup {Null}]
           /\ hand \in [Threads -> WorkerSlots \cup {Null}]
           /\ slotJob \in [WorkerSlots -> Jobs \cup {Null}]
           /\ doing \in [Threads -> Jobs \cup {Null}]
           /\ mutex \in Threads \cup {Null}
           /\ asleep \subseteq Workers /\ awaiting \subseteq {Main}
           /\ enabled \in BOOLEAN
           /\ count \in [Counters -> Int]
           /\ begun \in [Jobs -> Nat] /\ ran \in [Jobs -> Nat]
           /\ pushed \subseteq Jobs

\* Workers and the client keep to their parts of the code.
PartsInv == /\ pc[Main] \in ClientLabels \cup {"ops", "give"}
            /\ \A w \in Workers : pc[w] \in UpdateLabels \cup {"ops", "give"}

\* A worker has a slot from the pop to the push that gives it back, and is inside a
\* run() in between; WorkerThread::push has one from its pop to its push.
HandInv == /\ running[Main] = Null /\ doing[Main] = Null
           /\ \A w \in Workers :
                /\ running[w] # Null <=> pc[w] \in {"gate", "ops", "give", "requeue", "restock"}
                /\ doing[w] # Null <=> pc[w] \in {"ops", "give"}
           /\ \A t \in Threads : hand[t] # Null <=> pc[t] = "give"

\* Calls of the rings belong to the place in the code that makes them.
CallInv == \A t \in Threads :
             /\ at[t] \in WQ!PushLabels => pc[t] \in {"restock", "requeue", "give"} \/ Op(t, "stock")
             /\ at[t] \in WQ!PopLabels => pc[t] = "pop" \/ Op(t, "push")
             /\ at[t] = "empty_check" => pc[t] \in {"empty?", "drained?", "queue?"}
             /\ at[t] \in WQ!PushLabels \cup {"pop_clear"} => val[t] \in WorkerSlots

\* workerQueue.push of WorkerThread::push is only reached by an operation push.
PushInv == \A t \in Threads : pc[t] = "give" => next[t] <= Len(Ops(t)) /\ Arg(t).op = "push"

\* Slots on their way to a run() have been set to a job.
IsSet(s) == slotJob[s] # Null
SetInv == /\ \A i \in WQ!Slots : workBuf[i] # Null => IsSet(workBuf[i])
          /\ \A t \in Threads : running[t] # Null => IsSet(running[t])
          /\ \A t \in Threads : hand[t] # Null => IsSet(hand[t])
          /\ \A t \in Threads : pc[t] \in {"pop", "requeue", "give"}
                                /\ at[t] \in WQ!PushLabels \cup {"pop_clear"} => IsSet(val[t])

ControlInv == TypeInv /\ PartsInv /\ HandInv /\ CallInv /\ PushInv /\ SetInv

LEMMA OpsOK ==
  ASSUME TypeInv, PartsInv, HandInv, NEW t \in Threads, pc[t] \in {"ops", "give"}
  PROVE  /\ t # Main => Ops(t) \in Seq(JobOps) /\ t \in Workers /\ doing[t] \in Jobs
         /\ t = Main => Ops(t) = Construct \o Script /\ Construct \in Seq([op : {"stock"}, slot : WorkerSlots])
                        /\ Len(Construct) = NbWorker /\ Script \in Seq(ClientOps)
<1>1. CASE t = Main
  <2>1. Script \in Seq(ClientOps)
    BY ProgramsAssumption DEF TypeInv, Script
  <2>2. \A s \in 1 .. NbWorker : Stock(s) \in [op : {"stock"}, slot : WorkerSlots]
    BY DEF Stock, WorkerSlots
  <2>3. Construct \in Seq([op : {"stock"}, slot : WorkerSlots]) /\ Len(Construct) = NbWorker
    BY <2>2, SlotAssumption, IsASeq DEF Construct, WorkerSlots
  <2>4. QED BY <1>1, <2>1, <2>3 DEF Ops
<1>2. CASE t # Main
  <2>1. t \in Workers
    BY <1>2 DEF Threads
  <2>2. doing[t] \in Jobs
    BY <2>1 DEF TypeInv, HandInv
  <2>3. Ops(t) \in Seq(JobOps)
    BY <1>2, <2>2, ProgramsAssumption DEF TypeInv, Ops, Body
  <2>4. QED BY <1>2, <2>1, <2>2, <2>3
<1>3. QED BY <1>1, <1>2

\* The operation a thread is at.
StockOps == [op : {"stock"}, slot : WorkerSlots]
LEMMA ArgOK ==
  ASSUME TypeInv, PartsInv, HandInv, NEW t \in Threads, pc[t] \in {"ops", "give"},
         next[t] <= Len(Ops(t))
  PROVE  /\ Arg(t) \in StockOps \cup ClientOps
         /\ t # Main => Arg(t) \in JobOps
<1>1. next[t] \in Nat \ {0}
  BY DEF TypeInv
<1>2. CASE t # Main
  <2>1. next[t] \in 1 .. Len(Ops(t)) /\ Ops(t) \in Seq(JobOps)
    BY <1>1, <1>2, OpsOK
  <2>2. Arg(t) \in JobOps
    BY <2>1, ElementOfSeq DEF Arg
  <2>3. QED BY <1>2, <2>2 DEF ClientOps
<1>3. CASE t = Main
  <2>1. /\ Ops(t) = Construct \o Script /\ Construct \in Seq(StockOps)
        /\ Script \in Seq(ClientOps)
    BY <1>3, OpsOK DEF StockOps
  <2>2. Construct \in Seq(StockOps \cup ClientOps) /\ Script \in Seq(StockOps \cup ClientOps)
    BY <2>1
  <2>3. Ops(t) \in Seq(StockOps \cup ClientOps)
    BY <2>1, <2>2, ConcatProperties
  <2>4. next[t] \in 1 .. Len(Ops(t))
    BY <1>1, <2>3
  <2>5. QED BY <1>3, <2>3, <2>4, ElementOfSeq DEF Arg
<1>4. QED BY <1>2, <1>3

LEMMA OpTypes ==
  ASSUME NEW o \in StockOps \cup ClientOps
  PROVE  /\ o.op = "push" => o.job \in Jobs /\ o \in JobOps
         /\ o.op = "add" => o.counter \in Counters /\ o.by \in Int /\ o \in JobOps
         /\ o.op = "stock" => o.slot \in WorkerSlots
<1>1. Execute.op = "execute" /\ Wait.op = "wait" /\ Stop.op = "stop"
  BY DEF Execute, Wait, Stop
<1>2. CASE o \in JobOps
  BY <1>2 DEF JobOps
<1>3. CASE o \in {Execute, Wait, Stop}
  BY <1>1, <1>3
<1>4. CASE o \in StockOps
  BY <1>4 DEF StockOps
<1>5. QED BY <1>2, <1>3, <1>4 DEF ClientOps

LEMMA OnlyJobOps ==
  ASSUME NEW o \in JobOps
  PROVE  o.op \in {"add", "push"}
BY DEF JobOps

\* The constructor, wait() and stop() are the client's alone.
LEMMA OnlyClient ==
  ASSUME TypeInv, PartsInv, HandInv, NEW t \in Threads, t # Main
  PROVE  ~Op(t, "stock") /\ ~Op(t, "execute") /\ ~Op(t, "wait") /\ ~Op(t, "stop")
<1> SUFFICES ASSUME Op(t, "stock") \/ Op(t, "execute") \/ Op(t, "wait") \/ Op(t, "stop") PROVE FALSE
  OBVIOUS
<1>1. pc[t] = "ops" /\ next[t] <= Len(Ops(t)) /\ Arg(t).op \in {"stock", "execute", "wait", "stop"}
  BY DEF Op, Arg
<1>2. Arg(t) \in JobOps
  BY <1>1, ArgOK
<1>3. QED BY <1>1, <1>2, OnlyJobOps

-----------------------------------------------------------------------------
(* The calls of the rings. *)

EmptyGoes(t) == WQ!EmptyCall(t) \/ WQ!EmptyTrue(t) \/ WQ!EmptyFalse(t)
WorkCall(t) == \/ \E s \in WorkerSlots : WorkPushing(t, s)
               \/ WorkPushed(t) \/ WorkPopping(t) \/ WorkNone(t) \/ WQ!PopClear(t) \/ EmptyGoes(t)
StockCall(t) == \/ \E s \in WorkerSlots : StockPushing(t, s)
                \/ StockPushed(t) \/ StockPopping(t) \/ StockNone(t) \/ SQ!PopClear(t)

RingTypes == /\ WQ!RingTypeOK(WorkerSlots) /\ SQ!RingTypeOK(WorkerSlots)
             /\ at \in [Threads -> WQ!Labels]
             /\ idx \in [Threads -> WQ!Slots]
             /\ val \in [Threads -> WorkerSlots \cup {Null}]

LEMMA SameSlots == SQ!Slots = WQ!Slots /\ SQ!Labels = WQ!Labels /\ \A i : SQ!Succ(i) = WQ!Succ(i)
BY DEF SQ!Slots, WQ!Slots, SQ!Labels, WQ!Labels, SQ!Succ, WQ!Succ, SQ!PushLabels, WQ!PushLabels,
       SQ!PopLabels, WQ!PopLabels

LEMMA SuccSlot ==
  ASSUME NEW i \in WQ!Slots
  PROVE  WQ!Succ(i) \in WQ!Slots /\ SQ!Succ(i) \in WQ!Slots /\ 0 \in WQ!Slots
BY SlotAssumption DEF WQ!Succ, WQ!Slots, SQ!Succ

LEMMA WorkCallTypes ==
  ASSUME RingTypes, NEW t \in Threads, WorkCall(t), UNCHANGED stockRing,
         at[t] = "push_store" => val[t] \in WorkerSlots
  PROVE  RingTypes'
<1> USE DEF RingTypes, WQ!RingTypeOK, SQ!RingTypeOK, WQ!Goto, WQ!Return, WQ!ring, WQ!Labels, WQ!PushLabels,
            WQ!PopLabels, stockRing
<1>0. idx[t] \in WQ!Slots /\ WQ!Succ(idx[t]) \in WQ!Slots /\ 0 \in WQ!Slots /\ SQ!Slots = WQ!Slots
  BY SuccSlot, SameSlots
<1>1. ASSUME NEW s \in WorkerSlots, WorkPushing(t, s) PROVE RingTypes'
  BY <1>0, <1>1 DEF WorkPushing, WQ!PushCall, WQ!PushRoom, WQ!PushRetry, WQ!PushClaim
<1>2. CASE WorkPushed(t)
  BY <1>0, <1>2 DEF WorkPushed, WQ!PushStore, WQ!PushFull
<1>3. CASE WorkPopping(t)
  BY <1>0, <1>3 DEF WorkPopping, WQ!PopCall, WQ!PopSome, WQ!PopClaim, WQ!PopLoad
<1>4. CASE WorkNone(t)
  BY <1>0, <1>4 DEF WorkNone, WQ!PopEmpty, WQ!PopLost
<1>5. CASE WQ!PopClear(t)
  BY <1>0, <1>5 DEF WQ!PopClear
<1>6. CASE EmptyGoes(t)
  BY <1>0, <1>6 DEF EmptyGoes, WQ!EmptyCall, WQ!EmptyTrue, WQ!EmptyFalse
<1>7. QED BY <1>1, <1>2, <1>3, <1>4, <1>5, <1>6 DEF WorkCall

LEMMA StockCallTypes ==
  ASSUME RingTypes, NEW t \in Threads, StockCall(t), UNCHANGED workRing,
         at[t] = "push_store" => val[t] \in WorkerSlots
  PROVE  RingTypes'
<1> USE DEF RingTypes, WQ!RingTypeOK, SQ!RingTypeOK, SQ!Goto, SQ!Return, SQ!ring, WQ!Labels, WQ!PushLabels,
            WQ!PopLabels, workRing
<1>0. idx[t] \in WQ!Slots /\ SQ!Succ(idx[t]) \in WQ!Slots /\ 0 \in WQ!Slots /\ SQ!Slots = WQ!Slots
  BY SuccSlot, SameSlots
<1>1. ASSUME NEW s \in WorkerSlots, StockPushing(t, s) PROVE RingTypes'
  BY <1>0, <1>1 DEF StockPushing, SQ!PushCall, SQ!PushRoom, SQ!PushRetry, SQ!PushClaim
<1>2. CASE StockPushed(t)
  BY <1>0, <1>2 DEF StockPushed, SQ!PushStore, SQ!PushFull
<1>3. CASE StockPopping(t)
  BY <1>0, <1>3 DEF StockPopping, SQ!PopCall, SQ!PopSome, SQ!PopClaim, SQ!PopLoad
<1>4. CASE StockNone(t)
  BY <1>0, <1>4 DEF StockNone, SQ!PopEmpty, SQ!PopLost
<1>5. CASE SQ!PopClear(t)
  BY <1>0, <1>5 DEF SQ!PopClear
<1>6. QED BY <1>1, <1>2, <1>3, <1>4, <1>5 DEF StockCall

\* The steps without a call of a ring.
Quiet(t) == \/ Lock(t) \/ CheckEnabled(t) \/ Sleep(t) \/ Wake(t) \/ Unlock(t) \/ CheckRunning(t) \/ Enter(t)
            \/ PassGate(t) \/ MissGate(t) \/ Finish(t) \/ Leave(t) \/ CheckLast(t) \/ NotifyWait(t)
            \/ AddCount(t) \/ ExecuteAll(t) \/ WaitLock(t) \/ WaitCount(t) \/ WaitSleep(t) \/ WaitWake(t)
            \/ WaitOver(t) \/ StopFlag(t) \/ StopNotify(t) \/ Join(t) \/ Spurious(t)

LEMMA StepCases ==
  ASSUME NEW t, Step(t)
  PROVE  /\ program' = program
         /\ \/ Quiet(t) \/ PopSlot(t) \/ Restock(t) \/ Requeue(t) \/ StockSlot(t) \/ TakeSlot(t) \/ GiveSlot(t)
            \/ CheckEmpty(t) \/ CheckDrained(t) \/ WaitEmpty(t)
BY DEF Step, Acquire, Advance, Update, Call, Quiet

LEMMA QuietKeeps ==
  ASSUME NEW t, Quiet(t)
  PROVE  UNCHANGED <<workRing, stockRing, calls>> /\ UNCHANGED <<slots, pushed>>
<1> USE DEF NoCall, jobs
<1>1. CASE Lock(t) \/ CheckEnabled(t) \/ Sleep(t) \/ Wake(t) \/ Unlock(t) \/ CheckRunning(t) \/ Enter(t)
  BY <1>1 DEF Lock, CheckEnabled, Sleep, Wake, Unlock, CheckRunning, Enter
<1>2. CASE PassGate(t) \/ MissGate(t) \/ Finish(t) \/ Leave(t) \/ CheckLast(t) \/ NotifyWait(t)
  BY <1>2 DEF PassGate, MissGate, Finish, Leave, CheckLast, NotifyWait
<1>3. CASE AddCount(t) \/ ExecuteAll(t) \/ WaitLock(t) \/ WaitCount(t) \/ WaitSleep(t) \/ WaitWake(t)
            \/ WaitOver(t) \/ StopFlag(t) \/ StopNotify(t) \/ Join(t) \/ Spurious(t)
  BY <1>3 DEF AddCount, ExecuteAll, WaitLock, WaitCount, WaitSleep, WaitWake, WaitOver, StopFlag, StopNotify,
              Join, Spurious
<1>4. QED BY <1>1, <1>2, <1>3 DEF Quiet

\* What a step of a thread does to the rings.
LEMMA StepCalls ==
  ASSUME ControlInv, NEW t \in Threads, Step(t)
  PROVE  \/ WorkCall(t) /\ UNCHANGED stockRing
         \/ StockCall(t) /\ UNCHANGED workRing
         \/ UNCHANGED <<workRing, stockRing, calls>>
<1> USE DEF ControlInv
<1>1. CASE PopSlot(t)
  BY <1>1 DEF PopSlot, WorkCall
<1>2. CASE Restock(t)
  <2>1. pc[t] = "restock"
    BY <1>2 DEF Restock, Stay, Jump
  <2>2. running[t] \in WorkerSlots
    BY <2>1 DEF PartsInv, HandInv, TypeInv, Threads, ClientLabels
  <2>3. QED BY <1>2, <2>2 DEF Restock, StockCall
<1>3. CASE Requeue(t)
  <2>1. pc[t] = "requeue"
    BY <1>3 DEF Requeue, Stay, Jump
  <2>2. running[t] \in WorkerSlots
    BY <2>1 DEF PartsInv, HandInv, TypeInv, Threads, ClientLabels
  <2>3. QED BY <1>3, <2>2 DEF Requeue, WorkCall
<1>4. CASE StockSlot(t)
  <2>1. Arg(t).slot \in WorkerSlots
    BY <1>4, ArgOK, OpTypes DEF StockSlot, Op, Arg
  <2>2. QED BY <1>4, <2>1 DEF StockSlot, StockCall
<1>5. CASE TakeSlot(t)
  BY <1>5 DEF TakeSlot, StockCall
<1>6. CASE GiveSlot(t)
  <2>1. pc[t] = "give"
    BY <1>6 DEF GiveSlot, Stay, Jump, NextOp
  <2>2. hand[t] \in WorkerSlots
    BY <2>1 DEF HandInv, TypeInv
  <2>3. QED BY <1>6, <2>2 DEF GiveSlot, WorkCall
<1>7. CASE CheckEmpty(t) \/ CheckDrained(t) \/ WaitEmpty(t)
  BY <1>7 DEF CheckEmpty, CheckDrained, WaitEmpty, AskEmpty, WorkCall, EmptyGoes
<1>8. QED BY <1>1, <1>2, <1>3, <1>4, <1>5, <1>6, <1>7, StepCases, QuietKeeps

\* A step changes the locals of one thread.
LEMMA OthersStay ==
  ASSUME ControlInv, NEW t \in Threads, Step(t), NEW u \in Threads, u # t
  PROVE  /\ pc'[u] = pc[u] /\ next'[u] = next[u] /\ running'[u] = running[u] /\ hand'[u] = hand[u]
         /\ doing'[u] = doing[u] /\ at'[u] = at[u] /\ idx'[u] = idx[u] /\ val'[u] = val[u]
<1> USE DEF ControlInv, TypeInv
<1>1. at'[u] = at[u] /\ idx'[u] = idx[u] /\ val'[u] = val[u]
  <2>1. CASE UNCHANGED <<workRing, stockRing, calls>>
    BY <2>1 DEF calls
  <2>2. CASE WorkCall(t)
    BY <2>2 DEF WorkCall, WorkPushing, WorkPushed, WorkPopping, WorkNone, EmptyGoes, WQ!Goto, WQ!Return,
                WQ!PushCall, WQ!PushRoom, WQ!PushRetry, WQ!PushClaim, WQ!PushFull, WQ!PushStore, WQ!PopCall,
                WQ!PopSome, WQ!PopClaim, WQ!PopLoad, WQ!PopEmpty, WQ!PopLost, WQ!PopClear, WQ!EmptyCall,
                WQ!EmptyTrue, WQ!EmptyFalse
  <2>3. CASE StockCall(t)
    BY <2>3 DEF StockCall, StockPushing, StockPushed, StockPopping, StockNone, SQ!Goto, SQ!Return,
                SQ!PushCall, SQ!PushRoom, SQ!PushRetry, SQ!PushClaim, SQ!PushFull, SQ!PushStore, SQ!PopCall,
                SQ!PopSome, SQ!PopClaim, SQ!PopLoad, SQ!PopEmpty, SQ!PopLost, SQ!PopClear
  <2>4. QED BY <2>1, <2>2, <2>3, StepCalls
<1>2. CASE Quiet(t)
  <2>1. running' = running /\ hand' = hand
    BY <1>2, QuietKeeps DEF slots
  <2>2. pc'[u] = pc[u]
    BY <1>2 DEF Quiet, Jump, Stay, NextOp, Lock, CheckEnabled, Sleep, Wake, Unlock, CheckRunning, Enter, PassGate,
         MissGate, Finish, Leave, CheckLast, NotifyWait, AddCount, ExecuteAll, WaitLock, WaitCount, WaitSleep,
         WaitWake, WaitOver, StopFlag, StopNotify, Join, Spurious
  <2>3. next'[u] = next[u]
    BY <1>2 DEF Quiet, NextOp, Lock, CheckEnabled, Sleep, Wake, Unlock, CheckRunning, Enter, PassGate,
         MissGate, Finish, Leave, CheckLast, NotifyWait, AddCount, ExecuteAll, WaitLock, WaitCount, WaitSleep,
         WaitWake, WaitOver, StopFlag, StopNotify, Join, Spurious
  <2>4. doing'[u] = doing[u]
    BY <1>2 DEF Quiet, jobs, Lock, CheckEnabled, Sleep, Wake, Unlock, CheckRunning, Enter, PassGate,
         MissGate, Finish, Leave, CheckLast, NotifyWait, AddCount, ExecuteAll, WaitLock, WaitCount, WaitSleep,
         WaitWake, WaitOver, StopFlag, StopNotify, Join, Spurious
  <2>5. QED BY <1>1, <2>1, <2>2, <2>3, <2>4
<1>3. CASE PopSlot(t) \/ Restock(t) \/ Requeue(t) \/ StockSlot(t) \/ TakeSlot(t) \/ GiveSlot(t)
           \/ CheckEmpty(t) \/ CheckDrained(t) \/ WaitEmpty(t)
  <2>1. pc'[u] = pc[u] /\ next'[u] = next[u]
    BY <1>3 DEF PopSlot, Restock, Requeue, StockSlot, TakeSlot, GiveSlot, CheckEmpty, CheckDrained, WaitEmpty,
                AskEmpty, Jump, Stay, NextOp
  <2>2. running'[u] = running[u] /\ hand'[u] = hand[u] /\ doing'[u] = doing[u]
    BY <1>3 DEF PopSlot, Restock, Requeue, StockSlot, TakeSlot, GiveSlot, CheckEmpty, CheckDrained, WaitEmpty,
                AskEmpty, slots, jobs
  <2>3. QED BY <1>1, <2>1, <2>2
<1>4. QED BY <1>2, <1>3, StepCases

\* No step of a worker's loop is the client's, and none of the client's a worker's.
LEMMA WorkerSteps ==
  ASSUME ControlInv, NEW t \in Threads, Step(t), t # Main
  PROVE  /\ t \in Workers /\ pc[t] \in UpdateLabels \cup {"ops", "give"}
         /\ \/ Lock(t) \/ CheckEnabled(t) \/ Sleep(t) \/ Wake(t) \/ Unlock(t) \/ CheckRunning(t) \/ Enter(t)
            \/ PassGate(t) \/ MissGate(t) \/ Finish(t) \/ Leave(t) \/ CheckLast(t) \/ NotifyWait(t)
            \/ AddCount(t) \/ PopSlot(t) \/ Restock(t) \/ Requeue(t) \/ TakeSlot(t) \/ GiveSlot(t)
            \/ CheckEmpty(t) \/ CheckDrained(t) \/ Spurious(t)
<1>1. t \in Workers /\ pc[t] \in UpdateLabels \cup {"ops", "give"}
  BY DEF Threads, ControlInv, PartsInv
<1>2. ~StockSlot(t) /\ ~ExecuteAll(t) /\ ~WaitLock(t) /\ ~StopFlag(t)
  BY OnlyClient DEF StockSlot, ExecuteAll, WaitLock, StopFlag, ControlInv
<1>3. ~WaitCount(t) /\ ~WaitEmpty(t) /\ ~WaitSleep(t) /\ ~WaitWake(t) /\ ~WaitOver(t) /\ ~StopNotify(t) /\ ~Join(t)
  BY <1>1 DEF WaitCount, WaitEmpty, AskEmpty, WaitSleep, WaitWake, WaitOver, StopNotify, Join, Jump, Stay, NextOp,
              UpdateLabels
<1>4. QED BY <1>1, <1>2, <1>3, StepCases DEF Quiet

LEMMA ClientSteps ==
  ASSUME ControlInv, Step(Main)
  PROVE  /\ Main \in Threads /\ Main \notin Workers /\ pc[Main] \in ClientLabels \cup {"ops", "give"}
         /\ \/ AddCount(Main) \/ ExecuteAll(Main) \/ WaitLock(Main) \/ WaitCount(Main) \/ WaitSleep(Main)
            \/ WaitWake(Main) \/ WaitOver(Main) \/ StopFlag(Main) \/ StopNotify(Main) \/ Join(Main)
            \/ StockSlot(Main) \/ TakeSlot(Main) \/ GiveSlot(Main) \/ WaitEmpty(Main) \/ Spurious(Main)
<1>1. Main \in Threads /\ Main \notin Workers /\ pc[Main] \in ClientLabels \cup {"ops", "give"}
  BY MainAssumption DEF Threads, ControlInv, PartsInv
<1>2. /\ ~Lock(Main) /\ ~CheckEnabled(Main) /\ ~Sleep(Main) /\ ~Wake(Main) /\ ~Unlock(Main) /\ ~CheckRunning(Main)
      /\ ~Enter(Main) /\ ~PassGate(Main) /\ ~MissGate(Main) /\ ~Finish(Main) /\ ~Leave(Main) /\ ~CheckLast(Main)
      /\ ~NotifyWait(Main) /\ ~PopSlot(Main) /\ ~Restock(Main) /\ ~Requeue(Main) /\ ~CheckEmpty(Main)
      /\ ~CheckDrained(Main)
  BY <1>1 DEF Lock, CheckEnabled, Sleep, Wake, Unlock, CheckRunning, Enter, PassGate, MissGate, Finish, Leave,
              CheckLast, NotifyWait, PopSlot, Restock, Requeue, CheckEmpty, CheckDrained, AskEmpty, Jump, Stay,
              ClientLabels
<1>3. QED BY <1>1, <1>2, StepCases DEF Quiet

LEMMA PartsStep ==
  ASSUME ControlInv, NEW t \in Threads, Step(t)
  PROVE  PartsInv' /\ pc' \in [Threads -> AllLabels]
<1> USE DEF ControlInv
<1>1. Main \in Threads /\ Workers \subseteq Threads /\ Main \notin Workers
  BY MainAssumption DEF Threads
<1>2. \A u \in Threads \ {t} : pc'[u] = pc[u]
  BY OthersStay
<1>3. ASSUME t = Main PROVE pc'[t] \in ClientLabels \cup {"ops", "give"}
  BY <1>3, ClientSteps DEF AddCount, ExecuteAll, WaitLock, WaitCount, WaitSleep, WaitWake, WaitOver, StopFlag,
         StopNotify, Join, StockSlot, TakeSlot, GiveSlot, WaitEmpty, AskEmpty, Spurious, Jump, Stay, NextOp,
         TypeInv, ClientLabels
<1>4. ASSUME t # Main PROVE pc'[t] \in UpdateLabels \cup {"ops", "give"}
  BY <1>4, WorkerSteps DEF Lock, CheckEnabled, Sleep, Wake, Unlock, CheckRunning, Enter, PassGate, MissGate, Finish,
         Leave, CheckLast, NotifyWait, AddCount, PopSlot, Restock, Requeue, TakeSlot, GiveSlot, CheckEmpty,
         CheckDrained, AskEmpty, Spurious, Jump, Stay, NextOp, TypeInv, UpdateLabels
<1>5. PartsInv'
  BY <1>1, <1>2, <1>3, <1>4 DEF PartsInv
<1>6. DOMAIN pc' = Threads /\ pc' = [u \in Threads |-> pc'[u]]
  <2>1. pc' = pc \/ \E l : pc' = [pc EXCEPT ![t] = l]
    BY StepCases DEF Quiet, Jump, Stay, NextOp, Lock, CheckEnabled, Sleep, Wake, Unlock, CheckRunning, Enter, PassGate,
         MissGate, Finish, Leave, CheckLast, NotifyWait, AddCount, ExecuteAll, WaitLock, WaitCount, WaitSleep,
         WaitWake, WaitOver, StopFlag, StopNotify, Join, Spurious, PopSlot, Restock, Requeue, StockSlot, TakeSlot,
         GiveSlot, CheckEmpty, CheckDrained, WaitEmpty, AskEmpty
  <2>2. QED BY <2>1 DEF TypeInv
<1>7. \A u \in Threads : pc'[u] \in AllLabels
  <2>1. \A u \in Threads : pc[u] \in AllLabels
    BY DEF TypeInv
  <2>2. pc'[t] \in AllLabels
    BY <1>3, <1>4 DEF AllLabels
  <2>3. QED BY <1>2, <2>1, <2>2
<1>8. QED BY <1>5, <1>6, <1>7

\* A slot that has been popped from workerQueue is set to a job.
LEMMA JobOfGate ==
  ASSUME ControlInv, NEW t \in Threads, pc[t] = "gate"
  PROVE  t \in Workers /\ running[t] \in WorkerSlots /\ Job(t) \in Jobs
<1> USE DEF ControlInv, TypeInv
<1>1. t \in Workers
  BY DEF PartsInv, Threads, ClientLabels
<1>2. running[t] # Null /\ running[t] \in WorkerSlots
  BY <1>1 DEF HandInv
<1>3. slotJob[running[t]] # Null /\ slotJob[running[t]] \in Jobs \cup {Null}
  BY <1>2 DEF SetInv, IsSet
<1>4. QED BY <1>1, <1>2, <1>3 DEF Job

LEMMA TypeStep ==
  ASSUME ControlInv, NEW t \in Threads, Step(t)
  PROVE  TypeInv'
<1> USE DEF ControlInv, TypeInv
<1>1. program' \in Programs
  BY StepCases
<1>2. RingTypes'
  <2>1. at[t] = "push_store" => val[t] \in WorkerSlots
    BY DEF CallInv, WQ!PushLabels
  <2>2. CASE UNCHANGED <<workRing, stockRing, calls>>
    BY <2>2 DEF RingTypes, WQ!RingTypeOK, SQ!RingTypeOK, workRing, stockRing, calls
  <2>3. QED BY <2>1, <2>2, StepCalls, WorkCallTypes, StockCallTypes DEF RingTypes
<1>3. pc' \in [Threads -> AllLabels]
  BY PartsStep
<1>4. next' \in [Threads -> Nat \ {0}]
  <2>1. next' = next \/ next' = [next EXCEPT ![t] = @ + 1] \/ next' = [next EXCEPT ![t] = 1]
    BY StepCases DEF Quiet, NextOp, Lock, CheckEnabled, Sleep, Wake, Unlock, CheckRunning, Enter, PassGate,
         MissGate, Finish, Leave, CheckLast, NotifyWait, AddCount, ExecuteAll, WaitLock, WaitCount, WaitSleep,
         WaitWake, WaitOver, StopFlag, StopNotify, Join, Spurious, PopSlot, Restock, Requeue, StockSlot, TakeSlot,
         GiveSlot, CheckEmpty, CheckDrained, WaitEmpty, AskEmpty
  <2>2. next[t] + 1 \in Nat \ {0} /\ 1 \in Nat \ {0}
    OBVIOUS
  <2>3. QED BY <2>1, <2>2
<1>5. running' \in [Threads -> WorkerSlots \cup {Null}] /\ hand' \in [Threads -> WorkerSlots \cup {Null}]
  BY StepCases, QuietKeeps DEF slots, PopSlot, Restock, Requeue, StockSlot, TakeSlot,
         GiveSlot, CheckEmpty, CheckDrained, WaitEmpty, AskEmpty
<1>6. slotJob' \in [WorkerSlots -> Jobs \cup {Null}]
  <2>1. CASE UNCHANGED slotJob
    BY <2>1
  <2>2. CASE TakeSlot(t)
    <3>1. Arg(t).job \in Jobs
      BY <2>2, ArgOK, OpTypes DEF TakeSlot, Op, Arg
    <3>2. slotJob' = slotJob \/ slotJob' = [slotJob EXCEPT ![val[t]] = Arg(t).job]
      BY <2>2 DEF TakeSlot
    <3>3. QED BY <3>1, <3>2
  <2>3. QED BY <2>1, <2>2, StepCases, QuietKeeps DEF slots, PopSlot, Restock, Requeue, StockSlot,
         GiveSlot, CheckEmpty, CheckDrained, WaitEmpty, AskEmpty
<1>7. doing' \in [Threads -> Jobs \cup {Null}]
  <2>1. CASE PassGate(t)
    <3>1. pc[t] = "gate" /\ doing' = [doing EXCEPT ![t] = Job(t)]
      BY <2>1 DEF PassGate, Jump
    <3>2. Job(t) \in Jobs
      BY <3>1, JobOfGate
    <3>3. QED BY <3>1, <3>2
  <2>2. CASE doing' = doing \/ doing' = [doing EXCEPT ![t] = Null]
    BY <2>2
  <2>3. QED BY <2>1, <2>2, StepCases DEF Quiet, jobs, Lock, CheckEnabled, Sleep, Wake, Unlock, CheckRunning, Enter,
         MissGate, Finish, Leave, CheckLast, NotifyWait, AddCount, ExecuteAll, WaitLock, WaitCount, WaitSleep,
         WaitWake, WaitOver, StopFlag, StopNotify, Join, Spurious, PopSlot, Restock, Requeue, StockSlot, TakeSlot,
         GiveSlot, CheckEmpty, CheckDrained, WaitEmpty, AskEmpty
<1>8. mutex' \in Threads \cup {Null}
  <2>1. mutex' = mutex \/ mutex' = t \/ mutex' = Null
    BY StepCases DEF Quiet, sync, Lock, CheckEnabled, Sleep, Wake, Unlock, CheckRunning, Enter, PassGate,
         MissGate, Finish, Leave, CheckLast, NotifyWait, AddCount, ExecuteAll, WaitLock, WaitCount, WaitSleep,
         WaitWake, WaitOver, StopFlag, StopNotify, Join, Spurious, PopSlot, Restock, Requeue, StockSlot, TakeSlot,
         GiveSlot, CheckEmpty, CheckDrained, WaitEmpty, AskEmpty
  <2>2. QED BY <2>1
<1>9. asleep' \subseteq Workers
  <2>1. CASE Sleep(t)
    <3>1. pc[t] = "sleep" /\ asleep' = asleep \cup {t}
      BY <2>1 DEF Sleep, Jump
    <3>2. t \in Workers
      BY <3>1 DEF PartsInv, Threads, ClientLabels
    <3>3. QED BY <3>1, <3>2
  <2>2. CASE asleep' \subseteq asleep
    BY <2>2
  <2>3. QED BY <2>1, <2>2, StepCases DEF Quiet, sync, Lock, CheckEnabled, Wake, Unlock, CheckRunning, Enter, PassGate,
         MissGate, Finish, Leave, CheckLast, NotifyWait, AddCount, ExecuteAll, WaitLock, WaitCount, WaitSleep,
         WaitWake, WaitOver, StopFlag, StopNotify, Join, Spurious, PopSlot, Restock, Requeue, StockSlot, TakeSlot,
         GiveSlot, CheckEmpty, CheckDrained, WaitEmpty, AskEmpty
<1>10. awaiting' \subseteq {Main}
  <2>1. CASE WaitSleep(t)
    <3>1. pc[t] = "await" /\ awaiting' = awaiting \cup {t}
      BY <2>1 DEF WaitSleep, Jump
    <3>2. t = Main
      BY <3>1 DEF PartsInv, Threads, UpdateLabels
    <3>3. QED BY <3>1, <3>2
  <2>2. CASE awaiting' \subseteq awaiting
    BY <2>2
  <2>3. QED BY <2>1, <2>2, StepCases DEF Quiet, sync, Lock, CheckEnabled, Sleep, Wake, Unlock, CheckRunning, Enter,
         PassGate, MissGate, Finish, Leave, CheckLast, NotifyWait, AddCount, ExecuteAll, WaitLock, WaitCount,
         WaitWake, WaitOver, StopFlag, StopNotify, Join, Spurious, PopSlot, Restock, Requeue, StockSlot, TakeSlot,
         GiveSlot, CheckEmpty, CheckDrained, WaitEmpty, AskEmpty
<1>11. enabled' \in BOOLEAN
  BY StepCases DEF Quiet, Lock, CheckEnabled, Sleep, Wake, Unlock, CheckRunning, Enter, PassGate,
         MissGate, Finish, Leave, CheckLast, NotifyWait, AddCount, ExecuteAll, WaitLock, WaitCount, WaitSleep,
         WaitWake, WaitOver, StopFlag, StopNotify, Join, Spurious, PopSlot, Restock, Requeue, StockSlot, TakeSlot,
         GiveSlot, CheckEmpty, CheckDrained, WaitEmpty, AskEmpty
<1>12. count' \in [Counters -> Int]
  <2>1. CASE UNCHANGED count
    BY <2>1
  <2>2. CASE AddCount(t)
    <3>1. Arg(t).counter \in Counters /\ Arg(t).by \in Int
      BY <2>2, ArgOK, OpTypes DEF AddCount, Op, Arg
    <3>2. QED BY <2>2, <3>1 DEF AddCount
  <2>3. CASE Finish(t)
    <3>1. count' = count \/ count' = [count EXCEPT ![After[Job(t)]] = @ - 1]
      BY <2>3 DEF Finish
    <3>2. QED BY <3>1
  <2>4. QED BY <2>1, <2>2, <2>3, StepCases DEF Quiet, jobs, Lock, CheckEnabled, Sleep, Wake, Unlock, CheckRunning,
         Enter, PassGate, MissGate, Leave, CheckLast, NotifyWait, ExecuteAll, WaitLock, WaitCount, WaitSleep,
         WaitWake, WaitOver, StopFlag, StopNotify, Join, Spurious, PopSlot, Restock, Requeue, StockSlot, TakeSlot,
         GiveSlot, CheckEmpty, CheckDrained, WaitEmpty, AskEmpty
<1>13. begun' \in [Jobs -> Nat] /\ ran' \in [Jobs -> Nat]
  <2>1. CASE PassGate(t)
    <3>1. begun' = [begun EXCEPT ![Job(t)] = @ + 1] /\ ran' = ran
      BY <2>1 DEF PassGate
    <3>2. Job(t) \in Jobs
      BY <2>1, JobOfGate DEF PassGate, Jump
    <3>3. QED BY <3>1, <3>2
  <2>2. CASE Finish(t)
    <3>1. ran' = [ran EXCEPT ![doing[t]] = @ + 1] /\ begun' = begun /\ pc[t] = "ops" /\ t # Main
      BY <2>2 DEF Finish, Jump
    <3>2. doing[t] \in Jobs
      BY <3>1, OpsOK
    <3>3. QED BY <3>1, <3>2
  <2>3. CASE UNCHANGED <<begun, ran>>
    BY <2>3
  <2>4. QED BY <2>1, <2>2, <2>3, StepCases DEF Quiet, jobs, Lock, CheckEnabled, Sleep, Wake, Unlock, CheckRunning,
         Enter, MissGate, Leave, CheckLast, NotifyWait, AddCount, ExecuteAll, WaitLock, WaitCount, WaitSleep,
         WaitWake, WaitOver, StopFlag, StopNotify, Join, Spurious, PopSlot, Restock, Requeue, StockSlot, TakeSlot,
         GiveSlot, CheckEmpty, CheckDrained, WaitEmpty, AskEmpty
<1>14. pushed' \subseteq Jobs
  <2>1. CASE GiveSlot(t)
    <3>1. Arg(t).job \in Jobs
      BY <2>1, ArgOK, OpTypes DEF GiveSlot, Stay, Jump, NextOp, PushInv
    <3>2. QED BY <2>1, <3>1 DEF GiveSlot
  <2>2. QED BY <2>1, StepCases, QuietKeeps DEF jobs, PopSlot, Restock, Requeue, StockSlot, TakeSlot,
         CheckEmpty, CheckDrained, WaitEmpty, AskEmpty
<1>15. QED BY <1>1, <1>2, <1>3, <1>4, <1>5, <1>6, <1>7, <1>8, <1>9, <1>10, <1>11, <1>12, <1>13, <1>14 DEF RingTypes

\* Programs do not change, so a thread's operations do with its job only.
LEMMA OpsStay ==
  ASSUME ControlInv, NEW t \in Threads, Step(t), NEW u \in Threads, doing'[u] = doing[u]
  PROVE  /\ Ops(u)' = Ops(u)
         /\ next'[u] = next[u] => Arg(u)' = Arg(u)
         /\ next'[u] = next[u] /\ pc'[u] = pc[u] => \A n : Op(u, n)' <=> Op(u, n)
<1>1. Ops(u)' = Ops(u)
  BY StepCases DEF Ops, Script, Body
<1>2. next'[u] = next[u] => Arg(u)' = Arg(u)
  BY <1>1 DEF Arg
<1>3. QED BY <1>1, <1>2 DEF Op

LEMMA HandStep ==
  ASSUME ControlInv, NEW t \in Threads, Step(t)
  PROVE  HandInv'
<1> USE DEF ControlInv
<1>0. Main \in Threads /\ Main \notin Workers /\ Workers \subseteq Threads /\ Null \notin WorkerSlots /\ Null \notin Jobs
  BY MainAssumption, SlotAssumption DEF Threads
<1>1. \A u \in Threads \ {t} : pc'[u] = pc[u] /\ running'[u] = running[u] /\ doing'[u] = doing[u] /\ hand'[u] = hand[u]
  BY OthersStay
<1>2. hand'[t] # Null <=> pc'[t] = "give"
  <2>1. hand[t] # Null <=> pc[t] = "give"
    BY DEF HandInv
  <2> USE DEF TypeInv, Jump, Stay, NextOp
  <2>2. CASE TakeSlot(t)
    <3>1. at[t] = "pop_clear" => val[t] \in WorkerSlots
      BY DEF CallInv
    <3>2. QED BY <1>0, <2>1, <2>2, <3>1 DEF TakeSlot, Op, SQ!PopClear
  <2>3. CASE GiveSlot(t)
    BY <2>1, <2>3 DEF GiveSlot
  <2>4. CASE ~TakeSlot(t) /\ ~GiveSlot(t)
    <3>1. hand' = hand
      BY <2>4, StepCases, QuietKeeps DEF slots, PopSlot, Restock, Requeue, StockSlot, CheckEmpty, CheckDrained,
         WaitEmpty, AskEmpty
    <3>2. (pc'[t] # "give" /\ pc[t] # "give") \/ pc' = pc
      BY <2>4, StepCases DEF Quiet, Lock, CheckEnabled, Sleep, Wake, Unlock, CheckRunning, Enter, PassGate,
         MissGate, Finish, Leave, CheckLast, NotifyWait, AddCount, ExecuteAll, WaitLock, WaitCount, WaitSleep,
         WaitWake, WaitOver, StopFlag, StopNotify, Join, Spurious, PopSlot, Restock, Requeue, StockSlot,
         CheckEmpty, CheckDrained, WaitEmpty, AskEmpty, Op
    <3>3. QED BY <2>1, <3>1, <3>2
  <2>5. QED BY <2>2, <2>3, <2>4
<1>3. ASSUME t = Main PROVE running'[t] = running[t] /\ doing'[t] = doing[t]
  BY <1>3, ClientSteps DEF slots, jobs, AddCount, ExecuteAll, WaitLock, WaitCount, WaitSleep, WaitWake, WaitOver,
         StopFlag, StopNotify, Join, StockSlot, TakeSlot, GiveSlot, WaitEmpty, AskEmpty, Spurious
<1>4. ASSUME t # Main
      PROVE  /\ running'[t] # Null <=> pc'[t] \in {"gate", "ops", "give", "requeue", "restock"}
             /\ doing'[t] # Null <=> pc'[t] \in {"ops", "give"}
  <2>1. /\ t \in Workers
        /\ running[t] # Null <=> pc[t] \in {"gate", "ops", "give", "requeue", "restock"}
        /\ doing[t] # Null <=> pc[t] \in {"ops", "give"}
    BY <1>4 DEF Threads, HandInv
  <2> USE DEF TypeInv, Jump, Stay, NextOp
  <2>2. CASE PopSlot(t)
    <3>1. at[t] = "pop_clear" => val[t] \in WorkerSlots
      BY DEF CallInv
    <3>2. QED BY <1>0, <2>1, <2>2, <3>1 DEF PopSlot, WQ!PopClear, jobs
  <2>3. CASE PassGate(t)
    <3>1. Job(t) \in Jobs
      BY <2>3, JobOfGate DEF PassGate
    <3>2. QED BY <1>0, <2>1, <2>3, <3>1 DEF PassGate, slots
  <2>4. CASE Finish(t) \/ Restock(t) \/ Requeue(t)
    BY <2>1, <2>4 DEF Finish, Restock, Requeue, slots, jobs
  <2>5. CASE TakeSlot(t) \/ GiveSlot(t) \/ AddCount(t)
    BY <2>1, <2>5 DEF TakeSlot, GiveSlot, AddCount, slots, jobs, Op
  <2>6. CASE \/ Lock(t) \/ CheckEnabled(t) \/ Sleep(t) \/ Wake(t) \/ Unlock(t) \/ CheckRunning(t) \/ Enter(t)
             \/ MissGate(t) \/ Leave(t) \/ CheckLast(t) \/ NotifyWait(t) \/ CheckEmpty(t) \/ CheckDrained(t)
             \/ Spurious(t)
    <3>1. running' = running /\ doing' = doing
      BY <2>6 DEF Lock, CheckEnabled, Sleep, Wake, Unlock, CheckRunning, Enter, MissGate, Leave, CheckLast,
                  NotifyWait, CheckEmpty, CheckDrained, AskEmpty, Spurious, slots, jobs
    <3>2. /\ pc'[t] \in {"gate", "ops", "give", "requeue", "restock"} <=> pc[t] \in {"gate", "ops", "give", "requeue", "restock"}
          /\ pc'[t] \in {"ops", "give"} <=> pc[t] \in {"ops", "give"}
      BY <2>6 DEF Lock, CheckEnabled, Sleep, Wake, Unlock, CheckRunning, Enter, MissGate, Leave, CheckLast,
                  NotifyWait, CheckEmpty, CheckDrained, AskEmpty, Spurious
    <3>3. QED BY <2>1, <3>1, <3>2
  <2>7. QED BY <1>4, <2>2, <2>3, <2>4, <2>5, <2>6, WorkerSteps
<1>5. running'[Main] = Null /\ doing'[Main] = Null
  BY <1>0, <1>1, <1>3 DEF HandInv
<1>6. QED BY <1>0, <1>1, <1>2, <1>4, <1>5 DEF HandInv

LEMMA PushStep ==
  ASSUME ControlInv, NEW t \in Threads, Step(t)
  PROVE  PushInv'
<1> USE DEF ControlInv
<1>1. ASSUME NEW u \in Threads, pc'[u] = "give"
      PROVE  (next[u] <= Len(Ops(u)) /\ Arg(u).op = "push")'
  <2>1. CASE u # t
    <3>1. pc'[u] = pc[u] /\ next'[u] = next[u] /\ doing'[u] = doing[u]
      BY <2>1, OthersStay
    <3>2. Ops(u)' = Ops(u) /\ Arg(u)' = Arg(u)
      BY <3>1, OpsStay
    <3>3. next[u] <= Len(Ops(u)) /\ Arg(u).op = "push"
      BY <1>1, <3>1 DEF PushInv
    <3>4. QED BY <3>1, <3>2, <3>3
  <2>2. CASE u = t
    <3>1. \/ TakeSlot(t) /\ next' = next /\ doing' = doing
          \/ pc[t] = "give" /\ next' = next /\ doing' = doing
      <4> USE DEF TypeInv, Jump, Stay, NextOp
      <4>1. TakeSlot(t) \/ GiveSlot(t) \/ Spurious(t)
        BY <1>1, <2>2, StepCases DEF Quiet, Lock, CheckEnabled, Sleep, Wake, Unlock, CheckRunning, Enter, PassGate,
           MissGate, Finish, Leave, CheckLast, NotifyWait, AddCount, ExecuteAll, WaitLock, WaitCount, WaitSleep,
           WaitWake, WaitOver, StopFlag, StopNotify, Join, PopSlot, Restock, Requeue, StockSlot,
           CheckEmpty, CheckDrained, WaitEmpty, AskEmpty
      <4>2. CASE TakeSlot(t)
        BY <1>1, <2>2, <4>2 DEF TakeSlot, jobs
      <4>3. CASE GiveSlot(t)
        BY <1>1, <2>2, <4>3 DEF GiveSlot
      <4>4. CASE Spurious(t)
        BY <1>1, <2>2, <4>4 DEF Spurious, jobs
      <4>5. QED BY <4>1, <4>2, <4>3, <4>4
    <3>2. Ops(u)' = Ops(u) /\ Arg(u)' = Arg(u) /\ next'[u] = next[u]
      BY <2>2, <3>1, OpsStay
    <3>3. next[u] <= Len(Ops(u)) /\ Arg(u).op = "push"
      BY <2>2, <3>1 DEF PushInv, TakeSlot, Op, Arg
    <3>4. QED BY <3>2, <3>3
  <2>3. QED BY <2>1, <2>2
<1>2. QED BY <1>1 DEF PushInv

LEMMA CallStep ==
  ASSUME ControlInv, NEW t \in Threads, Step(t)
  PROVE  CallInv'
<1> USE DEF ControlInv, WQ!PushLabels, WQ!PopLabels
<1> DEFINE Fits(u) == /\ at[u] \in WQ!PushLabels => pc[u] \in {"restock", "requeue", "give"} \/ Op(u, "stock")
                      /\ at[u] \in WQ!PopLabels => pc[u] = "pop" \/ Op(u, "push")
                      /\ at[u] = "empty_check" => pc[u] \in {"empty?", "drained?", "queue?"}
                      /\ at[u] \in WQ!PushLabels \cup {"pop_clear"} => val[u] \in WorkerSlots
<1>1. \A u \in Threads : Fits(u)
  BY DEF CallInv
<1>2. ASSUME NEW u \in Threads, u # t PROVE Fits(u)'
  <2>1. pc'[u] = pc[u] /\ next'[u] = next[u] /\ doing'[u] = doing[u] /\ at'[u] = at[u] /\ val'[u] = val[u]
    BY <1>2, OthersStay
  <2>2. \A n : Op(u, n)' <=> Op(u, n)
    BY <2>1, OpsStay
  <2>3. QED BY <1>1, <2>1, <2>2
<1>3. Fits(t)'
  <2> USE DEF TypeInv, Jump, Stay, NextOp
  <2>1. Fits(t)
    BY <1>1
  <2>2. CASE Quiet(t)
    <3>1. UNCHANGED calls
      BY <2>2, QuietKeeps
    <3>2. \/ pc' = pc /\ next' = next /\ doing' = doing
          \/ pc[t] \notin {"restock", "requeue", "give", "pop", "empty?", "drained?", "queue?"}
             /\ ~Op(t, "stock") /\ ~Op(t, "push")
      BY <2>2 DEF Quiet, Lock, CheckEnabled, Sleep, Wake, Unlock, CheckRunning, Enter, PassGate,
         MissGate, Finish, Leave, CheckLast, NotifyWait, AddCount, ExecuteAll, WaitLock, WaitCount, WaitSleep,
         WaitWake, WaitOver, StopFlag, StopNotify, Join, Spurious, jobs, Op
    <3>3. CASE pc' = pc /\ next' = next /\ doing' = doing
      <4>1. \A n : Op(t, n)' <=> Op(t, n)
        BY <3>3, OpsStay
      <4>2. QED BY <2>1, <3>1, <3>3, <4>1 DEF calls
    <3>4. CASE pc[t] \notin {"restock", "requeue", "give", "pop", "empty?", "drained?", "queue?"}
               /\ ~Op(t, "stock") /\ ~Op(t, "push")
      BY <2>1, <3>1, <3>4 DEF calls
    <3>5. QED BY <3>2, <3>3, <3>4
  <2>3. CASE PopSlot(t)
    <3>1. workBuf[idx[t]] \in WorkerSlots \cup {Null}
      BY DEF WQ!RingTypeOK
    <3>2. QED BY <2>1, <2>3, <3>1 DEF PopSlot, WorkPopping, WorkNone, WQ!PopCall, WQ!PopSome, WQ!PopClaim, WQ!PopLoad,
                 WQ!PopEmpty, WQ!PopLost, WQ!PopClear, WQ!Goto, WQ!Return, Op
  <2>4. CASE Restock(t)
    <3>1. pc[t] = "restock" /\ running[t] \in WorkerSlots
      BY <2>4 DEF Restock, HandInv, PartsInv, Threads, ClientLabels
    <3>2. QED BY <2>1, <2>4, <3>1 DEF Restock, StockPushing, StockPushed, SQ!PushCall, SQ!PushRoom, SQ!PushRetry,
                 SQ!PushClaim, SQ!PushFull, SQ!PushStore, SQ!Goto, SQ!Return, Op
  <2>5. CASE Requeue(t)
    <3>1. pc[t] = "requeue" /\ running[t] \in WorkerSlots
      BY <2>5 DEF Requeue, HandInv, PartsInv, Threads, ClientLabels
    <3>2. QED BY <2>1, <2>5, <3>1 DEF Requeue, WorkPushing, WorkPushed, WQ!PushCall, WQ!PushRoom, WQ!PushRetry,
                 WQ!PushClaim, WQ!PushFull, WQ!PushStore, WQ!Goto, WQ!Return, Op
  <2>6. CASE GiveSlot(t)
    <3>1. pc[t] = "give" /\ hand[t] \in WorkerSlots
      BY <2>6 DEF GiveSlot, HandInv
    <3>2. QED BY <2>1, <2>6, <3>1 DEF GiveSlot, WorkPushing, WorkPushed, WQ!PushCall, WQ!PushRoom, WQ!PushRetry,
                 WQ!PushClaim, WQ!PushFull, WQ!PushStore, WQ!Goto, WQ!Return, Op
  <2>7. CASE StockSlot(t)
    <3>1. Arg(t).slot \in WorkerSlots
      BY <2>7, ArgOK, OpTypes DEF StockSlot, Op, Arg
    <3>2. CASE Stay(t, "ops") /\ StockPushing(t, Arg(t).slot) /\ UNCHANGED next
      <4>1. \A n : Op(t, n)' <=> Op(t, n)
        BY <2>7, <3>2, OpsStay DEF StockSlot, jobs
      <4>2. QED BY <2>1, <2>7, <3>1, <3>2, <4>1 DEF StockSlot, StockPushing, SQ!PushCall, SQ!PushRoom, SQ!PushRetry,
                   SQ!PushClaim, SQ!Goto
    <3>3. CASE StockPushed(t)
      BY <3>3 DEF StockPushed, SQ!PushFull, SQ!PushStore, SQ!Goto, SQ!Return
    <3>4. QED BY <2>7, <3>2, <3>3 DEF StockSlot
  <2>8. CASE TakeSlot(t)
    <3>1. stockBuf[idx[t]] \in WorkerSlots \cup {Null}
      BY SameSlots DEF SQ!RingTypeOK
    <3>2. CASE Stay(t, "ops") /\ StockPopping(t) /\ UNCHANGED next
      <4>1. \A n : Op(t, n)' <=> Op(t, n)
        BY <2>8, <3>2, OpsStay DEF TakeSlot, jobs
      <4>2. QED BY <2>1, <2>8, <3>1, <3>2, <4>1 DEF TakeSlot, StockPopping, SQ!PopCall, SQ!PopSome, SQ!PopClaim,
                   SQ!PopLoad, SQ!Goto
    <3>3. CASE StockNone(t) \/ SQ!PopClear(t)
      BY <3>3 DEF StockNone, SQ!PopEmpty, SQ!PopLost, SQ!PopClear, SQ!Goto, SQ!Return
    <3>4. QED BY <2>8, <3>2, <3>3 DEF TakeSlot
  <2>9. CASE CheckEmpty(t) \/ CheckDrained(t) \/ WaitEmpty(t)
    BY <2>1, <2>9 DEF CheckEmpty, CheckDrained, WaitEmpty, AskEmpty, WQ!EmptyCall, WQ!EmptyTrue, WQ!EmptyFalse,
                      WQ!Goto, WQ!Return, Op
  <2>10. QED BY <2>2, <2>3, <2>4, <2>5, <2>6, <2>7, <2>8, <2>9, StepCases
<1>4. QED BY <1>2, <1>3 DEF CallInv

\* Slots are set again, never back to nothing.
LEMMA StaysSet ==
  ASSUME ControlInv, NEW t \in Threads, Step(t), NEW s \in WorkerSlots, IsSet(s)
  PROVE  IsSet(s)'
<1> USE DEF ControlInv, TypeInv, IsSet
<1>1. CASE UNCHANGED slotJob
  BY <1>1
<1>2. CASE TakeSlot(t)
  <2>1. Arg(t).job \in Jobs
    BY <1>2, ArgOK, OpTypes DEF TakeSlot, Op, Arg
  <2>2. slotJob' = slotJob \/ slotJob' = [slotJob EXCEPT ![val[t]] = Arg(t).job]
    BY <1>2 DEF TakeSlot
  <2>3. QED BY <2>1, <2>2, SlotAssumption
<1>3. QED BY <1>1, <1>2, StepCases, QuietKeeps DEF slots, PopSlot, Restock, Requeue, StockSlot,
         GiveSlot, CheckEmpty, CheckDrained, WaitEmpty, AskEmpty

LEMMA SetStep ==
  ASSUME ControlInv, NEW t \in Threads, Step(t)
  PROVE  SetInv'
<1> USE DEF ControlInv
<1>0. WQ!Slots' = WQ!Slots /\ WQ!PushLabels' = WQ!PushLabels /\ idx[t] \in WQ!Slots /\ workBuf \in [WQ!Slots -> WorkerSlots \cup {Null}]
  BY DEF WQ!Slots, WQ!PushLabels, TypeInv, WQ!RingTypeOK
<1>1. ASSUME NEW s \in WorkerSlots, NEW i \in WQ!Slots, workBuf'[i] = s PROVE IsSet(s)'
  <2>1. CASE workBuf'[i] = workBuf[i]
    <3>1. IsSet(s)
      BY <1>0, <1>1, <2>1, SlotAssumption DEF SetInv
    <3>2. QED BY <3>1, StaysSet
  <2>2. CASE workBuf'[i] # workBuf[i]
    <3>1. CASE WorkCall(t) /\ UNCHANGED stockRing
      <4>1. /\ at[t] = "push_store" /\ workBuf'[i] = val[t]
            /\ Requeue(t) \/ GiveSlot(t)
        <5>1. WQ!PushStore(t) \/ WQ!PopClear(t)
          BY <2>2, <3>1 DEF WorkCall, WorkPushing, WorkPushed, WorkPopping, WorkNone, EmptyGoes, WQ!PushCall,
               WQ!PushRoom, WQ!PushRetry, WQ!PushClaim, WQ!PushFull, WQ!PopCall, WQ!PopSome, WQ!PopClaim, WQ!PopLoad,
               WQ!PopEmpty, WQ!PopLost, WQ!EmptyCall, WQ!EmptyTrue, WQ!EmptyFalse, WQ!ring
        <5>2. WQ!PushStore(t)
          BY <1>0, <1>1, <2>2, <5>1, SlotAssumption DEF WQ!PopClear
        <5>3. at[t] = "push_store" /\ workBuf' = [workBuf EXCEPT ![idx[t]] = val[t]]
          BY <5>2 DEF WQ!PushStore
        <5>4. workBuf'[i] = val[t]
          BY <1>0, <2>2, <5>3
        <5>5. workBuf' # workBuf
          BY <2>2
        <5>6. at[t] \in WQ!PushLabels
          BY <5>3 DEF WQ!PushLabels
        <5>7. pc[t] \in {"restock", "requeue", "give"} \/ Op(t, "stock")
          BY <5>6 DEF CallInv
        <5>8. ~Quiet(t) /\ ~Restock(t) /\ ~StockSlot(t) /\ ~TakeSlot(t)
          BY <5>5, QuietKeeps DEF workRing, Restock, StockSlot, TakeSlot
        <5>9. ~PopSlot(t) /\ ~CheckEmpty(t) /\ ~CheckDrained(t) /\ ~WaitEmpty(t)
          BY <5>7 DEF PopSlot, CheckEmpty, CheckDrained, WaitEmpty, AskEmpty, Jump, Stay, Op
        <5>10. QED BY <5>3, <5>4, <5>8, <5>9, StepCases
      <4>2. pc[t] \in {"requeue", "give"} /\ at[t] \in WQ!PushLabels
        BY <4>1 DEF Requeue, GiveSlot, Stay, Jump, NextOp, WQ!PushLabels
      <4>3. IsSet(s)
        BY <1>1, <4>1, <4>2 DEF SetInv
      <4>4. QED BY <4>3, StaysSet
    <3>2. CASE workBuf' = workBuf
      BY <2>2, <3>2
    <3>3. QED BY <3>1, <3>2, StepCalls DEF workRing
  <2>3. QED BY <2>1, <2>2
<1>2. ASSUME NEW s \in WorkerSlots, NEW u \in Threads, running'[u] = s PROVE IsSet(s)'
  <2>1. CASE running'[u] = running[u]
    BY <1>2, <2>1, SlotAssumption, StaysSet DEF SetInv
  <2>2. CASE running'[u] # running[u]
    <3>1. u = t
      BY <2>2, OthersStay
    <3>2. PopSlot(t)
      BY <1>2, <2>2, <3>1, StepCases, QuietKeeps, SlotAssumption DEF slots, Restock, Requeue, StockSlot, TakeSlot, TypeInv,
         GiveSlot, CheckEmpty, CheckDrained, WaitEmpty, AskEmpty
    <3>3. pc[t] = "pop" /\ at[t] = "pop_clear" /\ val[t] = s
      BY <1>2, <2>2, <3>1, <3>2 DEF PopSlot, Stay, Jump, WQ!PopClear, TypeInv
    <3>4. IsSet(s)
      BY <3>3 DEF SetInv
    <3>5. QED BY <3>4, StaysSet
  <2>3. QED BY <2>1, <2>2
<1>3. ASSUME NEW s \in WorkerSlots, NEW u \in Threads, hand'[u] = s PROVE IsSet(s)'
  <2>1. CASE hand'[u] = hand[u]
    BY <1>3, <2>1, SlotAssumption, StaysSet DEF SetInv
  <2>2. CASE hand'[u] # hand[u]
    <3>1. u = t
      BY <2>2, OthersStay
    <3>2. TakeSlot(t)
      BY <1>3, <2>2, <3>1, StepCases, QuietKeeps, SlotAssumption DEF slots, PopSlot, Restock, Requeue, StockSlot, TypeInv,
         GiveSlot, CheckEmpty, CheckDrained, WaitEmpty, AskEmpty
    <3>3. val[t] = s /\ slotJob' = [slotJob EXCEPT ![val[t]] = Arg(t).job]
      BY <1>3, <2>2, <3>1, <3>2 DEF TakeSlot, TypeInv
    <3>4. Arg(t).job \in Jobs
      BY <3>2, ArgOK, OpTypes DEF TakeSlot, Op, Arg
    <3>5. slotJob'[s] = Arg(t).job
      BY <3>3 DEF TypeInv
    <3>6. QED BY <3>4, <3>5, SlotAssumption DEF IsSet
  <2>3. QED BY <2>1, <2>2
<1>4. ASSUME NEW s \in WorkerSlots, NEW u \in Threads, val'[u] = s, pc'[u] \in {"pop", "requeue", "give"},
             at'[u] \in WQ!PushLabels \cup {"pop_clear"}
      PROVE  IsSet(s)'
  <2>1. ASSUME IsSet(s) PROVE IsSet(s)'
    BY <2>1, StaysSet
  <2>2. CASE u # t
    <3>1. pc'[u] = pc[u] /\ at'[u] = at[u] /\ val'[u] = val[u]
      BY <2>2, OthersStay
    <3>2. IsSet(s)
      BY <1>4, <3>1 DEF SetInv
    <3>3. QED BY <2>1, <3>2
  <2>3. CASE u = t
    <3> USE DEF TypeInv, Jump, Stay, NextOp, WQ!PushLabels
    <3>1. CASE Quiet(t)
      <4>1. at' = at /\ val' = val
        BY <3>1, QuietKeeps DEF calls
      <4>2. pc[t] \in {"restock", "requeue", "give", "pop"} \/ Op(t, "stock") \/ Op(t, "push")
        BY <1>4, <2>3, <4>1 DEF CallInv, WQ!PopLabels
      <4>3. pc' = pc
        BY <1>4, <2>3, <3>1, <4>2 DEF Quiet, Op, Lock, CheckEnabled, Sleep, Wake, Unlock, CheckRunning, Enter, PassGate,
         MissGate, Finish, Leave, CheckLast, NotifyWait, AddCount, ExecuteAll, WaitLock, WaitCount, WaitSleep,
         WaitWake, WaitOver, StopFlag, StopNotify, Join, Spurious
      <4>4. IsSet(s)
        BY <1>4, <2>3, <4>1, <4>3 DEF SetInv
      <4>5. QED BY <2>1, <4>4
    <3>2. CASE PopSlot(t)
      <4>1. CASE WQ!PopLoad(t)
        <5>1. workBuf[idx[t]] # Null /\ val'[t] = workBuf[idx[t]]
          BY <4>1 DEF WQ!PopLoad
        <5>2. IsSet(s)
          BY <1>0, <1>4, <2>3, <5>1 DEF SetInv
        <5>3. QED BY <2>1, <5>2
      <4>2. CASE ~WQ!PopLoad(t)
        <5>1. FALSE
          BY <1>4, <2>3, <3>2, <4>2 DEF PopSlot, WorkPopping, WorkNone, WQ!PopCall, WQ!PopSome, WQ!PopClaim,
             WQ!PopEmpty, WQ!PopLost, WQ!PopClear, WQ!Goto, WQ!Return
        <5>2. QED BY <5>1
      <4>3. QED BY <4>1, <4>2
    <3>3. CASE Requeue(t)
      <4>1. pc[t] = "requeue" /\ running[t] \in WorkerSlots /\ IsSet(running[t])
        BY <3>3, SlotAssumption DEF Requeue, HandInv, PartsInv, Threads, ClientLabels, SetInv
      <4>2. \/ val'[t] = running[t]
            \/ val'[t] = val[t] /\ at[t] \in WQ!PushLabels
        BY <1>4, <2>3, <3>3 DEF Requeue, WorkPushing, WorkPushed, WQ!PushCall, WQ!PushRoom, WQ!PushRetry,
           WQ!PushClaim, WQ!PushFull, WQ!PushStore, WQ!Goto, WQ!Return
      <4>3. CASE val'[t] = running[t]
        BY <1>4, <2>1, <2>3, <4>1, <4>3
      <4>4. CASE val'[t] = val[t] /\ at[t] \in WQ!PushLabels
        <5>1. IsSet(s)
          BY <1>4, <2>3, <4>1, <4>4 DEF SetInv
        <5>2. QED BY <2>1, <5>1
      <4>5. QED BY <4>2, <4>3, <4>4
    <3>4. CASE GiveSlot(t)
      <4>1. pc[t] = "give" /\ hand[t] \in WorkerSlots /\ IsSet(hand[t])
        BY <3>4, SlotAssumption DEF GiveSlot, HandInv, SetInv
      <4>2. \/ val'[t] = hand[t]
            \/ val'[t] = val[t] /\ at[t] \in WQ!PushLabels
        BY <1>4, <2>3, <3>4 DEF GiveSlot, WorkPushing, WorkPushed, WQ!PushCall, WQ!PushRoom, WQ!PushRetry,
           WQ!PushClaim, WQ!PushFull, WQ!PushStore, WQ!Goto, WQ!Return
      <4>3. CASE val'[t] = hand[t]
        BY <1>4, <2>1, <2>3, <4>1, <4>3
      <4>4. CASE val'[t] = val[t] /\ at[t] \in WQ!PushLabels
        <5>1. IsSet(s)
          BY <1>4, <2>3, <4>1, <4>4 DEF SetInv
        <5>2. QED BY <2>1, <5>1
      <4>5. QED BY <4>2, <4>3, <4>4
    <3>5. CASE TakeSlot(t) \/ StockSlot(t) \/ Restock(t)
      <4>1. pc'[t] \in {"pop", "give"} => at'[t] = "idle"
        BY <3>5 DEF TakeSlot, StockSlot, Restock, StockPushed, StockNone, SQ!PushFull, SQ!PushStore, SQ!PopEmpty,
           SQ!PopLost, SQ!PopClear, SQ!Goto, SQ!Return
      <4>2. pc'[t] # "requeue"
        BY <3>5 DEF TakeSlot, StockSlot, Restock
      <4>3. QED BY <1>4, <2>3, <4>1, <4>2
    <3>6. CASE CheckEmpty(t) \/ CheckDrained(t) \/ WaitEmpty(t)
      BY <1>4, <2>3, <3>6 DEF CheckEmpty, CheckDrained, WaitEmpty, AskEmpty
    <3>7. QED BY <3>1, <3>2, <3>3, <3>4, <3>5, <3>6, StepCases
  <2>4. QED BY <2>2, <2>3
<1>5. TypeInv' /\ CallInv' /\ Null \notin WorkerSlots
  BY TypeStep, CallStep, SlotAssumption
<1>6. \A i \in WQ!Slots : workBuf'[i] \in WorkerSlots \cup {Null}
  BY <1>0, <1>5 DEF TypeInv, WQ!RingTypeOK
<1>7. \A u \in Threads : running'[u] \in WorkerSlots \cup {Null} /\ hand'[u] \in WorkerSlots \cup {Null}
  BY <1>5 DEF TypeInv
<1>8. \A u \in Threads : at'[u] \in WQ!PushLabels \cup {"pop_clear"} => val'[u] \in WorkerSlots
  BY <1>0, <1>5 DEF CallInv
<1>9. QED
  <2>1. (\A i \in WQ!Slots : workBuf[i] # Null => IsSet(workBuf[i]))'
    BY <1>0, <1>1, <1>6 DEF IsSet
  <2>2. (\A u \in Threads : (running[u] # Null => IsSet(running[u])) /\ (hand[u] # Null => IsSet(hand[u])))'
    BY <1>2, <1>3, <1>7 DEF IsSet
  <2>3. (\A u \in Threads : pc[u] \in {"pop", "requeue", "give"}
                             /\ at[u] \in WQ!PushLabels \cup {"pop_clear"} => IsSet(val[u]))'
    BY <1>0, <1>4, <1>8 DEF IsSet
  <2>4. QED BY <2>1, <2>2, <2>3 DEF SetInv

LEMMA ControlStep == ControlInv /\ [Next]_vars => ControlInv'
<1> SUFFICES ASSUME ControlInv, [Next]_vars PROVE ControlInv'
  OBVIOUS
<1>1. CASE Next
  <2>1. PICK t \in Threads : Step(t)
    BY <1>1 DEF Next, Step
  <2>2. QED BY <2>1, TypeStep, PartsStep, HandStep, CallStep, PushStep, SetStep DEF ControlInv
<1>2. CASE UNCHANGED vars
  <2> USE DEF vars, workRing, stockRing, calls, sync, slots, jobs, ControlInv
  <2>1. TypeInv'
    BY <1>2 DEF TypeInv, WQ!RingTypeOK, SQ!RingTypeOK
  <2>2. PartsInv' /\ HandInv'
    BY <1>2 DEF PartsInv, HandInv
  <2>3. CallInv' /\ PushInv'
    BY <1>2 DEF CallInv, PushInv, Op, Arg, Ops, Script, Body
  <2>4. SetInv'
    BY <1>2 DEF SetInv, IsSet
  <2>5. QED BY <2>1, <2>2, <2>3, <2>4
<1>3. QED BY <1>1, <1>2

LEMMA ControlInit == Init => ControlInv
<1> SUFFICES ASSUME Init PROVE ControlInv
  OBVIOUS
<1> USE DEF Init
<1>1. Main \in Threads /\ Workers \subseteq Threads /\ Main \notin Workers /\ Threads = Workers \cup {Main}
  BY MainAssumption DEF Threads
<1>2. Crew \subseteq Workers
  BY ProgramsAssumption DEF Crew
<1>3. 0 \in WQ!Slots /\ SQ!Slots = WQ!Slots
  BY SlotAssumption, SameSlots DEF WQ!Slots
<1>4. \A t \in Threads : pc[t] \in AllLabels /\ (t # Main => pc[t] \in {"lock", "done"}) /\ pc[Main] = "ops"
  BY <1>1, <1>2 DEF AllLabels, UpdateLabels
<1>5. TypeInv
  <2>1. WQ!RingTypeOK(WorkerSlots) /\ SQ!RingTypeOK(WorkerSlots)
    BY <1>3 DEF WQ!RingInit, WQ!RingTypeOK, SQ!RingInit, SQ!RingTypeOK
  <2>2. at \in [Threads -> WQ!Labels] /\ idx \in [Threads -> WQ!Slots] /\ val \in [Threads -> WorkerSlots \cup {Null}]
    BY <1>3 DEF WQ!Labels
  <2>3. pc \in [Threads -> AllLabels] /\ next \in [Threads -> Nat \ {0}]
    BY <1>4
  <2>4. /\ running \in [Threads -> WorkerSlots \cup {Null}] /\ hand \in [Threads -> WorkerSlots \cup {Null}]
        /\ slotJob \in [WorkerSlots -> Jobs \cup {Null}] /\ doing \in [Threads -> Jobs \cup {Null}]
    OBVIOUS
  <2>5. count \in [Counters -> Int] /\ begun \in [Jobs -> Nat] /\ ran \in [Jobs -> Nat]
    BY ProgramsAssumption
  <2>6. QED BY <2>1, <2>2, <2>3, <2>4, <2>5 DEF TypeInv
<1>6. PartsInv /\ HandInv
  BY <1>1, <1>4 DEF PartsInv, HandInv, UpdateLabels
<1>7. CallInv /\ PushInv
  BY <1>4 DEF CallInv, PushInv, WQ!PushLabels, WQ!PopLabels
<1>8. SetInv
  BY DEF SetInv, WQ!RingInit, WQ!PushLabels
<1>9. QED BY <1>5, <1>6, <1>7, <1>8 DEF ControlInv

-----------------------------------------------------------------------------
(* The count of the threads that look for work. *)

InsideLabels == {"pop", "gate", "ops", "give", "requeue", "restock", "leave"}
Inside == {w \in Workers : pc[w] \in InsideLabels}

\* executeCount is the number of workers between its two changes: what the end of the
\* loop and wait() read (worker2.h:82-110, 150-151).
CountInv == executeCount = Cardinality(Inside)

LEMMA CountStep ==
  ASSUME ControlInv, CountInv, NEW t \in Threads, Step(t)
  PROVE  CountInv'
<1> USE DEF ControlInv, InsideLabels
<1>1. IsFiniteSet(Inside) /\ Main \notin Workers /\ Workers \subseteq Threads
  BY MainAssumption, FS_Subset DEF Inside, Threads
<1>2. \A u \in Workers \ {t} : pc'[u] = pc[u]
  BY <1>1, OthersStay
<1> USE DEF TypeInv, Jump, Stay, NextOp
<1>3. CASE Enter(t)
  <2>1. pc[t] = "enter" /\ pc'[t] = "pop" /\ executeCount' = executeCount + 1
    BY <1>3 DEF Enter
  <2>2. t \in Workers
    BY <2>1 DEF PartsInv, Threads, ClientLabels
  <2>3. Inside' = Inside \cup {t} /\ t \notin Inside
    BY <1>2, <2>1, <2>2 DEF Inside
  <2>4. QED BY <1>1, <2>1, <2>3, FS_AddElement DEF CountInv
<1>4. CASE Leave(t)
  <2>1. pc[t] = "leave" /\ pc'[t] = "last?" /\ executeCount' = executeCount - 1
    BY <1>4 DEF Leave
  <2>2. t \in Workers
    BY <2>1 DEF PartsInv, Threads, ClientLabels
  <2>3. Inside' = Inside \ {t} /\ t \in Inside
    BY <1>2, <2>1, <2>2 DEF Inside
  <2>4. QED BY <1>1, <2>1, <2>3, FS_RemoveElement DEF CountInv
<1>5. CASE ~Enter(t) /\ ~Leave(t)
  <2>1. executeCount' = executeCount
    BY <1>5, StepCases DEF Quiet, Lock, CheckEnabled, Sleep, Wake, Unlock, CheckRunning, PassGate, MissGate, Finish,
         CheckLast, NotifyWait, AddCount, ExecuteAll, WaitLock, WaitCount, WaitSleep, WaitWake, WaitOver, StopFlag,
         StopNotify, Join, Spurious, PopSlot, Restock, Requeue, StockSlot, TakeSlot, GiveSlot, CheckEmpty,
         CheckDrained, WaitEmpty, AskEmpty
  <2>2. ASSUME t # Main PROVE pc'[t] \in InsideLabels <=> pc[t] \in InsideLabels
    <3>1. CASE \/ Lock(t) \/ CheckEnabled(t) \/ Sleep(t) \/ Wake(t) \/ Unlock(t) \/ CheckRunning(t)
               \/ CheckLast(t) \/ NotifyWait(t) \/ CheckEmpty(t) \/ CheckDrained(t)
      BY <3>1 DEF Lock, CheckEnabled, Sleep, Wake, Unlock, CheckRunning, CheckLast, NotifyWait, CheckEmpty,
                  CheckDrained, AskEmpty
    <3>2. CASE \/ PassGate(t) \/ MissGate(t) \/ Finish(t) \/ AddCount(t) \/ PopSlot(t) \/ Restock(t) \/ Requeue(t)
               \/ TakeSlot(t) \/ GiveSlot(t)
      BY <3>2 DEF PassGate, MissGate, Finish, AddCount, PopSlot, Restock, Requeue, TakeSlot, GiveSlot, Op
    <3>3. CASE Spurious(t)
      BY <3>3 DEF Spurious
    <3>4. QED BY <1>5, <2>2, <3>1, <3>2, <3>3, WorkerSteps
  <2>3. Inside' = Inside
    BY <1>1, <1>2, <2>2 DEF Inside
  <2>4. QED BY <2>1, <2>3 DEF CountInv
<1>6. QED BY <1>3, <1>4, <1>5

LEMMA CountInit == Init => CountInv
<1> SUFFICES ASSUME Init PROVE CountInv
  OBVIOUS
<1>1. \A w \in Workers : w # Main /\ w \in Threads
  BY MainAssumption DEF Threads
<1>2. Inside = {}
  BY <1>1 DEF Init, Inside, InsideLabels
<1>3. QED BY <1>2, FS_EmptySet DEF Init, CountInv

\* The members of WorkerThread and the locals of its functions keep their types,
\* whatever the program and however often the rings are lapped: a slot that comes
\* out of workerQueue is set to a job, and executeCount is the number of threads in
\* the loop of worker2.h:83-104, so wait() and the last thread read what they mean to.
THEOREM TypeCorrect == Spec => []TypeOK
<1>1. Init => ControlInv /\ CountInv
  BY ControlInit, CountInit
<1>2. ControlInv /\ CountInv /\ [Next]_vars => (ControlInv /\ CountInv)'
  <2> SUFFICES ASSUME ControlInv, CountInv, [Next]_vars PROVE CountInv'
    BY ControlStep
  <2>1. CASE Next
    BY <2>1, CountStep DEF Next, Step
  <2>2. CASE UNCHANGED vars
    BY <2>2 DEF vars, CountInv, Inside
  <2>3. QED BY <2>1, <2>2
<1>3. ControlInv /\ CountInv => TypeOK
  <2> SUFFICES ASSUME ControlInv, CountInv PROVE TypeOK
    OBVIOUS
  <2>1. /\ Cardinality(Inside) \in Nat /\ Cardinality(Inside) <= Cardinality(Workers)
        /\ Cardinality(Workers) \in Nat
    BY MainAssumption, FS_Subset, FS_CardinalityType DEF Inside
  <2>2. executeCount \in 0 .. Cardinality(Workers)
    BY <2>1 DEF CountInv
  <2>3. next \in [Threads -> Nat]
    BY DEF ControlInv, TypeInv
  <2>4. QED BY <2>2, <2>3 DEF TypeOK, ControlInv, TypeInv, AllLabels
<1>4. QED BY <1>1, <1>2, <1>3, PTL DEF Spec

-----------------------------------------------------------------------------
(* One ring, whichever: its three members, the threads that have claimed a *)
(* slot to store to (St) or to remove from (Rm), those of the latter that  *)
(* have read it (Ld), and the locals of all of them.                       *)

\* How far slot i is from slot s, going round, and the slots from s up to e.
Away(s, i) == IF i >= s THEN i - s ELSE i - s + NbWorker
Window(s, e) == {i \in WQ!Slots : Away(s, i) < Away(s, e)}

\* A slot has one store and one removal at most; a removal is behind start; a store
\* finds its slot empty; there is something in a slot between start and end, or it
\* comes, and else only where a removal has not cleared it.
RingOK(buf, s, e, St, Rm, Ld, ix, vl) ==
  /\ \A t, u \in St : ix[t] = ix[u] => t = u
  /\ \A t, u \in Rm : ix[t] = ix[u] => t = u
  /\ \A t \in Rm : ix[t] \notin Window(s, e)
  /\ \A t \in St : buf[ix[t]] = Null /\ (ix[t] \in Window(s, e) \/ \E u \in Rm : ix[u] = ix[t])
  /\ \A i \in WQ!Slots : buf[i] # Null => i \in Window(s, e) \/ \E u \in Rm : ix[u] = i
  /\ \A i \in Window(s, e) : buf[i] # Null \/ \E u \in St : ix[u] = i
  /\ \A t \in Ld : buf[ix[t]] = vl[t]

\* Succ without its division.
LEMMA SuccIs ==
  ASSUME NEW i \in WQ!Slots
  PROVE  WQ!Succ(i) = IF i + 1 = NbWorker THEN 0 ELSE i + 1
<1> PICK n : n = NbWorker
  OBVIOUS
<1>1. n \in Nat /\ n > 0 /\ i \in 0 .. n - 1
  BY SlotAssumption DEF WQ!Slots
<1>2. (i + 1) % n = IF i + 1 = n THEN 0 ELSE i + 1
  <2>1. CASE i + 1 = n
    BY <1>1, <2>1
  <2>2. CASE i + 1 # n
    <3>1. i + 1 \in Nat /\ i + 1 < n
      BY <1>1, <2>2
    <3>2. QED BY <1>1, <2>2, <3>1
  <2>3. QED BY <2>1, <2>2
<1>3. QED BY <1>2 DEF WQ!Succ

\* A push adds the slot at end ...
LEMMA PushWindow ==
  ASSUME NEW s \in WQ!Slots, NEW e \in WQ!Slots, WQ!Succ(e) # s
  PROVE  e \notin Window(s, e) /\ Window(s, WQ!Succ(e)) = Window(s, e) \cup {e}
<1>1. NbWorker \in Nat /\ NbWorker > 0 /\ s \in 0 .. NbWorker - 1 /\ e \in 0 .. NbWorker - 1
  BY SlotAssumption DEF WQ!Slots
<1>2. Away(s, WQ!Succ(e)) = Away(s, e) + 1
  BY <1>1, SuccIs DEF Away
<1>3. ASSUME NEW i \in WQ!Slots PROVE Away(s, i) < Away(s, e) + 1 <=> Away(s, i) < Away(s, e) \/ i = e
  <2>1. i \in 0 .. NbWorker - 1
    BY DEF WQ!Slots
  <2>2. QED BY <1>1, <2>1 DEF Away
<1>4. Away(s, e) \in Nat
  BY <1>1 DEF Away
<1>5. QED BY <1>2, <1>3, <1>4 DEF Window

\* ... and a pop removes the one at start.
LEMMA PopWindow ==
  ASSUME NEW s \in WQ!Slots, NEW e \in WQ!Slots, s # e
  PROVE  s \in Window(s, e) /\ Window(WQ!Succ(s), e) = Window(s, e) \ {s}
<1>1. NbWorker \in Nat /\ NbWorker > 0 /\ s \in 0 .. NbWorker - 1 /\ e \in 0 .. NbWorker - 1
  BY SlotAssumption DEF WQ!Slots
<1>2. ASSUME NEW i \in WQ!Slots
      PROVE  Away(WQ!Succ(s), i) < Away(WQ!Succ(s), e) <=> Away(s, i) < Away(s, e) /\ i # s
  <2>1. i \in 0 .. NbWorker - 1
    BY DEF WQ!Slots
  <2>2. QED BY <1>1, <2>1, SuccIs DEF Away
<1>3. Away(s, s) < Away(s, e)
  BY <1>1 DEF Away
<1>4. QED BY <1>2, <1>3 DEF Window

\* A ring is full when all slots but the one at end are taken.
LEMMA FullWindow ==
  ASSUME NEW s \in WQ!Slots, NEW e \in WQ!Slots, WQ!Succ(e) = s
  PROVE  \A i \in WQ!Slots : i # e => i \in Window(s, e)
<1>1. NbWorker \in Nat /\ NbWorker > 0 /\ s \in 0 .. NbWorker - 1 /\ e \in 0 .. NbWorker - 1
  BY SlotAssumption DEF WQ!Slots
<1>2. s = IF e + 1 = NbWorker THEN 0 ELSE e + 1
  BY SuccIs
<1>3. \A i \in 0 .. NbWorker - 1 : i # e => Away(s, i) < Away(s, e)
  BY <1>1, <1>2 DEF Away
<1>4. QED BY <1>3 DEF Window, WQ!Slots

\* ... a claim of the slot at end enters the window and takes a place among the stores ...
LEMMA RingClaim ==
  ASSUME NEW buf, NEW s \in WQ!Slots, NEW e \in WQ!Slots, NEW St, NEW Rm, NEW Ld, NEW ix, NEW vl,
         RingOK(buf, s, e, St, Rm, Ld, ix, vl), NEW t, ix[t] = e, WQ!Succ(e) # s,
         \A u \in Rm : ix[u] # e
  PROVE  RingOK(buf, s, WQ!Succ(e), St \cup {t}, Rm, Ld, ix, vl)
<1> USE DEF RingOK
<1>1. e \notin Window(s, e) /\ Window(s, WQ!Succ(e)) = Window(s, e) \cup {e}
  BY PushWindow
<1>2. buf[e] = Null
  BY <1>1
<1>3. \A u \in St : ix[u] # e
  BY <1>1
<1> PICK W, W2 : W = Window(s, e) /\ W2 = Window(s, WQ!Succ(e))
  OBVIOUS
<1>4. W2 = W \cup {e} /\ e \notin W
  BY <1>1
<1>5. QED BY <1>2, <1>3, <1>4

\* ... its store fills the slot ...
LEMMA RingStore ==
  ASSUME NEW buf \in [WQ!Slots -> WorkerSlots \cup {Null}], NEW s, NEW e, NEW St, NEW Rm, NEW Ld, NEW ix, NEW vl,
         RingOK(buf, s, e, St, Rm, Ld, ix, vl), NEW t \in St, t \notin Rm, Ld \subseteq Rm,
         ix[t] \in WQ!Slots, NEW v \in WorkerSlots, \A u \in Ld : vl[u] # Null,
         NEW ix2, NEW vl2, \A u \in (St \cup Rm) \ {t} : ix2[u] = ix[u] /\ vl2[u] = vl[u]
  PROVE  RingOK([buf EXCEPT ![ix[t]] = v], s, e, St \ {t}, Rm, Ld, ix2, vl2)
<1> USE DEF RingOK
<1> PICK W : W = Window(s, e)
  OBVIOUS
<1>1. W \subseteq WQ!Slots
  BY DEF Window
<1> PICK b : b = [buf EXCEPT ![ix[t]] = v]
  OBVIOUS
<1>2. b[ix[t]] = v /\ v # Null /\ \A i \in WQ!Slots : i # ix[t] => b[i] = buf[i]
  BY SlotAssumption
<1>3. buf[ix[t]] = Null /\ (ix[t] \in W \/ \E u \in Rm : ix[u] = ix[t])
  OBVIOUS
<1>4. \A u \in Ld : ix[u] # ix[t]
  BY <1>3
<1>5. \A u \in St \ {t} : ix[u] # ix[t]
  OBVIOUS
<1>6. \A u \in St : ix[u] \in W \/ \E w \in Rm : ix[w] = ix[u]
  OBVIOUS
<1>7. \A u \in St \ {t} : b[ix[u]] = Null
  BY <1>2, <1>5
<1>8. QED BY <1>1, <1>2, <1>3, <1>4, <1>5, <1>6, <1>7

\* ... a claim of the slot at start leaves the window and becomes a removal ...
LEMMA RingTake ==
  ASSUME NEW buf, NEW s \in WQ!Slots, NEW e \in WQ!Slots, NEW St, NEW Rm, NEW Ld, NEW ix, NEW vl,
         RingOK(buf, s, e, St, Rm, Ld, ix, vl), NEW t, ix[t] = s, s # e
  PROVE  RingOK(buf, WQ!Succ(s), e, St, Rm \cup {t}, Ld, ix, vl)
<1> USE DEF RingOK
<1>1. s \in Window(s, e) /\ Window(WQ!Succ(s), e) = Window(s, e) \ {s}
  BY PopWindow
<1>2. \A u \in Rm : ix[u] # s
  BY <1>1
<1> PICK W, W2 : W = Window(s, e) /\ W2 = Window(WQ!Succ(s), e)
  OBVIOUS
<1>3. W2 = W \ {s}
  BY <1>1
<1>4. QED BY <1>2, <1>3

\* ... which reads the slot ...
LEMMA RingLoad ==
  ASSUME NEW buf, NEW s, NEW e, NEW St, NEW Rm, NEW Ld, NEW ix, NEW vl,
         RingOK(buf, s, e, St, Rm, Ld, ix, vl), NEW t, t \notin Ld,
         NEW vl2, vl2[t] = buf[ix[t]], \A u \in Ld : vl2[u] = vl[u]
  PROVE  RingOK(buf, s, e, St, Rm, Ld \cup {t}, ix, vl2)
BY DEF RingOK

\* ... and clears it: each step keeps the ring in order.
LEMMA RingClear ==
  ASSUME NEW buf \in [WQ!Slots -> WorkerSlots \cup {Null}], NEW s, NEW e, NEW St, NEW Rm, NEW Ld, NEW ix, NEW vl,
         RingOK(buf, s, e, St, Rm, Ld, ix, vl), NEW t \in Ld, t \notin St, Ld \subseteq Rm,
         ix[t] \in WQ!Slots, vl[t] # Null,
         NEW ix2, NEW vl2, \A u \in (St \cup Rm) \ {t} : ix2[u] = ix[u] /\ vl2[u] = vl[u]
  PROVE  RingOK([buf EXCEPT ![ix[t]] = Null], s, e, St, Rm \ {t}, Ld \ {t}, ix2, vl2)
<1> USE DEF RingOK
<1> PICK W : W = Window(s, e)
  OBVIOUS
<1>1. W \subseteq WQ!Slots
  BY DEF Window
<1> PICK b : b = [buf EXCEPT ![ix[t]] = Null]
  OBVIOUS
<1>2. b[ix[t]] = Null /\ \A i \in WQ!Slots : i # ix[t] => b[i] = buf[i]
  OBVIOUS
<1>3. buf[ix[t]] = vl[t] /\ ix[t] \notin W
  OBVIOUS
<1>4. \A u \in St : ix[u] # ix[t]
  BY <1>3
<1>5. \A u \in Rm \ {t} : ix[u] # ix[t]
  OBVIOUS
<1>6. \A u \in St : buf[ix[u]] = Null /\ (ix[u] \in W \/ \E w \in Rm : ix[w] = ix[u])
  OBVIOUS
<1>7. \A u \in St : b[ix[u]] = Null
  <2>1. \A u \in St : ix[u] \in WQ!Slots => b[ix[u]] = Null
    BY <1>2, <1>4, <1>6
  <2>2. DOMAIN b = WQ!Slots /\ DOMAIN buf = WQ!Slots
    OBVIOUS
  <2>3. QED BY <1>4, <1>6
<1>8. \A i \in WQ!Slots : b[i] # Null => i # ix[t] /\ buf[i] # Null
  BY <1>2
<1>9. \A i \in W : b[i] # Null \/ \E u \in St : ix[u] = i
  BY <1>1, <1>2, <1>3
<1>10. \A u \in Ld \ {t} : b[ix[u]] = vl2[u]
  BY <1>2, <1>5
<1>11. QED BY <1>1, <1>3, <1>4, <1>5, <1>6, <1>7, <1>8, <1>9, <1>10

\* So does every step that leaves the ring and the calls on it alone.
LEMMA RingIdle ==
  ASSUME NEW buf, NEW s, NEW e, NEW St, NEW Rm, NEW Ld, NEW ix, NEW vl, Ld \subseteq Rm,
         RingOK(buf, s, e, St, Rm, Ld, ix, vl),
         NEW ix2, NEW vl2, \A u \in St \cup Rm : ix2[u] = ix[u] /\ vl2[u] = vl[u]
  PROVE  RingOK(buf, s, e, St, Rm, Ld, ix2, vl2)
BY DEF RingOK

\* The slots there is room for in a ring of NbWorker.
Fit == 1 .. NbWorker - 1

\* Where NbWorker - 1 different slots go round, one of which is not in the ring, the ring is not full.
LEMMA RoomLeft ==
  ASSUME NEW buf, NEW s \in WQ!Slots, NEW e \in WQ!Slots, NEW St, NEW Rm, NEW Ld, NEW ix, NEW vl,
         RingOK(buf, s, e, St, Rm, Ld, ix, vl), NEW v \in Fit,
         \A i \in WQ!Slots : buf[i] # Null => buf[i] \in Fit \ {v},
         \A i, k \in WQ!Slots : buf[i] # Null /\ buf[i] = buf[k] => i = k,
         \A u \in St : vl[u] \in Fit \ {v} /\ \A i \in WQ!Slots : buf[i] # vl[u],
         \A u, w \in St : vl[u] = vl[w] => u = w
  PROVE  WQ!Succ(e) # s
<1> SUFFICES ASSUME WQ!Succ(e) = s PROVE FALSE
  OBVIOUS
<1>1. \A i \in WQ!Slots : i # e => buf[i] # Null \/ \E u \in St : ix[u] = i
  BY FullWindow DEF RingOK
<1> DEFINE In(i, x) == \/ buf[i] # Null /\ x = buf[i] /\ i # e
                       \/ \E u \in St : ix[u] = i /\ vl[u] = x /\ i # e
                       \/ i = e /\ x = v
<1>2. ASSUME NEW i \in WQ!Slots PROVE \E x \in Fit : In(i, x)
  BY <1>1
<1>3. ASSUME NEW i \in WQ!Slots, NEW k \in WQ!Slots, NEW x, In(i, x), In(k, x) PROVE i = k
  <2>1. CASE i = e \/ k = e
    BY <1>3, <2>1
  <2>2. CASE i # e /\ k # e
    BY <1>3, <2>2
  <2>3. QED BY <2>1, <2>2
<1> HIDE DEF In
<1> DEFINE f == [i \in WQ!Slots |-> CHOOSE x \in Fit : In(i, x)]
<1>4. f \in [WQ!Slots -> Fit] /\ \A i \in WQ!Slots : In(i, f[i])
  BY <1>2
<1>5. IsFiniteSet(WQ!Slots) /\ Cardinality(WQ!Slots) = NbWorker
  <2>1. 0 \in Int /\ NbWorker - 1 \in Int
    BY SlotAssumption
  <2>2. QED BY <2>1, SlotAssumption, FS_Interval DEF WQ!Slots
<1>6. IsFiniteSet(Fit) /\ Cardinality(Fit) < Cardinality(WQ!Slots)
  <2>1. 1 \in Int /\ NbWorker - 1 \in Int
    BY SlotAssumption
  <2>2. QED BY <1>5, <2>1, SlotAssumption, FS_Interval DEF Fit
<1> HIDE DEF f
<1>7. \E i, k \in WQ!Slots : i # k /\ f[i] = f[k]
  BY <1>4, <1>5, <1>6, FS_PigeonHole
<1>8. QED BY <1>3, <1>4, <1>7

-----------------------------------------------------------------------------
(* The steps of a thread, as calls of the two rings.                       *)

Places2 == <<running, hand>>
WorkPushGoes(t) == /\ pc[t] \in {"requeue", "give"} /\ pc' = pc /\ next' = next
                   /\ WorkPushing(t, IF pc[t] = "give" THEN hand[t] ELSE running[t])
                   /\ UNCHANGED <<stockRing, Places2>>
RequeueEnds(t) == /\ pc[t] = "requeue" /\ pc' = [pc EXCEPT ![t] = "pop"] /\ next' = next
                  /\ WorkPushed(t)
                  /\ running' = [running EXCEPT ![t] = Null] /\ hand' = hand /\ UNCHANGED stockRing
GiveEnds(t) == /\ pc[t] = "give" /\ pc' = [pc EXCEPT ![t] = "ops"] /\ next' = [next EXCEPT ![t] = @ + 1]
               /\ WorkPushed(t)
               /\ hand' = [hand EXCEPT ![t] = Null] /\ running' = running /\ UNCHANGED stockRing
WorkPopGoes(t) == /\ pc[t] = "pop" /\ pc' = pc /\ next' = next
                  /\ WorkPopping(t) /\ UNCHANGED <<stockRing, Places2>>
WorkPopFails(t) == /\ pc[t] = "pop" /\ pc' = [pc EXCEPT ![t] = "leave"] /\ next' = next
                   /\ WorkNone(t) /\ UNCHANGED <<stockRing, Places2>>
WorkPopEnds(t) == /\ pc[t] = "pop" /\ pc' = [pc EXCEPT ![t] = "gate"] /\ next' = next
                  /\ WQ!PopClear(t)
                  /\ running' = [running EXCEPT ![t] = val[t]] /\ hand' = hand /\ UNCHANGED stockRing
RestockGoes(t) == /\ pc[t] = "restock" /\ pc' = pc /\ next' = next
                  /\ StockPushing(t, running[t]) /\ UNCHANGED <<workRing, Places2>>
RestockEnds(t) == /\ pc[t] = "restock" /\ pc' = [pc EXCEPT ![t] = "pop"] /\ next' = next
                  /\ StockPushed(t)
                  /\ running' = [running EXCEPT ![t] = Null] /\ hand' = hand /\ UNCHANGED workRing
BuildGoes(t) == /\ Op(t, "stock") /\ pc' = pc /\ next' = next
                /\ StockPushing(t, Arg(t).slot) /\ UNCHANGED <<workRing, Places2>>
BuildEnds(t) == /\ Op(t, "stock") /\ pc' = [pc EXCEPT ![t] = "ops"] /\ next' = [next EXCEPT ![t] = @ + 1]
                /\ StockPushed(t) /\ UNCHANGED <<workRing, Places2>>
TakeGoes(t) == /\ Op(t, "push") /\ pc' = pc /\ next' = next
               /\ StockPopping(t) /\ UNCHANGED <<workRing, Places2>>
TakeFails(t) == /\ Op(t, "push") /\ pc' = [pc EXCEPT ![t] = "ops"] /\ next' = [next EXCEPT ![t] = @ + 1]
                /\ StockNone(t) /\ UNCHANGED <<workRing, Places2>>
TakeEnds(t) == /\ Op(t, "push") /\ pc' = [pc EXCEPT ![t] = "give"] /\ next' = next
               /\ SQ!PopClear(t)
               /\ hand' = [hand EXCEPT ![t] = val[t]] /\ running' = running /\ UNCHANGED workRing
Asks(t) == /\ pc[t] \in {"empty?", "drained?", "queue?"} /\ next' = next
           /\ EmptyGoes(t) /\ (WQ!EmptyCall(t) => pc' = pc) /\ UNCHANGED <<workRing, stockRing, Places2>>
\* Between two calls, and a sleeper that wakes for no reason.
CallFree(t) == /\ UNCHANGED <<workRing, stockRing, calls, Places2>>
               /\ \/ UNCHANGED <<pc, next, doing>>
                  \/ /\ pc[t] \notin {"restock", "requeue", "give", "pop", "empty?", "drained?", "queue?"}
                     /\ ~Op(t, "stock") /\ ~Op(t, "push")

WorkShape(t) == \/ WorkPushGoes(t) \/ RequeueEnds(t) \/ GiveEnds(t)
                \/ WorkPopGoes(t) \/ WorkPopFails(t) \/ WorkPopEnds(t)
StockShape(t) == \/ RestockGoes(t) \/ RestockEnds(t) \/ BuildGoes(t) \/ BuildEnds(t)
                 \/ TakeGoes(t) \/ TakeFails(t) \/ TakeEnds(t)

\* A step of a thread is a step of a call on one ring, or of none.
LEMMA StepShape ==
  ASSUME ControlInv, NEW t \in Threads, Step(t)
  PROVE  WorkShape(t) \/ StockShape(t) \/ Asks(t) \/ CallFree(t)
<1> USE DEF Stay, Jump, NextOp, Places2
<1>1. CASE PopSlot(t)
  BY <1>1 DEF PopSlot, WorkShape, WorkPopGoes, WorkPopFails, WorkPopEnds
<1>2. CASE Restock(t)
  BY <1>2 DEF Restock, StockShape, RestockGoes, RestockEnds
<1>3. CASE Requeue(t)
  BY <1>3 DEF Requeue, WorkShape, WorkPushGoes, RequeueEnds
<1>4. CASE StockSlot(t)
  BY <1>4 DEF StockSlot, StockShape, BuildGoes, BuildEnds, slots
<1>5. CASE TakeSlot(t)
  BY <1>5 DEF TakeSlot, StockShape, TakeGoes, TakeFails, TakeEnds, Op
<1>6. CASE GiveSlot(t)
  BY <1>6 DEF GiveSlot, WorkShape, WorkPushGoes, GiveEnds
<1>7. CASE CheckEmpty(t) \/ CheckDrained(t) \/ WaitEmpty(t)
  <2>1. EmptyGoes(t) => UNCHANGED workRing
    BY DEF EmptyGoes, WQ!EmptyCall, WQ!EmptyTrue, WQ!EmptyFalse, WQ!ring, workRing
  <2>2. WQ!EmptyCall(t) => ~WQ!EmptyTrue(t) /\ ~WQ!EmptyFalse(t)
    BY DEF WQ!EmptyCall, WQ!EmptyTrue, WQ!EmptyFalse
  <2>3. QED BY <1>7, <2>1, <2>2 DEF CheckEmpty, CheckDrained, WaitEmpty, AskEmpty, Asks, EmptyGoes, slots
<1>8. CASE Quiet(t)
  <2>1. UNCHANGED <<workRing, stockRing, calls, Places2>>
    BY <1>8, QuietKeeps DEF slots
  <2>2. CASE Spurious(t)
    BY <2>1, <2>2 DEF CallFree, Spurious, jobs
  <2>3. ASSUME ~Spurious(t)
        PROVE  /\ pc[t] \notin {"restock", "requeue", "give", "pop", "empty?", "drained?", "queue?"}
               /\ ~Op(t, "stock") /\ ~Op(t, "push")
    BY <1>8, <2>3 DEF Quiet, Lock, CheckEnabled, Sleep, Wake, Unlock, CheckRunning, Enter, PassGate,
       MissGate, Finish, Leave, CheckLast, NotifyWait, AddCount, ExecuteAll, WaitLock, WaitCount, WaitSleep,
       WaitWake, WaitOver, StopFlag, StopNotify, Join, Op, ControlInv, TypeInv
  <2>4. QED BY <2>1, <2>2, <2>3 DEF CallFree
<1>9. QED BY <1>1, <1>2, <1>3, <1>4, <1>5, <1>6, <1>7, <1>8, StepCases

-----------------------------------------------------------------------------
(* The two rings while their claims are in step.                           *)

WSt == {t \in Threads : at[t] = "push_store" /\ pc[t] \in {"requeue", "give"}}
WRm == {t \in Threads : at[t] \in {"pop_load", "pop_clear"} /\ pc[t] = "pop"}
WLd == {t \in Threads : at[t] = "pop_clear" /\ pc[t] = "pop"}
SSt == {t \in Threads : at[t] = "push_store" /\ pc[t] \in {"restock", "ops"}}
SRm == {t \in Threads : at[t] \in {"pop_load", "pop_clear"} /\ pc[t] = "ops"}
SLd == {t \in Threads : at[t] = "pop_clear" /\ pc[t] = "ops"}
WorkOK == RingOK(workBuf, workStart, workEnd, WSt, WRm, WLd, idx, val)
StockOK == RingOK(stockBuf, stockStart, stockEnd, SSt, SRm, SLd, idx, val)

\* A call that is to succeed claims what its check has seen.
WorkClaims(t) == /\ WQ!PushClaim(t) /\ pc[t] \in {"requeue", "give"} =>
                      WQ!Succ(workEnd) # workStart /\ \A u \in WRm : idx[u] # workEnd
                 /\ WQ!PopClaim(t) /\ pc[t] = "pop" => workStart # workEnd
StockClaims(t) == /\ SQ!PushClaim(t) /\ pc[t] \in {"restock", "ops"} =>
                       WQ!Succ(stockEnd) # stockStart /\ \A u \in SRm : idx[u] # stockEnd
                  /\ SQ!PopClaim(t) /\ pc[t] = "ops" => stockStart # stockEnd

\* RingOK after a step, in terms of the members and locals after it.
LEMMA PrimedRings ==
  /\ WorkOK' <=> RingOK(workBuf', workStart', workEnd', WSt', WRm', WLd', idx', val')
  /\ StockOK' <=> RingOK(stockBuf', stockStart', stockEnd', SSt', SRm', SLd', idx', val')
<1>1. (WQ!Slots)' = WQ!Slots
  BY DEF WQ!Slots
<1>2. QED BY <1>1 DEF WorkOK, StockOK, RingOK, Window, Away

\* Between two calls no claim is held.
LEMMA FreeHolds ==
  ASSUME ControlInv, NEW t \in Threads, CallFree(t)
  PROVE  /\ at' = at /\ idx' = idx /\ val' = val
         /\ (pc' = pc /\ next' = next) \/ at[t] = "idle"
<1>1. at' = at /\ idx' = idx /\ val' = val
  BY DEF CallFree, calls
<1>2. ASSUME pc[t] \notin {"restock", "requeue", "give", "pop", "empty?", "drained?", "queue?"},
             ~Op(t, "stock"), ~Op(t, "push")
      PROVE  at[t] = "idle"
  BY <1>2 DEF ControlInv, TypeInv, CallInv, WQ!Labels
<1>3. QED BY <1>1, <1>2 DEF CallFree

\* workerQueue stays in order where no call on it claims, stores or removes ...
LEMMA WorkIdle ==
  ASSUME ControlInv, WorkOK, NEW t \in Threads, Step(t), UNCHANGED workRing,
         t \notin WSt, t \notin WRm, t \notin WSt', t \notin WRm'
  PROVE  WorkOK'
<1>1. \A u \in Threads \ {t} : at'[u] = at[u] /\ idx'[u] = idx[u] /\ val'[u] = val[u] /\ pc'[u] = pc[u]
  BY OthersStay
<1>2. WSt' = WSt /\ WRm' = WRm /\ WLd' = WLd
  BY <1>1 DEF WSt, WRm, WLd
<1>3. \A u \in WSt \cup WRm : idx'[u] = idx[u] /\ val'[u] = val[u]
  BY <1>1 DEF WSt, WRm
<1>4. WLd \subseteq WRm
  BY DEF WLd, WRm
<1>5. RingOK(workBuf, workStart, workEnd, WSt, WRm, WLd, idx', val')
  BY <1>3, <1>4, RingIdle DEF WorkOK
<1>6. QED BY <1>2, <1>5, PrimedRings DEF workRing

\* ... and over every step that claims what its check has seen.
LEMMA WorkRingStep ==
  ASSUME ControlInv, WorkOK, NEW t \in Threads, Step(t), WorkClaims(t)
  PROVE  WorkOK'
<1> USE DEF ControlInv, TypeInv, WQ!RingTypeOK
<1>1. \A u \in Threads \ {t} : at'[u] = at[u] /\ idx'[u] = idx[u] /\ val'[u] = val[u] /\ pc'[u] = pc[u]
  BY OthersStay
<1>2. idx[t] \in WQ!Slots /\ workStart \in WQ!Slots /\ workEnd \in WQ!Slots /\ Null \notin WorkerSlots
  BY SlotAssumption
<1>3. WLd \subseteq WRm /\ WSt \cap WRm = {} /\ \A u \in WSt \cup WRm : u \in Threads
  BY DEF WSt, WLd, WRm
<1>4. \A u \in WLd : val[u] \in WorkerSlots
  BY DEF WLd, CallInv
<1>5. CASE CallFree(t)
  <2>1. at' = at /\ idx' = idx /\ val' = val /\ UNCHANGED workRing
    BY <1>5, FreeHolds DEF CallFree
  <2>2. CASE pc' = pc
    <3>1. WSt' = WSt /\ WRm' = WRm /\ WLd' = WLd
      BY <2>1, <2>2 DEF WSt, WRm, WLd
    <3>2. QED BY <2>1, <3>1, PrimedRings DEF WorkOK, workRing
  <2>3. CASE at[t] = "idle"
    BY <2>1, <2>3, WorkIdle DEF WSt, WRm
  <2>4. QED BY <1>5, <2>2, <2>3, FreeHolds
<1>6. CASE Asks(t)
  BY <1>6, WorkIdle DEF Asks, EmptyGoes, WQ!EmptyCall, WQ!EmptyTrue, WQ!EmptyFalse, WQ!Goto, WQ!Return, WSt, WRm
<1>7. CASE StockShape(t)
  <2>1. t \notin WSt /\ t \notin WRm /\ UNCHANGED workRing
    BY <1>7 DEF StockShape, WSt, WRm, RestockGoes, RestockEnds, BuildGoes, BuildEnds, TakeGoes, TakeFails, TakeEnds, Op
  <2>2. pc' = pc \/ at'[t] = "idle"
    BY <1>7 DEF StockShape, RestockGoes, RestockEnds, BuildGoes, BuildEnds, TakeGoes, TakeFails, TakeEnds,
       StockPushed, StockNone, SQ!PushFull, SQ!PushStore, SQ!PopEmpty, SQ!PopLost, SQ!PopClear, SQ!Return, SQ!Goto
  <2>3. pc[t] \in {"restock", "ops"}
    BY <1>7 DEF StockShape, RestockGoes, RestockEnds, BuildGoes, BuildEnds, TakeGoes, TakeFails, TakeEnds, Op
  <2>4. t \notin WSt' /\ t \notin WRm'
    BY <2>2, <2>3 DEF WSt, WRm
  <2>5. QED BY <2>1, <2>4, WorkIdle
<1>8. ASSUME WorkPushGoes(t) \/ RequeueEnds(t) \/ GiveEnds(t) PROVE WorkOK'
  <2>1. pc[t] \in {"requeue", "give"}
    BY <1>8 DEF WorkPushGoes, RequeueEnds, GiveEnds
  <2>2. CASE WQ!PushClaim(t)
    <3>1. /\ at[t] = "push_cas" /\ idx[t] = workEnd /\ workEnd' = WQ!Succ(workEnd) /\ idx' = idx /\ val' = val
          /\ workBuf' = workBuf /\ workStart' = workStart /\ at' = [at EXCEPT ![t] = "push_store"]
      BY <2>2 DEF WQ!PushClaim, WQ!Goto
    <3>2. pc' = pc
      BY <1>8, <3>1 DEF WorkPushGoes, RequeueEnds, GiveEnds, WorkPushed, WQ!PushFull, WQ!PushStore
    <3>3. WSt' = WSt \cup {t} /\ WRm' = WRm /\ WLd' = WLd
      BY <2>1, <3>1, <3>2 DEF WSt, WRm, WLd
    <3>4. RingOK(workBuf, workStart, WQ!Succ(workEnd), WSt \cup {t}, WRm, WLd, idx, val)
      <4>1. WQ!Succ(workEnd) # workStart /\ \A u \in WRm : idx[u] # workEnd
        BY <2>1, <2>2 DEF WorkClaims
      <4>2. QED BY <1>2, <3>1, <4>1, RingClaim DEF WorkOK
    <3>5. QED BY <3>1, <3>3, <3>4, PrimedRings
  <2>3. CASE WQ!PushStore(t)
    <3>1. /\ at[t] = "push_store" /\ workBuf' = [workBuf EXCEPT ![idx[t]] = val[t]]
          /\ workStart' = workStart /\ workEnd' = workEnd /\ at'[t] = "idle"
      BY <2>3 DEF WQ!PushStore, WQ!Return, WQ!Goto
    <3>2. t \in WSt /\ val[t] \in WorkerSlots
      BY <2>1, <3>1 DEF WSt, CallInv, WQ!PushLabels
    <3>3. WSt' = WSt \ {t} /\ WRm' = WRm /\ WLd' = WLd
      BY <1>1, <3>1, <3>2 DEF WSt, WRm, WLd
    <3>4. \A u \in (WSt \cup WRm) \ {t} : idx'[u] = idx[u] /\ val'[u] = val[u]
      BY <1>1, <1>3
    <3>5. RingOK([workBuf EXCEPT ![idx[t]] = val[t]], workStart, workEnd, WSt \ {t}, WRm, WLd, idx', val')
      <4>1. t \notin WRm /\ \A u \in WLd : val[u] # Null
        BY <1>2, <1>3, <1>4, <3>2
      <4>2. RingOK(workBuf, workStart, workEnd, WSt, WRm, WLd, idx, val)
        BY DEF WorkOK
      <4>3. workBuf \in [WQ!Slots -> WorkerSlots \cup {Null}]
        OBVIOUS
      <4>4. QED BY <1>2, <1>3, <3>2, <3>4, <4>1, <4>2, <4>3, RingStore
    <3>6. QED BY <3>1, <3>3, <3>5, PrimedRings
  <2>4. CASE ~WQ!PushClaim(t) /\ ~WQ!PushStore(t)
    <3>1. UNCHANGED workRing /\ at[t] \notin {"push_store", "pop_load", "pop_clear"}
          /\ at'[t] \notin {"push_store", "pop_load", "pop_clear"}
      BY <1>8, <2>4 DEF WorkPushGoes, RequeueEnds, GiveEnds, WorkPushing, WorkPushed, WQ!PushCall, WQ!PushRoom,
         WQ!PushRetry, WQ!PushFull, WQ!Goto, WQ!Return, WQ!ring, workRing
    <3>2. QED BY <3>1, WorkIdle DEF WSt, WRm
  <2>5. QED BY <2>2, <2>3, <2>4
<1>9. ASSUME WorkPopGoes(t) \/ WorkPopFails(t) \/ WorkPopEnds(t) PROVE WorkOK'
  <2>1. pc[t] = "pop"
    BY <1>9 DEF WorkPopGoes, WorkPopFails, WorkPopEnds
  <2>2. CASE WQ!PopClaim(t)
    <3>1. /\ at[t] = "pop_cas" /\ idx[t] = workStart /\ workStart' = WQ!Succ(workStart) /\ idx' = idx /\ val' = val
          /\ workBuf' = workBuf /\ workEnd' = workEnd /\ at' = [at EXCEPT ![t] = "pop_load"]
      BY <2>2 DEF WQ!PopClaim, WQ!Goto
    <3>2. pc' = pc
      BY <1>9, <3>1 DEF WorkPopGoes, WorkPopFails, WorkPopEnds, WorkNone, WQ!PopEmpty, WQ!PopLost, WQ!PopClear,
         WQ!Return, WQ!Goto
    <3>3. WSt' = WSt /\ WRm' = WRm \cup {t} /\ WLd' = WLd
      BY <2>1, <3>1, <3>2 DEF WSt, WRm, WLd
    <3>4. RingOK(workBuf, WQ!Succ(workStart), workEnd, WSt, WRm \cup {t}, WLd, idx, val)
      <4>1. workStart # workEnd
        BY <2>1, <2>2 DEF WorkClaims
      <4>2. QED BY <1>2, <3>1, <4>1, RingTake DEF WorkOK
    <3>5. QED BY <3>1, <3>3, <3>4, PrimedRings
  <2>3. CASE WQ!PopLoad(t)
    <3>1. /\ at[t] = "pop_load" /\ val'[t] = workBuf[idx[t]] /\ idx' = idx /\ UNCHANGED workRing
          /\ at' = [at EXCEPT ![t] = "pop_clear"]
      BY <2>3 DEF WQ!PopLoad, WQ!Goto, WQ!ring, workRing
    <3>2. pc' = pc
      BY <1>9, <3>1 DEF WorkPopGoes, WorkPopFails, WorkPopEnds, WorkNone, WQ!PopEmpty, WQ!PopLost, WQ!PopClear
    <3>3. WSt' = WSt /\ WRm' = WRm /\ WLd' = WLd \cup {t} /\ t \notin WLd
      BY <2>1, <3>1, <3>2 DEF WSt, WRm, WLd
    <3>4. RingOK(workBuf, workStart, workEnd, WSt, WRm, WLd \cup {t}, idx, val')
      <4>1. \A u \in WLd : val'[u] = val[u]
        BY <1>1, <1>3, <3>3
      <4>2. QED BY <3>1, <3>3, <4>1, RingLoad DEF WorkOK
    <3>5. QED BY <3>1, <3>3, <3>4, PrimedRings DEF workRing
  <2>4. CASE WQ!PopClear(t)
    <3>1. /\ at[t] = "pop_clear" /\ workBuf' = [workBuf EXCEPT ![idx[t]] = Null]
          /\ workStart' = workStart /\ workEnd' = workEnd /\ at'[t] = "idle"
      BY <2>4 DEF WQ!PopClear, WQ!Return, WQ!Goto
    <3>2. t \in WLd /\ t \notin WSt /\ val[t] # Null
      BY <1>2, <1>4, <2>1, <3>1 DEF WLd, WSt
    <3>3. WSt' = WSt /\ WRm' = WRm \ {t} /\ WLd' = WLd \ {t}
      BY <1>1, <3>1, <3>2 DEF WSt, WRm, WLd
    <3>4. \A u \in (WSt \cup WRm) \ {t} : idx'[u] = idx[u] /\ val'[u] = val[u]
      BY <1>1, <1>3
    <3>5. RingOK([workBuf EXCEPT ![idx[t]] = Null], workStart, workEnd, WSt, WRm \ {t}, WLd \ {t}, idx', val')
      <4>1. RingOK(workBuf, workStart, workEnd, WSt, WRm, WLd, idx, val)
        BY DEF WorkOK
      <4>2. workBuf \in [WQ!Slots -> WorkerSlots \cup {Null}]
        OBVIOUS
      <4>3. QED BY <1>2, <1>3, <3>2, <3>4, <4>1, <4>2, RingClear
    <3>6. QED BY <3>1, <3>3, <3>5, PrimedRings
  <2>5. CASE ~WQ!PopClaim(t) /\ ~WQ!PopLoad(t) /\ ~WQ!PopClear(t)
    <3>1. UNCHANGED workRing /\ at[t] \notin {"push_store", "pop_load", "pop_clear"}
          /\ at'[t] \notin {"push_store", "pop_load", "pop_clear"}
      BY <1>9, <2>5 DEF WorkPopGoes, WorkPopFails, WorkPopEnds, WorkPopping, WorkNone, WQ!PopCall, WQ!PopSome,
         WQ!PopEmpty, WQ!PopLost, WQ!Goto, WQ!Return, WQ!ring, workRing
    <3>2. QED BY <3>1, WorkIdle DEF WSt, WRm
  <2>6. QED BY <2>2, <2>3, <2>4, <2>5
<1>10. QED BY <1>5, <1>6, <1>7, <1>8, <1>9, StepShape DEF WorkShape

\* The same for stockQueue.
LEMMA StockIdle ==
  ASSUME ControlInv, StockOK, NEW t \in Threads, Step(t), UNCHANGED stockRing,
         t \notin SSt, t \notin SRm, t \notin SSt', t \notin SRm'
  PROVE  StockOK'
<1>1. \A u \in Threads \ {t} : at'[u] = at[u] /\ idx'[u] = idx[u] /\ val'[u] = val[u] /\ pc'[u] = pc[u]
  BY OthersStay
<1>2. SSt' = SSt /\ SRm' = SRm /\ SLd' = SLd
  BY <1>1 DEF SSt, SRm, SLd
<1>3. \A u \in SSt \cup SRm : idx'[u] = idx[u] /\ val'[u] = val[u]
  BY <1>1 DEF SSt, SRm
<1>4. SLd \subseteq SRm
  BY DEF SLd, SRm
<1>5. RingOK(stockBuf, stockStart, stockEnd, SSt, SRm, SLd, idx', val')
  BY <1>3, <1>4, RingIdle DEF StockOK
<1>6. QED BY <1>2, <1>5, PrimedRings DEF stockRing

\* The same for stockQueue, over every step.
LEMMA StockRingStep ==
  ASSUME ControlInv, StockOK, NEW t \in Threads, Step(t), StockClaims(t)
  PROVE  StockOK'
<1> USE DEF ControlInv, TypeInv, WQ!RingTypeOK
<1>1. \A u \in Threads \ {t} : at'[u] = at[u] /\ idx'[u] = idx[u] /\ val'[u] = val[u] /\ pc'[u] = pc[u]
  BY OthersStay
<1>2. idx[t] \in WQ!Slots /\ stockStart \in WQ!Slots /\ stockEnd \in WQ!Slots /\ Null \notin WorkerSlots
  BY SlotAssumption, SameSlots DEF SQ!RingTypeOK
<1>3. SLd \subseteq SRm /\ SSt \cap SRm = {} /\ \A u \in SSt \cup SRm : u \in Threads
  BY DEF SSt, SLd, SRm
<1>4. \A u \in SLd : val[u] \in WorkerSlots
  BY DEF SLd, CallInv
<1>5. CASE CallFree(t)
  <2>1. at' = at /\ idx' = idx /\ val' = val /\ UNCHANGED stockRing
    BY <1>5, FreeHolds DEF CallFree
  <2>2. CASE pc' = pc
    <3>1. SSt' = SSt /\ SRm' = SRm /\ SLd' = SLd
      BY <2>1, <2>2 DEF SSt, SRm, SLd
    <3>2. QED BY <2>1, <3>1, PrimedRings DEF StockOK, stockRing
  <2>3. CASE at[t] = "idle"
    BY <2>1, <2>3, StockIdle DEF SSt, SRm
  <2>4. QED BY <1>5, <2>2, <2>3, FreeHolds
<1>6. CASE Asks(t)
  BY <1>6, StockIdle DEF Asks, EmptyGoes, WQ!EmptyCall, WQ!EmptyTrue, WQ!EmptyFalse, WQ!Goto, WQ!Return, SSt, SRm
<1>7. CASE WorkShape(t)
  <2>1. t \notin SSt /\ t \notin SRm /\ UNCHANGED stockRing
    BY <1>7 DEF WorkShape, SSt, SRm, WorkPushGoes, RequeueEnds, GiveEnds, WorkPopGoes, WorkPopFails, WorkPopEnds
  <2>2. pc' = pc \/ at'[t] = "idle"
    BY <1>7 DEF WorkShape, WorkPushGoes, RequeueEnds, GiveEnds, WorkPopGoes, WorkPopFails, WorkPopEnds,
       WorkPushed, WorkNone, WQ!PushFull, WQ!PushStore, WQ!PopEmpty, WQ!PopLost, WQ!PopClear, WQ!Return, WQ!Goto
  <2>3. pc[t] \in {"requeue", "give", "pop"}
    BY <1>7 DEF WorkShape, WorkPushGoes, RequeueEnds, GiveEnds, WorkPopGoes, WorkPopFails, WorkPopEnds
  <2>4. t \notin SSt' /\ t \notin SRm'
    BY <2>2, <2>3 DEF SSt, SRm
  <2>5. QED BY <2>1, <2>4, StockIdle
<1>8. ASSUME RestockGoes(t) \/ RestockEnds(t) \/ BuildGoes(t) \/ BuildEnds(t) PROVE StockOK'
  <2>1. pc[t] \in {"restock", "ops"}
    BY <1>8 DEF RestockGoes, RestockEnds, BuildGoes, BuildEnds, Op
  <2>2. CASE SQ!PushClaim(t)
    <3>1. /\ at[t] = "push_cas" /\ idx[t] = stockEnd /\ stockEnd' = WQ!Succ(stockEnd) /\ idx' = idx /\ val' = val
          /\ stockBuf' = stockBuf /\ stockStart' = stockStart /\ at' = [at EXCEPT ![t] = "push_store"]
      BY <2>2, SameSlots DEF SQ!PushClaim, SQ!Goto
    <3>2. pc' = pc
      BY <1>8, <3>1 DEF RestockGoes, RestockEnds, BuildGoes, BuildEnds, Op, StockPushed, SQ!PushFull, SQ!PushStore
    <3>3. SSt' = SSt \cup {t} /\ SRm' = SRm /\ SLd' = SLd
      BY <2>1, <3>1, <3>2 DEF SSt, SRm, SLd
    <3>4. RingOK(stockBuf, stockStart, WQ!Succ(stockEnd), SSt \cup {t}, SRm, SLd, idx, val)
      <4>1. WQ!Succ(stockEnd) # stockStart /\ \A u \in SRm : idx[u] # stockEnd
        BY <2>1, <2>2 DEF StockClaims
      <4>2. QED BY <1>2, <3>1, <4>1, RingClaim DEF StockOK
    <3>5. QED BY <3>1, <3>3, <3>4, PrimedRings
  <2>3. CASE SQ!PushStore(t)
    <3>1. /\ at[t] = "push_store" /\ stockBuf' = [stockBuf EXCEPT ![idx[t]] = val[t]]
          /\ stockStart' = stockStart /\ stockEnd' = stockEnd /\ at'[t] = "idle"
      BY <2>3 DEF SQ!PushStore, SQ!Return, SQ!Goto
    <3>2. t \in SSt /\ val[t] \in WorkerSlots
      BY <2>1, <3>1 DEF SSt, CallInv, WQ!PushLabels
    <3>3. SSt' = SSt \ {t} /\ SRm' = SRm /\ SLd' = SLd
      BY <1>1, <3>1, <3>2 DEF SSt, SRm, SLd
    <3>4. \A u \in (SSt \cup SRm) \ {t} : idx'[u] = idx[u] /\ val'[u] = val[u]
      BY <1>1, <1>3
    <3>5. RingOK([stockBuf EXCEPT ![idx[t]] = val[t]], stockStart, stockEnd, SSt \ {t}, SRm, SLd, idx', val')
      <4>1. t \notin SRm /\ \A u \in SLd : val[u] # Null
        BY <1>2, <1>3, <1>4, <3>2
      <4>2. RingOK(stockBuf, stockStart, stockEnd, SSt, SRm, SLd, idx, val)
        BY DEF StockOK
      <4>3. stockBuf \in [WQ!Slots -> WorkerSlots \cup {Null}]
        BY SameSlots DEF SQ!RingTypeOK
      <4>4. QED BY <1>2, <1>3, <3>2, <3>4, <4>1, <4>2, <4>3, RingStore
    <3>6. QED BY <3>1, <3>3, <3>5, PrimedRings
  <2>4. CASE ~SQ!PushClaim(t) /\ ~SQ!PushStore(t)
    <3>1. UNCHANGED stockRing /\ at[t] \notin {"push_store", "pop_load", "pop_clear"}
          /\ at'[t] \notin {"push_store", "pop_load", "pop_clear"}
      BY <1>8, <2>4 DEF RestockGoes, RestockEnds, BuildGoes, BuildEnds, Op, StockPushing, StockPushed, SQ!PushCall, SQ!PushRoom,
         SQ!PushRetry, SQ!PushFull, SQ!Goto, SQ!Return, SQ!ring, stockRing
    <3>2. QED BY <3>1, StockIdle DEF SSt, SRm
  <2>5. QED BY <2>2, <2>3, <2>4
<1>9. ASSUME TakeGoes(t) \/ TakeFails(t) \/ TakeEnds(t) PROVE StockOK'
  <2>1. pc[t] = "ops"
    BY <1>9 DEF TakeGoes, TakeFails, TakeEnds, Op
  <2>2. CASE SQ!PopClaim(t)
    <3>1. /\ at[t] = "pop_cas" /\ idx[t] = stockStart /\ stockStart' = WQ!Succ(stockStart) /\ idx' = idx /\ val' = val
          /\ stockBuf' = stockBuf /\ stockEnd' = stockEnd /\ at' = [at EXCEPT ![t] = "pop_load"]
      BY <2>2, SameSlots DEF SQ!PopClaim, SQ!Goto
    <3>2. pc' = pc
      BY <1>9, <3>1 DEF TakeGoes, TakeFails, TakeEnds, Op, StockNone, SQ!PopEmpty, SQ!PopLost, SQ!PopClear,
         SQ!Return, SQ!Goto
    <3>3. SSt' = SSt /\ SRm' = SRm \cup {t} /\ SLd' = SLd
      BY <2>1, <3>1, <3>2 DEF SSt, SRm, SLd
    <3>4. RingOK(stockBuf, WQ!Succ(stockStart), stockEnd, SSt, SRm \cup {t}, SLd, idx, val)
      <4>1. stockStart # stockEnd
        BY <2>1, <2>2 DEF StockClaims
      <4>2. QED BY <1>2, <3>1, <4>1, RingTake DEF StockOK
    <3>5. QED BY <3>1, <3>3, <3>4, PrimedRings
  <2>3. CASE SQ!PopLoad(t)
    <3>1. /\ at[t] = "pop_load" /\ val'[t] = stockBuf[idx[t]] /\ idx' = idx /\ UNCHANGED stockRing
          /\ at' = [at EXCEPT ![t] = "pop_clear"]
      BY <2>3 DEF SQ!PopLoad, SQ!Goto, SQ!ring, stockRing
    <3>2. pc' = pc
      BY <1>9, <3>1 DEF TakeGoes, TakeFails, TakeEnds, Op, StockNone, SQ!PopEmpty, SQ!PopLost, SQ!PopClear
    <3>3. SSt' = SSt /\ SRm' = SRm /\ SLd' = SLd \cup {t} /\ t \notin SLd
      BY <2>1, <3>1, <3>2 DEF SSt, SRm, SLd
    <3>4. RingOK(stockBuf, stockStart, stockEnd, SSt, SRm, SLd \cup {t}, idx, val')
      <4>1. \A u \in SLd : val'[u] = val[u]
        BY <1>1, <1>3, <3>3
      <4>2. QED BY <3>1, <3>3, <4>1, RingLoad DEF StockOK
    <3>5. QED BY <3>1, <3>3, <3>4, PrimedRings DEF stockRing
  <2>4. CASE SQ!PopClear(t)
    <3>1. /\ at[t] = "pop_clear" /\ stockBuf' = [stockBuf EXCEPT ![idx[t]] = Null]
          /\ stockStart' = stockStart /\ stockEnd' = stockEnd /\ at'[t] = "idle"
      BY <2>4 DEF SQ!PopClear, SQ!Return, SQ!Goto
    <3>2. t \in SLd /\ t \notin SSt /\ val[t] # Null
      BY <1>2, <1>4, <2>1, <3>1 DEF SLd, SSt
    <3>3. SSt' = SSt /\ SRm' = SRm \ {t} /\ SLd' = SLd \ {t}
      BY <1>1, <3>1, <3>2 DEF SSt, SRm, SLd
    <3>4. \A u \in (SSt \cup SRm) \ {t} : idx'[u] = idx[u] /\ val'[u] = val[u]
      BY <1>1, <1>3
    <3>5. RingOK([stockBuf EXCEPT ![idx[t]] = Null], stockStart, stockEnd, SSt, SRm \ {t}, SLd \ {t}, idx', val')
      <4>1. RingOK(stockBuf, stockStart, stockEnd, SSt, SRm, SLd, idx, val)
        BY DEF StockOK
      <4>2. stockBuf \in [WQ!Slots -> WorkerSlots \cup {Null}]
        BY SameSlots DEF SQ!RingTypeOK
      <4>3. QED BY <1>2, <1>3, <3>2, <3>4, <4>1, <4>2, RingClear
    <3>6. QED BY <3>1, <3>3, <3>5, PrimedRings
  <2>5. CASE ~SQ!PopClaim(t) /\ ~SQ!PopLoad(t) /\ ~SQ!PopClear(t)
    <3>1. UNCHANGED stockRing /\ at[t] \notin {"push_store", "pop_load", "pop_clear"}
          /\ at'[t] \notin {"push_store", "pop_load", "pop_clear"}
      BY <1>9, <2>5 DEF TakeGoes, TakeFails, TakeEnds, Op, StockPopping, StockNone, SQ!PopCall, SQ!PopSome,
         SQ!PopEmpty, SQ!PopLost, SQ!Goto, SQ!Return, SQ!ring, stockRing
    <3>2. QED BY <3>1, StockIdle DEF SSt, SRm
  <2>6. QED BY <2>2, <2>3, <2>4, <2>5
<1>10. QED BY <1>5, <1>6, <1>7, <1>8, <1>9, StepShape DEF StockShape

-----------------------------------------------------------------------------
(* Whose a slot is.                                                        *)

Pushes(ops) == {k \in DOMAIN ops : ops[k].op = "push"}
Pushers == {j \in Jobs : Pushes(Body[j]) # {}}
Client == Construct \o Script

\* The programs in which no call of a ring is overtaken by a whole lap: jobs that push
\* come last, so that one thread at a time is inside push(), and either there is one
\* worker, or jobs neither push nor wait and the client pushes fewer than NbWorker times.
PushersLast == \A k, l \in Pushes(Client) : Client[k].job \in Pushers => l <= k
OneWorker == \A v, w \in Crew : v = w
FewPushes == Pushers = {} /\ NobodyWaits /\ Cardinality(Pushes(Client)) < NbWorker
Calm == PushersLast /\ (OneWorker \/ FewPushes)

\* Slot s is at place i of a ring, with thread i, or still to be stocked.
Has(k, i, s) == \/ k = "work" /\ i \in WQ!Slots /\ workBuf[i] = s
                \/ k = "stock" /\ i \in WQ!Slots /\ stockBuf[i] = s
                \/ k = "running" /\ i \in Threads /\ running[i] = s
                \/ k = "hand" /\ i \in Threads /\ hand[i] = s
                \/ k = "new" /\ i = s /\ s >= next[Main]
Kinds == {"work", "stock", "running", "hand", "new"}
Spots == WQ!Slots \cup Threads \cup WorkerSlots

\* The slots that fit into stockQueue are in one place each, and no job waiting, in one
\* at least; the last slot never leaves the constructor.
OneSpot == \A s \in Fit : \A k, l \in Kinds : \A i, j \in Spots : Has(k, i, s) /\ Has(l, j, s) => k = l /\ i = j
LastOut == \A k \in Kinds \ {"new"} : \A i \in Spots : ~Has(k, i, NbWorker)
Kept == NobodyWaits => \A s \in Fit : \E k \in Kinds : \E i \in Spots : Has(k, i, s)

\* What a push under way pushes.
Holding(t) == IF pc[t] \in {"restock", "requeue"} THEN "running" ELSE IF pc[t] = "give" THEN "hand" ELSE "new"
Holder(t) == IF Holding(t) = "new" THEN next[Main] ELSE t
ValInv == \A t \in Threads : at[t] \in WQ!PushLabels =>
            val[t] = IF pc[t] \in {"restock", "requeue"} THEN running[t]
                     ELSE IF pc[t] = "give" THEN hand[t] ELSE next[Main]

\* There are no other threads than the crew's.
CrewInv == \A w \in Workers \ Crew : pc[w] = "done"

\* While the constructor stocks the slots nothing else moves.
BuildInv == next[Main] <= NbWorker =>
   /\ pc[Main] = "ops"
   /\ \A t \in Threads : running[t] = Null /\ hand[t] = Null
   /\ \A t \in Threads : pc[t] = "pop" => at[t] = "idle" \/ (at[t] = "pop_check" /\ idx[t] = 0)
   /\ workStart = 0 /\ workEnd = 0 /\ stockStart = 0
   /\ at[Main] \in {"idle"} \cup WQ!PushLabels
   /\ at[Main] \in WQ!PushLabels => idx[Main] = next[Main] - 1
   /\ at[Main] \in {"push_cas", "push_store"} => next[Main] < NbWorker
   /\ stockEnd = IF at[Main] = "push_store" THEN next[Main] ELSE next[Main] - 1

\* Where a job that pushes has been pushed the client pushes no more.
NoneFrom == \A k \in Pushes(Client) : k < next[Main]
PusherInv == /\ \A s \in WorkerSlots : slotJob[s] \in Pushers =>
                  IF hand[Main] = s THEN \A k \in Pushes(Client) : k <= next[Main] ELSE NoneFrom
             /\ \A w \in Workers : doing[w] \in Pushers => NoneFrom
Pulling(t) == Op(t, "push") \/ pc[t] = "give"

\* The one thread inside push() is the only one that pops from stockQueue ...
StockPopInv == \A t \in Threads : pc[t] = "ops" =>
   /\ at[t] \in {"pop_check", "pop_cas"} => idx[t] = stockStart
   /\ at[t] = "pop_cas" => stockStart # stockEnd
   /\ t \in SRm => WQ!Succ(idx[t]) = stockStart
\* ... and, no job waiting, that pushes to workerQueue;
GivePushInv == NobodyWaits => \A t \in Threads :
   /\ pc[t] # "requeue"
   /\ pc[t] = "give" /\ at[t] \in {"push_check", "push_cas"} => idx[t] = workEnd
\* the one worker is the only one that pops from workerQueue and pushes to stockQueue.
WorkPopInv == OneWorker => \A t \in Threads : pc[t] = "pop" =>
   /\ at[t] \in {"pop_check", "pop_cas"} => idx[t] = workStart
   /\ at[t] = "pop_cas" => workStart # workEnd
   /\ t \in WRm => WQ!Succ(idx[t]) = workStart
RestockOne == OneWorker => \A t \in Threads :
   pc[t] = "restock" /\ at[t] \in {"push_check", "push_cas"} => idx[t] = stockEnd

\* Where the client pushes less than NbWorker times, workerQueue never wraps and
\* stockQueue is pushed to for one lap after the constructor.
ToGive == {k \in Pushes(Client) : k > next[Main] \/ (k = next[Main] /\ ~(pc[Main] = "give" /\ at[Main] = "push_store"))}
ToTake == {k \in Pushes(Client) : k > next[Main] \/ (k = next[Main] /\ pc[Main] = "ops" /\ at[Main] \notin {"pop_load", "pop_clear"})}
WorkLap == FewPushes =>
   /\ workStart <= workEnd /\ workEnd + Cardinality(ToGive) < NbWorker
   /\ \A t \in Threads : pc[t] = "pop" =>
      /\ at[t] = "pop_check" => idx[t] <= workEnd
      /\ at[t] = "pop_cas" => idx[t] < workEnd
      /\ t \in WRm => idx[t] < workStart
StockLap == FewPushes =>
   /\ stockStart + Cardinality(ToTake) < NbWorker
   /\ next[Main] > NbWorker => stockEnd = NbWorker - 1 \/ stockEnd + 1 <= stockStart
   /\ \A t \in Threads : pc[t] = "restock" /\ at[t] \in {"push_check", "push_cas"} =>
        idx[t] = NbWorker - 1 \/ (idx[t] <= stockEnd /\ stockEnd # NbWorker - 1)

-----------------------------------------------------------------------------
(* The client's operations. *)

\* The client stocks the slots first; pushes come after.
LEMMA ClientFacts ==
  ASSUME TypeInv
  PROVE  /\ DOMAIN Client = 1 .. Len(Client) /\ Len(Client) \in Nat
         /\ \A k \in 1 .. NbWorker : k \in DOMAIN Client /\ Client[k] = Stock(k)
         /\ \A k \in DOMAIN Client : Client[k].op = "stock" <=> k <= NbWorker
         /\ IsFiniteSet(Pushes(Client))
         /\ \A k \in Pushes(Client) : k \in Nat /\ k > NbWorker
<1>1. Script \in Seq(ClientOps)
  BY ProgramsAssumption DEF TypeInv, Script
<1>2. \A s \in 1 .. NbWorker : Stock(s) \in StockOps
  BY DEF Stock, WorkerSlots, StockOps
<1>3. Construct \in Seq(StockOps) /\ Len(Construct) = NbWorker
  BY <1>2, SlotAssumption, IsASeq DEF Construct, WorkerSlots
<1>4. Construct \in Seq(StockOps \cup ClientOps) /\ Script \in Seq(StockOps \cup ClientOps)
  BY <1>1, <1>3
<1> PICK n, m : n = NbWorker /\ m = Len(Script)
  OBVIOUS
<1>5. n \in Nat /\ m \in Nat
  BY <1>1, SlotAssumption, LenProperties
<1>6. /\ Client \in Seq(StockOps \cup ClientOps) /\ Len(Client) = n + m
      /\ \A k \in 1 .. n + m : Client[k] = IF k <= n THEN Construct[k] ELSE Script[k - n]
  BY <1>3, <1>4, ConcatProperties DEF Client
<1>7. DOMAIN Client = 1 .. n + m
  BY <1>6, LenProperties
<1>8. \A k \in 1 .. n : k \in DOMAIN Client /\ Client[k] = Stock(k)
  BY <1>5, <1>6, <1>7 DEF Construct, WorkerSlots
<1>9. \A k \in DOMAIN Client : k > n => Client[k].op # "stock"
  <2> SUFFICES ASSUME NEW k \in 1 .. n + m, k > n PROVE Client[k].op # "stock"
    BY <1>7
  <2>1. k - n \in 1 .. m
    BY <1>5
  <2>2. Client[k] = Script[k - n] /\ Script[k - n] \in ClientOps
    BY <1>1, <1>5, <1>6, <2>1, ElementOfSeq
  <2>3. \A o \in ClientOps : o.op # "stock"
    BY DEF ClientOps, JobOps, Execute, Wait, Stop
  <2>4. QED BY <2>2, <2>3
<1>10. \A k \in 1 .. n : Client[k].op = "stock"
  <2>1. \A k : Stock(k).op = "stock"
    BY DEF Stock
  <2>2. QED BY <1>8, <2>1
<1>11. \A k \in Pushes(Client) : k \in 1 .. n + m /\ k > n
  BY <1>5, <1>7, <1>10 DEF Pushes
<1>12. IsFiniteSet(Pushes(Client))
  <2>1. IsFiniteSet(1 .. n + m)
    BY <1>5, FS_Interval
  <2>2. QED BY <1>11, <2>1, FS_Subset
<1>13. \A k \in DOMAIN Client : Client[k].op = "stock" <=> k <= n
  BY <1>5, <1>7, <1>9, <1>10
<1>14. QED BY <1>5, <1>6, <1>7, <1>8, <1>11, <1>12, <1>13

\* Where the client is in them.
LEMMA ClientAt ==
  ASSUME ControlInv, BuildInv
  PROVE  /\ \A t \in Threads : Op(t, "stock") => t = Main
         /\ Op(Main, "stock") <=> next[Main] <= NbWorker
         /\ next[Main] <= NbWorker => Arg(Main).slot = next[Main] /\ next[Main] \in WorkerSlots
         /\ Op(Main, "push") <=> pc[Main] = "ops" /\ next[Main] \in Pushes(Client)
         /\ pc[Main] = "give" => next[Main] \in Pushes(Client)
         /\ next[Main] \in Pushes(Client) => Arg(Main).job = Client[next[Main]].job
<1>1. Ops(Main) = Client /\ next[Main] \in Nat \ {0} /\ Main \in Threads /\ NbWorker \in Nat
  BY SlotAssumption DEF Ops, Client, ControlInv, TypeInv, Threads
<1>2. \A t \in Threads : Op(t, "stock") => t = Main
  BY OnlyClient DEF ControlInv
<1>3. next[Main] \in DOMAIN Client <=> next[Main] <= Len(Client)
  BY <1>1, ClientFacts DEF ControlInv
<1>4. next[Main] <= NbWorker => next[Main] \in DOMAIN Client /\ pc[Main] = "ops" /\ Client[next[Main]] = Stock(next[Main])
  BY <1>1, ClientFacts DEF ControlInv, BuildInv
<1>5. Op(Main, "stock") <=> next[Main] <= NbWorker
  BY <1>1, <1>3, <1>4, ClientFacts DEF Op, ControlInv
<1>6. next[Main] <= NbWorker => Arg(Main).slot = next[Main] /\ next[Main] \in WorkerSlots
  BY <1>1, <1>4 DEF Arg, Stock, WorkerSlots
<1>7. Op(Main, "push") <=> pc[Main] = "ops" /\ next[Main] \in Pushes(Client)
  BY <1>1, <1>3 DEF Op, Pushes
<1>8. pc[Main] = "give" => next[Main] \in Pushes(Client)
  BY <1>1, <1>3 DEF ControlInv, PushInv, Arg, Pushes
<1>9. Arg(Main) = Client[next[Main]]
  BY <1>1 DEF Arg
<1>10. QED BY <1>2, <1>5, <1>6, <1>7, <1>8, <1>9

\* A program is what it is.
LEMMA SameProgram ==
  ASSUME NEW t, Step(t)
  PROVE  /\ Client' = Client /\ Pushes(Client)' = Pushes(Client) /\ Pushers' = Pushers /\ Crew' = Crew
         /\ (NobodyWaits' <=> NobodyWaits) /\ (OneWorker' <=> OneWorker) /\ (FewPushes' <=> FewPushes)
         /\ (Calm' <=> Calm)
<1>1. program' = program
  BY StepCases
<1>2. Client' = Client /\ Crew' = Crew
  BY <1>1 DEF Client, Crew, Script, Construct, WorkerSlots, Stock
<1>3. Pushes(Client)' = Pushes(Client)
  BY <1>2 DEF Pushes
<1>4. Pushers' = Pushers
  BY <1>1 DEF Pushers, Pushes, Body
<1>5. (NobodyWaits' <=> NobodyWaits) /\ (OneWorker' <=> OneWorker)
  BY <1>1, <1>2 DEF NobodyWaits, OneWorker, Gate
<1>6. (FewPushes' <=> FewPushes) /\ (PushersLast' <=> PushersLast)
  BY <1>2, <1>3, <1>4, <1>5 DEF FewPushes, PushersLast
<1>7. QED BY <1>2, <1>3, <1>4, <1>5, <1>6 DEF Calm

\* The client's operations follow each other.
LEMMA ClientGoesOn ==
  ASSUME ControlInv, NEW t \in Threads, Step(t)
  PROVE  /\ next'[Main] \in Nat
         /\ \/ next'[Main] = next[Main] + 1 /\ pc'[Main] # "give"
            \/ next'[Main] = next[Main] /\ (pc'[Main] = "ops" => pc[Main] = "ops")
         /\ pc'[Main] = "give" => pc[Main] = "give" \/ (t = Main /\ TakeEnds(t))
<1> USE DEF ControlInv, TypeInv
<1>0. next[Main] \in Nat /\ Main \in Threads
  BY DEF Threads
<1>1. CASE t # Main
  BY <1>0, <1>1, OthersStay
<1>2. CASE t = Main
  <2> USE DEF Jump, Stay, NextOp
  <2>1. CASE WorkShape(t) \/ StockShape(t)
    <3>1. /\ (next'[t] = next[t] + 1 /\ pc'[t] # "give") \/ (next' = next /\ (pc'[t] = "ops" => pc[t] = "ops"))
          /\ pc'[t] = "give" => pc[t] = "give" \/ TakeEnds(t)
      <4>1. CASE WorkPushGoes(t) \/ RestockGoes(t) \/ BuildGoes(t) \/ TakeGoes(t) \/ WorkPopGoes(t)
        BY <4>1 DEF WorkPushGoes, RestockGoes, BuildGoes, TakeGoes, WorkPopGoes
      <4>2. CASE RequeueEnds(t) \/ WorkPopFails(t) \/ WorkPopEnds(t) \/ RestockEnds(t) \/ TakeEnds(t)
        BY <4>2 DEF RequeueEnds, WorkPopFails, WorkPopEnds, RestockEnds, TakeEnds
      <4>3. CASE GiveEnds(t) \/ BuildEnds(t) \/ TakeFails(t)
        BY <4>3 DEF GiveEnds, BuildEnds, TakeFails
      <4>4. QED BY <2>1, <4>1, <4>2, <4>3 DEF WorkShape, StockShape
    <3>2. QED BY <1>0, <1>2, <3>1
  <2>2. CASE CheckEmpty(t) \/ CheckDrained(t) \/ WaitEmpty(t)
    BY <1>0, <1>2, <2>2 DEF CheckEmpty, CheckDrained, WaitEmpty, AskEmpty
  <2>3. CASE Quiet(t)
    <3>1. ~PassGate(t)
      BY <1>2 DEF PassGate, PartsInv, ClientLabels
    <3>2. /\ (next'[t] = next[t] + 1 /\ pc'[t] # "give") \/ (next' = next /\ (pc'[t] = "ops" => pc[t] = "ops"))
          /\ pc'[t] = "give" => pc[t] = "give"
      <4>1. CASE AddCount(t) \/ ExecuteAll(t) \/ WaitOver(t) \/ Join(t)
        BY <4>1 DEF AddCount, ExecuteAll, WaitOver, Join
      <4>2. CASE ~AddCount(t) /\ ~ExecuteAll(t) /\ ~WaitOver(t) /\ ~Join(t)
        BY <2>3, <3>1, <4>2 DEF Quiet, Lock, CheckEnabled, Sleep, Wake, Unlock, CheckRunning, Enter,
         MissGate, Finish, Leave, CheckLast, NotifyWait, WaitLock, WaitCount, WaitSleep,
         WaitWake, StopFlag, StopNotify, Spurious
      <4>3. QED BY <4>1, <4>2
    <3>3. QED BY <1>0, <1>2, <3>2
  <2>4. CASE PopSlot(t) \/ Restock(t) \/ Requeue(t) \/ StockSlot(t) \/ TakeSlot(t) \/ GiveSlot(t)
    <3>1. WorkShape(t) \/ StockShape(t)
      <4>1. CASE PopSlot(t)
        BY <4>1 DEF PopSlot, WorkShape, WorkPopGoes, WorkPopFails, WorkPopEnds, Places2
      <4>2. CASE Restock(t)
        BY <4>2 DEF Restock, StockShape, RestockGoes, RestockEnds, Places2
      <4>3. CASE Requeue(t)
        BY <4>3 DEF Requeue, WorkShape, WorkPushGoes, RequeueEnds, Places2
      <4>4. CASE StockSlot(t)
        BY <4>4 DEF StockSlot, StockShape, BuildGoes, BuildEnds, slots, Places2
      <4>5. CASE TakeSlot(t)
        BY <4>5 DEF TakeSlot, StockShape, TakeGoes, TakeFails, TakeEnds, Op, Places2
      <4>6. CASE GiveSlot(t)
        BY <4>6 DEF GiveSlot, WorkShape, WorkPushGoes, GiveEnds, Places2
      <4>7. QED BY <2>4, <4>1, <4>2, <4>3, <4>4, <4>5, <4>6
    <3>2. QED BY <2>1, <3>1
  <2>5. QED BY <2>2, <2>3, <2>4, StepCases
<1>3. QED BY <1>1, <1>2

\* No worker calls a ring before the constructor is through.
LEMMA BuildAlone ==
  ASSUME ControlInv, BuildInv, next[Main] <= NbWorker
  PROVE  /\ \A w \in Workers : pc[w] \notin {"gate", "ops", "give", "requeue", "restock"} /\ doing[w] = Null
         /\ \A t \in Threads : at[t] \in WQ!PopLabels => pc[t] = "pop" /\ at[t] = "pop_check"
         /\ \A t \in Threads : at[t] \in WQ!PushLabels => t = Main
<1> USE DEF ControlInv, HandInv
<1>1. \A w \in Workers : w \in Threads /\ w # Main
  BY MainAssumption DEF Threads
<1>2. \A w \in Workers : pc[w] \notin {"gate", "ops", "give", "requeue", "restock"} /\ doing[w] = Null
  BY <1>1 DEF BuildInv
<1>3. Op(Main, "stock")
  BY ClientAt
<1>4. ASSUME NEW t \in Threads, at[t] \in WQ!PopLabels PROVE pc[t] = "pop" /\ at[t] = "pop_check"
  <2>1. pc[t] = "pop" \/ Op(t, "push")
    BY <1>4 DEF CallInv
  <2>2. ~Op(t, "push")
    BY <1>2, <1>3 DEF Op, Threads
  <2>3. QED BY <1>4, <2>1, <2>2 DEF BuildInv, WQ!PopLabels
<1>5. ASSUME NEW t \in Threads, at[t] \in WQ!PushLabels PROVE t = Main
  <2>1. pc[t] \in {"restock", "requeue", "give"} \/ Op(t, "stock")
    BY <1>5 DEF CallInv
  <2>2. QED BY <1>2, <2>1, ClientAt DEF Threads
<1>6. QED BY <1>2, <1>4, <1>5

\* A thread that was not made never runs.
LEMMA CrewStep ==
  ASSUME ControlInv, CrewInv, NEW t \in Threads, Step(t)
  PROVE  CrewInv'
<1> SUFFICES ASSUME NEW w \in Workers \ Crew, w = t, pc[t] = "done" PROVE pc'[t] = "done"
  BY SameProgram, OthersStay DEF CrewInv, Threads
<1>1. ASSUME ~Spurious(t) PROVE FALSE
  BY <1>1, StepCases DEF Quiet, Lock, CheckEnabled, Sleep, Wake, Unlock, CheckRunning, Enter, PassGate,
     MissGate, Finish, Leave, CheckLast, NotifyWait, AddCount, ExecuteAll, WaitLock, WaitCount, WaitSleep,
     WaitWake, WaitOver, StopFlag, StopNotify, Join, Op, PopSlot, Restock, Requeue, StockSlot, TakeSlot, GiveSlot,
     CheckEmpty, CheckDrained, WaitEmpty, AskEmpty, Jump, Stay, NextOp
<1>2. QED BY <1>1 DEF Spurious

\* A worker that pushes is in a job that pushes.
LEMMA PullingWorker ==
  ASSUME ControlInv, NEW w \in Workers, Pulling(w)
  PROVE  doing[w] \in Pushers
<1> USE DEF ControlInv
<1>1. w # Main /\ w \in Threads
  BY MainAssumption DEF Threads
<1>2. pc[w] \in {"ops", "give"} /\ next[w] <= Len(Ops(w)) /\ Ops(w)[next[w]].op = "push"
  BY <1>1 DEF Pulling, Op, PushInv, Arg
<1>3. Ops(w) = Body[doing[w]] /\ Ops(w) \in Seq(JobOps) /\ doing[w] \in Jobs
  BY <1>1, <1>2, OpsOK DEF Ops
<1>4. next[w] \in Nat \ {0}
  BY <1>1 DEF TypeInv
<1>5. next[w] \in Pushes(Body[doing[w]])
  BY <1>2, <1>3, <1>4 DEF Pushes
<1>6. QED BY <1>3, <1>5 DEF Pushers

\* One worker at most runs where there is one, or where a job pushes.
LEMMA OneRuns ==
  ASSUME ControlInv, CrewInv, OneWorker, NEW v \in Workers, NEW w \in Workers, pc[v] # "done", pc[w] # "done"
  PROVE  v = w
BY DEF CrewInv, OneWorker

\* One thread at a time is inside push().
LEMMA OnePuller ==
  ASSUME ControlInv, BuildInv, CrewInv, PusherInv, Calm, NEW t \in Threads, NEW u \in Threads, Pulling(t), Pulling(u)
  PROVE  t = u
<1>1. ASSUME NEW w \in Workers, Pulling(w), Pulling(Main) PROVE FALSE
  <2>1. next[Main] \in Pushes(Client) /\ next[Main] \in Nat
    BY <1>1, ClientAt, ClientFacts DEF Pulling, ControlInv
  <2>2. NoneFrom
    BY <1>1, PullingWorker DEF PusherInv
  <2>3. QED BY <2>1, <2>2 DEF NoneFrom
<1>2. ASSUME NEW v \in Workers, NEW w \in Workers, Pulling(v), Pulling(w) PROVE v = w
  <2>1. OneWorker
    BY <1>2, PullingWorker DEF Calm, FewPushes
  <2>2. QED BY <1>2, <2>1, OneRuns DEF Pulling, Op
<1>3. QED BY <1>1, <1>2 DEF Threads

\* A push under way pushes what its thread holds.
LEMMA ValStep ==
  ASSUME ControlInv, BuildInv, ValInv, NEW t \in Threads, Step(t)
  PROVE  ValInv'
<1> USE DEF ControlInv, TypeInv
<1> SUFFICES ASSUME NEW u \in Threads, at'[u] \in WQ!PushLabels
             PROVE  val'[u] = IF pc'[u] \in {"restock", "requeue"} THEN running'[u]
                              ELSE IF pc'[u] = "give" THEN hand'[u] ELSE next'[Main]
  BY DEF ValInv, WQ!PushLabels
<1>0. Main \in Threads
  BY DEF Threads
<1>1. CASE u # t
  <2>1. /\ pc'[u] = pc[u] /\ running'[u] = running[u] /\ hand'[u] = hand[u] /\ at'[u] = at[u] /\ val'[u] = val[u]
    BY <1>1, OthersStay
  <2>2. pc[u] \in {"restock", "requeue", "give"} \/ Op(u, "stock")
    BY <2>1 DEF CallInv
  <2>3. pc[u] \in {"restock", "requeue", "give"} \/ u = Main
    BY <2>2, ClientAt
  <2>4. u = Main => next'[Main] = next[Main]
    BY <1>0, <1>1, OthersStay
  <2>5. QED BY <2>1, <2>3, <2>4 DEF ValInv
<1>2. CASE u = t
  <2>1. CASE CallFree(t)
    <3>1. at' = at /\ val' = val /\ pc' = pc /\ next' = next /\ running' = running /\ hand' = hand
      BY <1>2, <2>1, FreeHolds DEF WQ!PushLabels, CallFree, Places2
    <3>2. QED BY <1>2, <3>1 DEF ValInv
  <2>2. CASE Asks(t)
    BY <1>2, <2>2 DEF Asks, EmptyGoes, WQ!EmptyCall, WQ!EmptyTrue, WQ!EmptyFalse, WQ!Goto, WQ!Return, WQ!PushLabels
  <2>3. CASE WorkPushGoes(t)
    <3>1. /\ pc[t] \in {"requeue", "give"} /\ pc' = pc /\ running' = running /\ hand' = hand
          /\ WorkPushing(t, IF pc[t] = "give" THEN hand[t] ELSE running[t])
      BY <2>3 DEF WorkPushGoes, Places2
    <3>2. \/ val'[t] = IF pc[t] = "give" THEN hand[t] ELSE running[t]
          \/ val'[t] = val[t] /\ at[t] \in WQ!PushLabels
      BY <3>1 DEF WorkPushing, WQ!PushCall, WQ!PushRoom, WQ!PushRetry, WQ!PushClaim, WQ!PushLabels
    <3>3. QED BY <1>2, <3>1, <3>2 DEF ValInv
  <2>4. CASE RestockGoes(t)
    <3>1. /\ pc[t] = "restock" /\ pc' = pc /\ running' = running /\ StockPushing(t, running[t])
      BY <2>4 DEF RestockGoes, Places2
    <3>2. val'[t] = running[t] \/ (val'[t] = val[t] /\ at[t] \in WQ!PushLabels)
      BY <3>1 DEF StockPushing, SQ!PushCall, SQ!PushRoom, SQ!PushRetry, SQ!PushClaim, WQ!PushLabels
    <3>3. QED BY <1>2, <3>1, <3>2 DEF ValInv
  <2>5. CASE BuildGoes(t)
    <3>1. /\ pc[t] = "ops" /\ pc' = pc /\ next' = next /\ StockPushing(t, Arg(t).slot)
      BY <2>5 DEF BuildGoes, Op
    <3>2. Arg(t).slot = next[Main]
      BY <2>5, ClientAt DEF BuildGoes
    <3>3. val'[t] = next[Main] \/ (val'[t] = val[t] /\ at[t] \in WQ!PushLabels)
      BY <3>1, <3>2 DEF StockPushing, SQ!PushCall, SQ!PushRoom, SQ!PushRetry, SQ!PushClaim, WQ!PushLabels
    <3>4. QED BY <1>2, <3>1, <3>3 DEF ValInv
  <2>6. CASE RequeueEnds(t) \/ GiveEnds(t) \/ WorkPopGoes(t) \/ WorkPopFails(t) \/ WorkPopEnds(t)
    BY <1>2, <2>6 DEF RequeueEnds, GiveEnds, WorkPopGoes, WorkPopFails, WorkPopEnds, WorkPushed, WorkPopping, WorkNone,
       WQ!PushFull, WQ!PushStore, WQ!PopCall, WQ!PopSome, WQ!PopClaim, WQ!PopLoad, WQ!PopEmpty, WQ!PopLost,
       WQ!PopClear, WQ!Goto, WQ!Return, WQ!PushLabels
  <2>7. CASE RestockEnds(t) \/ BuildEnds(t) \/ TakeGoes(t) \/ TakeFails(t) \/ TakeEnds(t)
    BY <1>2, <2>7 DEF RestockEnds, BuildEnds, TakeGoes, TakeFails, TakeEnds, StockPushed, StockPopping, StockNone,
       SQ!PushFull, SQ!PushStore, SQ!PopCall, SQ!PopSome, SQ!PopClaim, SQ!PopLoad, SQ!PopEmpty, SQ!PopLost,
       SQ!PopClear, SQ!Goto, SQ!Return, WQ!PushLabels
  <2>8. QED BY <2>1, <2>2, <2>3, <2>4, <2>5, <2>6, <2>7, StepShape DEF WorkShape, StockShape
<1>3. QED BY <1>1, <1>2


\* The constructor stocks slot after slot, each at the next index, with nobody else at work.
LEMMA BuildStep ==
  ASSUME ControlInv, BuildInv, NEW t \in Threads, Step(t)
  PROVE  BuildInv'
<1> USE DEF ControlInv, TypeInv
<1> SUFFICES ASSUME next'[Main] <= NbWorker PROVE BuildInv'
  BY DEF BuildInv
<1> PICK n : n = NbWorker
  OBVIOUS
<1>0. n \in Nat \ {0} /\ next[Main] \in Nat \ {0} /\ next'[Main] \in Nat /\ next'[Main] <= n /\ Main \in Threads
  BY SlotAssumption, ClientGoesOn DEF Threads
<1>1. next[Main] <= n
  BY <1>0, ClientGoesOn
<1>2. /\ pc[Main] = "ops"
      /\ \A u \in Threads : running[u] = Null /\ hand[u] = Null
      /\ \A u \in Threads : pc[u] = "pop" => at[u] = "idle" \/ (at[u] = "pop_check" /\ idx[u] = 0)
      /\ workStart = 0 /\ workEnd = 0 /\ stockStart = 0
      /\ at[Main] \in {"idle"} \cup WQ!PushLabels
      /\ at[Main] \in WQ!PushLabels => idx[Main] = next[Main] - 1
      /\ at[Main] \in {"push_cas", "push_store"} => next[Main] < n
      /\ stockEnd = IF at[Main] = "push_store" THEN next[Main] ELSE next[Main] - 1
  BY <1>1 DEF BuildInv
<1>3. Op(Main, "stock") /\ \A u \in Threads : Op(u, "stock") => u = Main
  BY <1>1, ClientAt
<1>4. CASE t # Main
  <2>1. t \in Workers /\ pc[t] \notin {"gate", "ops", "give", "requeue", "restock"}
    BY <1>1, <1>4, BuildAlone DEF Threads
  <2>2. /\ pc'[Main] = pc[Main] /\ next'[Main] = next[Main] /\ at'[Main] = at[Main] /\ idx'[Main] = idx[Main]
        /\ \A u \in Threads \ {t} : pc'[u] = pc[u] /\ at'[u] = at[u] /\ idx'[u] = idx[u]
    BY <1>0, <1>4, OthersStay
  <2>3. ASSUME UNCHANGED <<workRing, stockRing, running, hand>>,
               pc'[t] = "pop" => at'[t] = "idle" \/ (at'[t] = "pop_check" /\ idx'[t] = 0)
        PROVE  BuildInv'
    <3>1. \A u \in Threads : running'[u] = Null /\ hand'[u] = Null
      BY <1>2, <2>3
    <3>2. \A u \in Threads : pc'[u] = "pop" => at'[u] = "idle" \/ (at'[u] = "pop_check" /\ idx'[u] = 0)
      BY <1>2, <2>2, <2>3
    <3>3. workStart' = 0 /\ workEnd' = 0 /\ stockStart' = 0 /\ stockEnd' = stockEnd
      BY <1>2, <2>3 DEF workRing, stockRing
    <3>4. pc'[Main] = "ops" /\ at'[Main] \in {"idle"} \cup WQ!PushLabels
      BY <1>2, <2>2
    <3>5. at'[Main] \in WQ!PushLabels => idx'[Main] = next'[Main] - 1
      BY <1>2, <2>2
    <3>6. at'[Main] \in {"push_cas", "push_store"} => next'[Main] < n
      BY <1>2, <2>2
    <3>7. stockEnd' = IF at'[Main] = "push_store" THEN next'[Main] ELSE next'[Main] - 1
      BY <1>2, <2>2, <3>3
    <3>8. (WQ!PushLabels)' = WQ!PushLabels
      BY DEF WQ!PushLabels
    <3>9. QED BY <3>1, <3>2, <3>3, <3>4, <3>5, <3>6, <3>7, <3>8 DEF BuildInv
  <2>4. CASE CallFree(t)
    <3>1. at' = at /\ idx' = idx /\ (pc' = pc \/ at[t] = "idle")
      BY <2>4, FreeHolds
    <3>2. QED BY <1>2, <2>3, <2>4, <3>1 DEF CallFree, Places2
  <2>5. CASE Asks(t)
    BY <2>3, <2>5 DEF Asks, EmptyGoes, WQ!EmptyCall, WQ!EmptyTrue, WQ!EmptyFalse, WQ!Goto, WQ!Return, Places2,
       AskEmpty, Jump, Stay
  <2>6. CASE WorkShape(t)
    <3>1. WorkPopGoes(t) \/ WorkPopFails(t) \/ WorkPopEnds(t)
      BY <2>1, <2>6 DEF WorkShape, WorkPushGoes, RequeueEnds, GiveEnds
    <3>2. pc[t] = "pop"
      BY <3>1 DEF WorkPopGoes, WorkPopFails, WorkPopEnds
    <3>3. at[t] = "idle" \/ (at[t] = "pop_check" /\ idx[t] = 0)
      BY <1>2, <3>2
    <3>4. WQ!PopCall(t) \/ WQ!PopEmpty(t)
      BY <1>2, <3>1, <3>3 DEF WorkPopGoes, WorkPopFails, WorkPopEnds, WorkPopping, WorkNone, WQ!PopSome, WQ!PopClaim,
         WQ!PopLoad, WQ!PopLost, WQ!PopClear
    <3>5. UNCHANGED <<workRing, stockRing, running, hand>>
      BY <3>1, <3>4 DEF WorkPopGoes, WorkPopFails, WorkPopEnds, Places2, WQ!PopCall, WQ!PopEmpty, WQ!ring, workRing,
         WQ!PopClear, WQ!Goto, WQ!Return
    <3>6. at'[t] = "idle" \/ (at'[t] = "pop_check" /\ idx'[t] = 0)
      BY <1>2, <3>4 DEF WQ!PopCall, WQ!PopEmpty, WQ!Goto, WQ!Return
    <3>7. QED BY <2>3, <3>5, <3>6
  <2>7. CASE StockShape(t)
    BY <1>3, <1>4, <2>1, <2>7 DEF StockShape, RestockGoes, RestockEnds, BuildGoes, BuildEnds, TakeGoes, TakeFails,
       TakeEnds, Op
  <2>8. QED BY <2>4, <2>5, <2>6, <2>7, StepShape
<1>5. CASE t = Main
  <2>1. BuildGoes(t) \/ BuildEnds(t) \/ UNCHANGED <<workRing, stockRing, calls, Places2, pc, next>>
    <3>1. pc[t] = "ops" /\ Op(t, "stock") /\ ~Op(t, "push")
      BY <1>2, <1>3, <1>5 DEF Op
    <3>2. QED BY <3>1, StepShape DEF WorkShape, StockShape, WorkPushGoes, RequeueEnds, GiveEnds, WorkPopGoes,
                WorkPopFails, WorkPopEnds, RestockGoes, RestockEnds, TakeGoes, TakeFails, TakeEnds, Asks, CallFree
  <2>2. CASE UNCHANGED <<workRing, stockRing, calls, Places2, pc, next>>
    BY <1>2, <2>2 DEF BuildInv, workRing, stockRing, calls, Places2, WQ!PushLabels
  <2>3. \A u \in Threads \ {t} : pc'[u] = pc[u] /\ at'[u] = at[u] /\ idx'[u] = idx[u]
    BY OthersStay
  <2> PICK x, x2, e, e2, i, i2 :
        /\ x = next[Main] /\ x2 = next'[Main] /\ e = stockEnd /\ e2 = stockEnd' /\ i = idx[Main] /\ i2 = idx'[Main]
    OBVIOUS
  <2>4. ASSUME pc'[t] = "ops", UNCHANGED <<workRing, stockBuf, stockStart, Places2>> \/ UNCHANGED <<workRing, stockStart, Places2>>,
               at'[t] \in {"idle"} \cup WQ!PushLabels, at'[t] \in WQ!PushLabels => i2 = x2 - 1,
               at'[t] \in {"push_cas", "push_store"} => x2 < n,
               e2 = IF at'[t] = "push_store" THEN x2 ELSE x2 - 1
        PROVE  BuildInv'
    BY <1>2, <1>5, <2>3, <2>4 DEF BuildInv, workRing, Places2, WQ!PushLabels
  <2>5. \A j \in WQ!Slots : WQ!Succ(j) = IF j + 1 = n THEN 0 ELSE j + 1
    BY SuccIs
  <2>6. \A j : SQ!Succ(j) = WQ!Succ(j)
    BY SameSlots
  <2>7. i \in WQ!Slots
    BY <1>0
  <2>8. x \in Nat \ {0} /\ x <= n /\ x2 <= n
    BY <1>0, <1>1
  <2>9. CASE BuildGoes(t)
    <3>1. x2 = x /\ pc'[t] = "ops" /\ UNCHANGED <<workRing, Places2>> /\ StockPushing(t, Arg(t).slot)
      BY <1>2, <1>5, <2>9 DEF BuildGoes
    <3>2. CASE SQ!PushCall(t, Arg(t).slot)
      <4>1. at'[t] = "push_check" /\ i2 = e /\ UNCHANGED stockRing /\ at[t] = "idle" /\ e2 = e
        BY <1>5, <3>2 DEF SQ!PushCall, SQ!Goto, SQ!ring, stockRing
      <4>2. e = x - 1
        BY <1>2, <1>5, <4>1
      <4>3. QED BY <2>4, <3>1, <4>1, <4>2 DEF stockRing, WQ!PushLabels
    <3>3. CASE SQ!PushRoom(t)
      <4>1. at'[t] = "push_cas" /\ i2 = i /\ UNCHANGED stockRing /\ at[t] = "push_check" /\ e2 = e /\ SQ!Succ(i) # 0
        BY <1>2, <1>5, <3>3 DEF SQ!PushRoom, SQ!Goto, SQ!ring, stockRing
      <4>2. e = x - 1 /\ i = x - 1
        BY <1>2, <1>5, <4>1 DEF WQ!PushLabels
      <4>3. x < n
        BY <1>0, <2>5, <2>6, <2>7, <2>8, <4>1, <4>2
      <4>4. QED BY <2>4, <3>1, <4>1, <4>2, <4>3 DEF stockRing, WQ!PushLabels
    <3>4. CASE SQ!PushRetry(t)
      <4>1. at'[t] = "push_check" /\ i2 = e /\ UNCHANGED stockRing /\ at[t] = "push_cas" /\ e2 = e
        BY <1>5, <3>4 DEF SQ!PushRetry, SQ!Goto, SQ!ring, stockRing
      <4>2. e = x - 1
        BY <1>2, <1>5, <4>1
      <4>3. QED BY <2>4, <3>1, <4>1, <4>2 DEF stockRing, WQ!PushLabels
    <3>5. CASE SQ!PushClaim(t)
      <4>1. at'[t] = "push_store" /\ i2 = i /\ UNCHANGED <<stockBuf, stockStart>> /\ at[t] = "push_cas" /\ e2 = SQ!Succ(i)
        BY <1>5, <3>5 DEF SQ!PushClaim, SQ!Goto
      <4>2. i = x - 1 /\ x < n
        BY <1>2, <1>5, <4>1 DEF WQ!PushLabels
      <4>3. e2 = x
        BY <2>5, <2>6, <2>7, <2>8, <4>1, <4>2
      <4>4. QED BY <2>4, <3>1, <4>1, <4>2, <4>3 DEF stockRing, WQ!PushLabels
    <3>6. QED BY <3>1, <3>2, <3>3, <3>4, <3>5 DEF StockPushing
  <2>10. CASE BuildEnds(t)
    <3>1. x2 = x + 1 /\ pc'[t] = "ops" /\ UNCHANGED <<workRing, Places2>> /\ StockPushed(t)
      BY <1>5, <2>10 DEF BuildEnds
    <3>2. CASE SQ!PushFull(t)
      <4>1. at[t] = "push_check" /\ SQ!Succ(i) = 0
        BY <1>2, <1>5, <3>2 DEF SQ!PushFull
      <4>2. i = x - 1
        BY <1>2, <1>5, <4>1 DEF WQ!PushLabels
      <4>3. QED BY <2>5, <2>6, <2>7, <2>8, <3>1, <4>1, <4>2
    <3>3. CASE SQ!PushStore(t)
      <4>1. at[t] = "push_store" /\ at'[t] = "idle" /\ e2 = e /\ stockStart' = stockStart
        BY <1>5, <3>3 DEF SQ!PushStore, SQ!Goto, SQ!Return
      <4>2. e = x
        BY <1>2, <1>5, <4>1
      <4>3. e2 = x2 - 1
        BY <2>8, <3>1, <4>1, <4>2
      <4>4. QED BY <2>4, <3>1, <4>1, <4>3 DEF WQ!PushLabels
    <3>4. QED BY <3>1, <3>2, <3>3 DEF StockPushed
  <2>11. QED BY <2>1, <2>2, <2>9, <2>10
<1>6. QED BY <1>4, <1>5

\* A slot is with one thread or at one place of a ring.
LEMMA SpotType ==
  ASSUME NEW k, NEW i, NEW s \in WorkerSlots, Has(k, i, s)
  PROVE  k \in Kinds /\ i \in Spots
BY DEF Has, Kinds, Spots

\* A slot that has left the constructor has one place.
LEMMA OneHolds ==
  ASSUME ControlInv, OneSpot, LastOut, NEW s \in WorkerSlots, NEW k, NEW i, NEW l, NEW j, Has(k, i, s), Has(l, j, s),
         k # "new" \/ s \in Fit
  PROVE  k = l /\ i = j /\ s \in Fit
<1>1. k \in Kinds /\ i \in Spots /\ l \in Kinds /\ j \in Spots
  BY SpotType
<1>2. s \in Fit
  BY <1>1, SlotAssumption DEF LastOut, WorkerSlots, Fit
<1>3. QED BY <1>1, <1>2 DEF OneSpot

\* A job that pushes is set to a slot by the last push of the client only.
LEMMA PusherStep ==
  ASSUME ControlInv, BuildInv, OneSpot, LastOut, PusherInv, Calm, NEW t \in Threads, Step(t)
  PROVE  PusherInv'
<1> USE DEF ControlInv, TypeInv
<1>0. /\ Pushes(Client)' = Pushes(Client) /\ Pushers' = Pushers /\ next[Main] \in Nat /\ next'[Main] \in Nat
      /\ Main \in Threads /\ Workers \subseteq Threads /\ Main \notin Workers
      /\ next'[Main] = next[Main] \/ next'[Main] = next[Main] + 1
      /\ \A k \in Pushes(Client) : k \in Nat
  BY SameProgram, ClientGoesOn, ClientFacts, MainAssumption DEF Threads
<1>1. NoneFrom => \A k \in Pushes(Client) : k < next'[Main]
  BY <1>0 DEF NoneFrom
<1>2. ASSUME NEW w \in Workers, doing'[w] \in Pushers PROVE \A k \in Pushes(Client) : k < next'[Main]
  <2>1. CASE doing'[w] = doing[w]
    BY <1>1, <1>2, <2>1 DEF PusherInv
  <2>2. CASE doing'[w] # doing[w]
    <3>1. w = t
      BY <1>0, <2>2, OthersStay
    <3>2. Null \notin Pushers
      BY SlotAssumption DEF Pushers
    <3>3. PassGate(t)
      <4>1. CASE Quiet(t)
        BY <1>2, <2>2, <3>1, <3>2, <4>1 DEF Quiet, Lock, CheckEnabled, Sleep, Wake, Unlock, CheckRunning, Enter,
         MissGate, Finish, Leave, CheckLast, NotifyWait, AddCount, ExecuteAll, WaitLock, WaitCount, WaitSleep,
         WaitWake, WaitOver, StopFlag, StopNotify, Join, Spurious, jobs
      <4>2. CASE ~Quiet(t)
        BY <2>2, <3>1, <4>2, StepCases DEF PopSlot, Restock, Requeue, StockSlot, TakeSlot, GiveSlot, CheckEmpty,
           CheckDrained, WaitEmpty, AskEmpty, jobs
      <4>3. QED BY <4>1, <4>2
    <3>4. pc[t] = "gate" /\ doing'[t] = slotJob[running[t]]
      BY <3>3 DEF PassGate, Jump, Job
    <3>5. running[t] \in WorkerSlots
      BY <3>1, <3>4 DEF HandInv
    <3>6. hand[Main] # running[t]
      <4>1. ASSUME hand[Main] = running[t] PROVE FALSE
        <5>1. Has("running", t, running[t]) /\ Has("hand", Main, running[t])
          BY <1>0, <4>1 DEF Has
        <5>2. QED BY <3>5, <5>1, OneHolds
      <4>2. QED BY <4>1
    <3>7. NoneFrom
      BY <1>2, <3>1, <3>4, <3>5, <3>6 DEF PusherInv
    <3>8. QED BY <1>1, <3>7
  <2>3. QED BY <2>1, <2>2
<1>3. ASSUME NEW s \in WorkerSlots, slotJob'[s] \in Pushers
      PROVE  IF hand'[Main] = s THEN \A k \in Pushes(Client) : k <= next'[Main]
             ELSE \A k \in Pushes(Client) : k < next'[Main]
  <2>0. NoneFrom => \A k \in Pushes(Client) : k < next'[Main] /\ k <= next'[Main]
    BY <1>0 DEF NoneFrom
  <2>1. CASE slotJob'[s] = slotJob[s] /\ hand[Main] = s
    <3>1. \A k \in Pushes(Client) : k <= next[Main]
      BY <1>3, <2>1 DEF PusherInv
    <3>2. CASE hand'[Main] = s
      BY <1>0, <3>1, <3>2
    <3>3. CASE hand'[Main] # s
      <4>1. t = Main
        BY <1>0, <2>1, <3>3, OthersStay
      <4>2. pc[Main] = "give"
        BY <1>0, <2>1, SlotAssumption DEF HandInv
      <4>3. GiveEnds(t)
        BY <2>1, <3>3, <4>1, <4>2, StepShape DEF WorkShape, StockShape, WorkPushGoes, RequeueEnds, WorkPopGoes,
           WorkPopFails, WorkPopEnds, RestockGoes, RestockEnds, BuildGoes, BuildEnds, TakeGoes, TakeFails, TakeEnds,
           Asks, CallFree, Op, Places2
      <4>4. next'[Main] = next[Main] + 1
        BY <1>0, <4>1, <4>3 DEF GiveEnds
      <4>5. QED BY <1>0, <3>1, <3>3, <4>4
    <3>4. QED BY <3>2, <3>3
  <2>2. CASE slotJob'[s] = slotJob[s] /\ hand[Main] # s
    <3>1. NoneFrom
      BY <1>3, <2>2 DEF PusherInv
    <3>2. QED BY <2>0, <3>1
  <2>3. CASE slotJob'[s] # slotJob[s]
    <3>1. TakeSlot(t)
      BY <2>3, StepCases, QuietKeeps DEF slots, PopSlot, Restock, Requeue, StockSlot, GiveSlot, CheckEmpty,
         CheckDrained, WaitEmpty, AskEmpty
    <3>2. /\ Op(t, "push") /\ next'[t] = next[t] /\ hand'[t] = val[t]
          /\ slotJob' = [slotJob EXCEPT ![val[t]] = Arg(t).job]
      BY <2>3, <3>1 DEF TakeSlot, Jump
    <3>3. val[t] = s /\ slotJob'[s] = Arg(t).job
      BY <2>3, <3>2
    <3>4. CASE t = Main
      <4>1. next[Main] \in Pushes(Client) /\ Client[next[Main]].job \in Pushers
        BY <1>3, <3>2, <3>3, <3>4, ClientAt
      <4>2. \A k \in Pushes(Client) : k <= next[Main]
        BY <4>1 DEF Calm, PushersLast
      <4>3. QED BY <3>2, <3>3, <3>4, <4>2
    <3>5. CASE t # Main
      <4>1. doing[t] \in Pushers /\ t \in Workers
        BY <3>2, <3>5, PullingWorker DEF Pulling, Threads
      <4>2. NoneFrom
        BY <4>1 DEF PusherInv
      <4>3. QED BY <2>0, <4>2
    <3>6. QED BY <3>4, <3>5
  <2>4. QED BY <2>1, <2>2, <2>3
<1>4. QED BY <1>0, <1>2, <1>3 DEF PusherInv, NoneFrom

-----------------------------------------------------------------------------
(* There is room in a ring for a slot that a thread has.                   *)

\* The slot of a push under way is where the thread has it.
LEMMA Held ==
  ASSUME ControlInv, BuildInv, ValInv, NEW u \in Threads, at[u] \in WQ!PushLabels
  PROVE  /\ val[u] \in WorkerSlots /\ Has(Holding(u), Holder(u), val[u])
         /\ Holding(u) = "new" => u = Main
<1> USE DEF ControlInv
<1>1. val[u] \in WorkerSlots
  BY DEF CallInv
<1>2. CASE pc[u] \in {"restock", "requeue"}
  BY <1>1, <1>2 DEF ValInv, Has, Holding, Holder
<1>3. CASE pc[u] = "give"
  BY <1>1, <1>3 DEF ValInv, Has, Holding, Holder
<1>4. CASE pc[u] \notin {"restock", "requeue", "give"}
  <2>1. Op(u, "stock")
    BY <1>4 DEF CallInv
  <2>2. u = Main /\ val[u] = next[Main] /\ Holding(u) = "new" /\ Holder(u) = next[Main]
    BY <1>4, <2>1, ClientAt DEF ValInv, Holding, Holder
  <2>3. next[Main] >= next[Main]
    BY DEF TypeInv, Threads
  <2>4. QED BY <1>1, <2>2, <2>3 DEF Has
<1>5. QED BY <1>1, <1>2, <1>3, <1>4

\* It is in no ring, and no other thread has it.
LEMMA HeldApart ==
  ASSUME ControlInv, BuildInv, ValInv, OneSpot, LastOut, NEW u \in Threads, at[u] \in WQ!PushLabels,
         Holding(u) = "new" => next[Main] < NbWorker
  PROVE  /\ val[u] \in Fit
         /\ \A k \in {"work", "stock"} : \A i : ~Has(k, i, val[u])
         /\ \A w \in Threads : running[w] = val[u] \/ hand[w] = val[u] => w = u
         /\ \A w \in Threads : at[w] \in WQ!PushLabels /\ val[w] = val[u] => w = u
<1> USE Held
<1>1. val[u] \in WorkerSlots /\ Has(Holding(u), Holder(u), val[u]) /\ Holding(u) \in {"running", "hand", "new"}
  BY DEF Holding
<1>2. val[u] \in Fit
  <2>1. CASE Holding(u) = "new"
    <3>1. Holder(u) = next[Main] /\ val[u] = next[Main]
      BY <1>1, <2>1 DEF Holder, Has
    <3>2. NbWorker \in Nat /\ next[Main] \in Nat \ {0}
      BY SlotAssumption DEF ControlInv, TypeInv, Threads
    <3>3. QED BY <2>1, <3>1, <3>2 DEF Fit
  <2>2. CASE Holding(u) # "new"
    BY <1>1, <2>2, OneHolds
  <2>3. QED BY <2>1, <2>2
<1>3. ASSUME NEW k, NEW i, Has(k, i, val[u]) PROVE k = Holding(u) /\ i = Holder(u)
  BY <1>1, <1>2, <1>3, OneHolds
<1>4. ASSUME NEW w \in Threads, running[w] = val[u] \/ hand[w] = val[u] PROVE w = u
  <2>1. Has("running", w, val[u]) \/ Has("hand", w, val[u])
    BY <1>4 DEF Has
  <2>2. Holding(u) # "new" /\ w = Holder(u)
    BY <1>3, <2>1
  <2>3. QED BY <2>2 DEF Holder
<1>5. ASSUME NEW w \in Threads, at[w] \in WQ!PushLabels, val[w] = val[u] PROVE w = u
  <2>1. Has(Holding(w), Holder(w), val[u]) /\ (Holding(w) = "new" => w = Main)
    BY <1>5
  <2>2. Holding(w) = Holding(u) /\ Holder(w) = Holder(u)
    BY <1>3, <2>1
  <2>3. QED BY <2>1, <2>2 DEF Holder
<1>6. \A k \in {"work", "stock"} : \A i : ~Has(k, i, val[u])
  BY <1>1, <1>3
<1>7. QED BY <1>2, <1>4, <1>5, <1>6

\* The slot a thread has, whether the call that pushes it is under way or not.
LEMMA InHand ==
  ASSUME ControlInv, OneSpot, LastOut, NEW t \in Threads, NEW v \in WorkerSlots, running[t] = v \/ hand[t] = v
  PROVE  /\ v \in Fit
         /\ \A k \in {"work", "stock"} : \A i : ~Has(k, i, v)
<1>1. PICK l \in {"running", "hand"} : Has(l, t, v)
  BY DEF Has
<1>2. v \in Fit
  BY <1>1, OneHolds
<1>3. ASSUME NEW k \in {"work", "stock"}, NEW i, Has(k, i, v) PROVE FALSE
  BY <1>1, <1>3, OneHolds
<1>4. QED BY <1>2, <1>3

\* There is room in workerQueue for a slot that is held ...
LEMMA WorkRoom ==
  ASSUME ControlInv, BuildInv, ValInv, OneSpot, LastOut, WorkOK,
         NEW t \in Threads, pc[t] \in {"requeue", "give"}, at[t] # "push_store"
  PROVE  WQ!Succ(workEnd) # workStart
<1> USE DEF ControlInv, TypeInv, WQ!RingTypeOK
<1>1. PICK v \in WorkerSlots : running[t] = v \/ hand[t] = v
  <2>1. CASE pc[t] = "requeue"
    BY <2>1 DEF HandInv, PartsInv, Threads, ClientLabels
  <2>2. CASE pc[t] = "give"
    BY <2>2 DEF HandInv
  <2>3. QED BY <2>1, <2>2
<1>2. v \in Fit /\ \A k \in {"work", "stock"} : \A i : ~Has(k, i, v)
  BY <1>1, InHand
<1>3. ASSUME NEW i \in WQ!Slots, workBuf[i] # Null PROVE workBuf[i] \in Fit \ {v} /\ Has("work", i, workBuf[i])
  <2>1. workBuf[i] \in WorkerSlots /\ Has("work", i, workBuf[i])
    BY <1>3 DEF Has
  <2>2. workBuf[i] \in Fit
    BY <2>1, OneHolds
  <2>3. QED BY <1>2, <2>1, <2>2
<1>4. ASSUME NEW i \in WQ!Slots, NEW k \in WQ!Slots, workBuf[i] # Null, workBuf[i] = workBuf[k] PROVE i = k
  <2>1. workBuf[i] \in WorkerSlots /\ Has("work", i, workBuf[i]) /\ Has("work", k, workBuf[i])
    BY <1>4 DEF Has
  <2>2. QED BY <2>1, OneHolds
<1>5. ASSUME NEW u \in WSt
      PROVE  /\ val[u] \in Fit \ {v} /\ \A i \in WQ!Slots : workBuf[i] # val[u]
             /\ \A w \in WSt : val[w] = val[u] => w = u
  <2>1. u \in Threads /\ at[u] \in WQ!PushLabels /\ Holding(u) # "new" /\ u # t
    BY DEF WSt, WQ!PushLabels, Holding
  <2>2. /\ val[u] \in Fit /\ \A k \in {"work", "stock"} : \A i : ~Has(k, i, val[u])
        /\ \A w \in Threads : running[w] = val[u] \/ hand[w] = val[u] => w = u
        /\ \A w \in Threads : at[w] \in WQ!PushLabels /\ val[w] = val[u] => w = u
    BY <2>1, HeldApart
  <2>3. val[u] # v
    BY <1>1, <2>1, <2>2
  <2>4. \A i \in WQ!Slots : workBuf[i] # val[u]
    BY <2>2 DEF Has
  <2>5. \A w \in WSt : val[w] = val[u] => w = u
    BY <2>2 DEF WSt, WQ!PushLabels
  <2>6. QED BY <2>2, <2>3, <2>4, <2>5
<1>6. RingOK(workBuf, workStart, workEnd, WSt, WRm, WLd, idx, val)
  BY DEF WorkOK
<1>7. \A i \in WQ!Slots : workBuf[i] # Null => workBuf[i] \in Fit \ {v}
  BY <1>3
<1>8. /\ \A i, k \in WQ!Slots : workBuf[i] # Null /\ workBuf[i] = workBuf[k] => i = k
      /\ \A u \in WSt : val[u] \in Fit \ {v} /\ \A i \in WQ!Slots : workBuf[i] # val[u]
      /\ \A u, w \in WSt : val[u] = val[w] => u = w
  BY <1>4, <1>5
<1> HIDE DEF ControlInv, TypeInv
<1>9. workStart \in WQ!Slots /\ workEnd \in WQ!Slots
  BY DEF ControlInv, TypeInv
<1>10. QED BY <1>2, <1>6, <1>7, <1>8, <1>9, RoomLeft

\* ... and in stockQueue.
LEMMA StockRoom ==
  ASSUME ControlInv, BuildInv, ValInv, OneSpot, LastOut, StockOK,
         NEW t \in Threads, pc[t] = "restock", at[t] # "push_store"
  PROVE  WQ!Succ(stockEnd) # stockStart
<1> USE DEF ControlInv, TypeInv, SQ!RingTypeOK
<1>1. PICK v \in WorkerSlots : running[t] = v
  BY DEF HandInv, PartsInv, Threads, ClientLabels
<1>2. v \in Fit /\ \A k \in {"work", "stock"} : \A i : ~Has(k, i, v)
  BY <1>1, InHand
<1>0. SQ!Slots = WQ!Slots
  BY SameSlots
<1>3. ASSUME NEW i \in WQ!Slots, stockBuf[i] # Null PROVE stockBuf[i] \in Fit \ {v} /\ Has("stock", i, stockBuf[i])
  <2>1. stockBuf[i] \in WorkerSlots /\ Has("stock", i, stockBuf[i])
    BY <1>0, <1>3 DEF Has
  <2>2. stockBuf[i] \in Fit
    BY <2>1, OneHolds
  <2>3. QED BY <1>2, <2>1, <2>2
<1>4. ASSUME NEW i \in WQ!Slots, NEW k \in WQ!Slots, stockBuf[i] # Null, stockBuf[i] = stockBuf[k] PROVE i = k
  <2>1. stockBuf[i] \in WorkerSlots /\ Has("stock", i, stockBuf[i]) /\ Has("stock", k, stockBuf[i])
    BY <1>0, <1>4 DEF Has
  <2>2. QED BY <2>1, OneHolds
<1>5. ASSUME NEW u \in SSt
      PROVE  /\ val[u] \in Fit \ {v} /\ \A i \in WQ!Slots : stockBuf[i] # val[u]
             /\ \A w \in SSt : val[w] = val[u] => w = u
  <2>1. u \in Threads /\ at[u] \in WQ!PushLabels /\ Holding(u) # "new" /\ u # t
    <3>1. pc[u] # "ops"
      <4>1. ASSUME pc[u] = "ops" PROVE FALSE
        <5>1. Op(u, "stock")
          BY <4>1 DEF SSt, CallInv, WQ!PushLabels
        <5>2. next[Main] <= NbWorker /\ t \in Workers
          BY <5>1, ClientAt DEF PartsInv, Threads, ClientLabels, SSt
        <5>3. QED BY <5>2, BuildAlone
      <4>2. QED BY <4>1
    <3>2. QED BY <3>1 DEF SSt, WQ!PushLabels, Holding
  <2>2. /\ val[u] \in Fit /\ \A k \in {"work", "stock"} : \A i : ~Has(k, i, val[u])
        /\ \A w \in Threads : running[w] = val[u] \/ hand[w] = val[u] => w = u
        /\ \A w \in Threads : at[w] \in WQ!PushLabels /\ val[w] = val[u] => w = u
    BY <2>1, HeldApart
  <2>3. val[u] # v
    BY <1>1, <2>1, <2>2
  <2>4. \A i \in WQ!Slots : stockBuf[i] # val[u]
    BY <2>2 DEF Has
  <2>5. \A w \in SSt : val[w] = val[u] => w = u
    BY <2>2 DEF SSt, WQ!PushLabels
  <2>6. QED BY <2>2, <2>3, <2>4, <2>5
<1>6. RingOK(stockBuf, stockStart, stockEnd, SSt, SRm, SLd, idx, val)
  BY DEF StockOK
<1>7. \A i \in WQ!Slots : stockBuf[i] # Null => stockBuf[i] \in Fit \ {v}
  BY <1>3
<1>8. stockStart \in WQ!Slots /\ stockEnd \in WQ!Slots
  BY <1>0
<1>9. /\ \A i, k \in WQ!Slots : stockBuf[i] # Null /\ stockBuf[i] = stockBuf[k] => i = k
      /\ \A u \in SSt : val[u] \in Fit \ {v} /\ \A i \in WQ!Slots : stockBuf[i] # val[u]
      /\ \A u, w \in SSt : val[u] = val[w] => u = w
  BY <1>4, <1>5
<1> HIDE DEF ControlInv, TypeInv
<1>10. QED BY <1>2, <1>6, <1>7, <1>8, <1>9, RoomLeft

-----------------------------------------------------------------------------
(* Every call that is to succeed finds what its check has seen.            *)

OwnInv == /\ WorkOK /\ StockOK /\ OneSpot /\ LastOut /\ Kept /\ ValInv /\ CrewInv /\ BuildInv /\ PusherInv
          /\ StockPopInv /\ GivePushInv /\ WorkPopInv /\ RestockOne /\ WorkLap /\ StockLap

\* So every call that claims an index claims what its check has seen.
LEMMA Claims ==
  ASSUME ControlInv, Calm, OwnInv, NEW t \in Threads
  PROVE  WorkClaims(t) /\ StockClaims(t)
<1> USE DEF ControlInv, OwnInv, TypeInv, WQ!RingTypeOK, SQ!RingTypeOK
<1>1. ASSUME WQ!PushClaim(t), pc[t] \in {"requeue", "give"}
      PROVE  WQ!Succ(workEnd) # workStart /\ \A u \in WRm : idx[u] # workEnd
  <2>1. WQ!Succ(workEnd) # workStart
    BY <1>1, WorkRoom DEF WQ!PushClaim
  <2>2. CASE OneWorker
    BY <2>1, <2>2 DEF WorkPopInv, WRm
  <2>3. CASE FewPushes
    <3>1. \A u \in WRm : idx[u] < workStart /\ idx[u] \in Int
      BY <2>3 DEF WorkLap, WRm, WQ!Slots
    <3>2. workStart <= workEnd /\ workStart \in Int /\ workEnd \in Int
      BY <2>3 DEF WorkLap, WQ!Slots
    <3>3. QED BY <2>1, <3>1, <3>2
  <2>4. QED BY <2>2, <2>3 DEF Calm
<1>2. ASSUME WQ!PopClaim(t), pc[t] = "pop" PROVE workStart # workEnd
  <2>1. at[t] = "pop_cas" /\ idx[t] = workStart
    BY <1>2 DEF WQ!PopClaim
  <2>2. CASE OneWorker
    BY <1>2, <2>1, <2>2 DEF WorkPopInv
  <2>3. CASE FewPushes
    <3>1. workStart < workEnd /\ workStart \in Int
      BY <1>2, <2>1, <2>3 DEF WorkLap, WQ!Slots
    <3>2. QED BY <3>1
  <2>4. QED BY <2>2, <2>3 DEF Calm
<1>3. ASSUME SQ!PushClaim(t), pc[t] = "restock"
      PROVE  WQ!Succ(stockEnd) # stockStart /\ \A u \in SRm : idx[u] # stockEnd
  <2>1. WQ!Succ(stockEnd) # stockStart
    BY <1>3, StockRoom DEF SQ!PushClaim
  <2>2. \A u \in SRm : WQ!Succ(idx[u]) = stockStart
    BY DEF StockPopInv, SRm
  <2>3. QED BY <2>1, <2>2
<1>4. ASSUME SQ!PushClaim(t), pc[t] = "ops"
      PROVE  WQ!Succ(stockEnd) # stockStart /\ \A u \in SRm : idx[u] # stockEnd
  <2>1. at[t] = "push_cas"
    BY <1>4 DEF SQ!PushClaim
  <2>2. Op(t, "stock")
    BY <1>4, <2>1 DEF CallInv, WQ!PushLabels
  <2>3. t = Main /\ next[Main] <= NbWorker
    BY <2>2, ClientAt
  <2>4. \A u \in SRm : FALSE
    BY <2>3, BuildAlone DEF SRm, WQ!PopLabels
  <2>5. stockStart = 0 /\ next[Main] < NbWorker /\ stockEnd = next[Main] - 1
    BY <2>1, <2>3 DEF BuildInv
  <2>6. stockEnd \in WQ!Slots /\ next[Main] \in Nat \ {0} /\ NbWorker \in Nat
    BY <2>3, SameSlots, SlotAssumption
  <2>7. stockEnd + 1 # NbWorker /\ stockEnd + 1 # 0
    BY <2>5, <2>6
  <2>8. WQ!Succ(stockEnd) # 0
    BY <2>6, <2>7, SuccIs
  <2>9. QED BY <2>4, <2>5, <2>8
<1>5. ASSUME SQ!PopClaim(t), pc[t] = "ops" PROVE stockStart # stockEnd
  BY <1>5 DEF SQ!PopClaim, StockPopInv
<1>6. QED BY <1>1, <1>2, <1>3, <1>4, <1>5 DEF WorkClaims, StockClaims

\* What moves the ends of the rings.
LEMMA EndsMove ==
  ASSUME ControlInv, NEW t \in Threads, Step(t)
  PROVE  /\ workStart' # workStart => /\ WorkPopGoes(t) /\ WQ!PopClaim(t) /\ workStart' = WQ!Succ(workStart)
         /\ workEnd' # workEnd => /\ WorkPushGoes(t) /\ WQ!PushClaim(t) /\ workEnd' = WQ!Succ(workEnd)
         /\ stockStart' # stockStart => /\ TakeGoes(t) /\ SQ!PopClaim(t) /\ stockStart' = WQ!Succ(stockStart)
         /\ stockEnd' # stockEnd => /\ RestockGoes(t) \/ BuildGoes(t)
                                    /\ SQ!PushClaim(t) /\ stockEnd' = WQ!Succ(stockEnd)
<1>1. CASE CallFree(t) \/ Asks(t)
  BY <1>1 DEF CallFree, Asks, workRing, stockRing
<1>2. CASE WorkShape(t)
  <2>1. UNCHANGED stockRing
    BY <1>2 DEF WorkShape, WorkPushGoes, RequeueEnds, GiveEnds, WorkPopGoes, WorkPopFails, WorkPopEnds
  <2>2. CASE WorkPushGoes(t)
    <3>1. workStart' = workStart /\ (workEnd' # workEnd => WQ!PushClaim(t))
      BY <2>2 DEF WorkPushGoes, WorkPushing, WQ!PushCall, WQ!PushRoom, WQ!PushRetry, WQ!PushClaim, WQ!ring
    <3>2. WQ!PushClaim(t) => workEnd' = WQ!Succ(workEnd)
      BY DEF WQ!PushClaim
    <3>3. QED BY <2>1, <2>2, <3>1, <3>2 DEF stockRing
  <2>3. CASE WorkPopGoes(t)
    <3>1. workEnd' = workEnd /\ (workStart' # workStart => WQ!PopClaim(t))
      BY <2>3 DEF WorkPopGoes, WorkPopping, WQ!PopCall, WQ!PopSome, WQ!PopClaim, WQ!PopLoad, WQ!ring
    <3>2. WQ!PopClaim(t) => workStart' = WQ!Succ(workStart)
      BY DEF WQ!PopClaim
    <3>3. QED BY <2>1, <2>3, <3>1, <3>2 DEF stockRing
  <2>4. CASE RequeueEnds(t) \/ GiveEnds(t) \/ WorkPopFails(t) \/ WorkPopEnds(t)
    BY <2>1, <2>4 DEF stockRing, RequeueEnds, GiveEnds, WorkPopFails, WorkPopEnds, WorkPushed, WorkNone, WQ!PushFull,
       WQ!PushStore, WQ!PopEmpty, WQ!PopLost, WQ!PopClear, WQ!ring
  <2>5. QED BY <1>2, <2>2, <2>3, <2>4 DEF WorkShape
<1>3. CASE StockShape(t)
  <2>1. UNCHANGED workRing
    BY <1>3 DEF StockShape, RestockGoes, RestockEnds, BuildGoes, BuildEnds, TakeGoes, TakeFails, TakeEnds
  <2>2. CASE RestockGoes(t) \/ BuildGoes(t)
    <3>1. stockStart' = stockStart /\ (stockEnd' # stockEnd => SQ!PushClaim(t))
      BY <2>2 DEF RestockGoes, BuildGoes, StockPushing, SQ!PushCall, SQ!PushRoom, SQ!PushRetry, SQ!PushClaim, SQ!ring
    <3>2. SQ!PushClaim(t) => stockEnd' = WQ!Succ(stockEnd)
      BY SameSlots DEF SQ!PushClaim
    <3>3. QED BY <2>1, <2>2, <3>1, <3>2 DEF workRing
  <2>3. CASE TakeGoes(t)
    <3>1. stockEnd' = stockEnd /\ (stockStart' # stockStart => SQ!PopClaim(t))
      BY <2>3 DEF TakeGoes, StockPopping, SQ!PopCall, SQ!PopSome, SQ!PopClaim, SQ!PopLoad, SQ!ring
    <3>2. SQ!PopClaim(t) => stockStart' = WQ!Succ(stockStart)
      BY SameSlots DEF SQ!PopClaim
    <3>3. QED BY <2>1, <2>3, <3>1, <3>2 DEF workRing
  <2>4. CASE RestockEnds(t) \/ BuildEnds(t) \/ TakeFails(t) \/ TakeEnds(t)
    BY <2>1, <2>4 DEF workRing, RestockEnds, BuildEnds, TakeFails, TakeEnds, StockPushed, StockNone, SQ!PushFull,
       SQ!PushStore, SQ!PopEmpty, SQ!PopLost, SQ!PopClear, SQ!ring
  <2>5. QED BY <1>3, <2>2, <2>3, <2>4 DEF StockShape
<1>4. QED BY <1>1, <1>2, <1>3, StepShape

\* The pop of push() finds start where its check found it.
LEMMA StockPopStep ==
  ASSUME ControlInv, Calm, OwnInv, NEW t \in Threads, Step(t)
  PROVE  StockPopInv'
<1> USE DEF ControlInv, OwnInv, TypeInv
<1> SUFFICES ASSUME NEW u \in Threads, pc'[u] = "ops", at'[u] \in {"pop_check", "pop_cas", "pop_load", "pop_clear"}
             PROVE  /\ at'[u] \in {"pop_check", "pop_cas"} => idx'[u] = stockStart'
                    /\ at'[u] = "pop_cas" => stockStart' # stockEnd'
                    /\ at'[u] \in {"pop_load", "pop_clear"} => WQ!Succ(idx'[u]) = stockStart'
  <2>1. (\A i : WQ!Succ(i))' = (\A i : WQ!Succ(i)) /\ SRm' = {u \in Threads : at'[u] \in {"pop_load", "pop_clear"} /\ pc'[u] = "ops"}
    BY DEF SRm, WQ!Succ
  <2>2. QED BY <2>1 DEF StockPopInv, WQ!Succ
<1>1. CASE pc'[u] = pc[u] /\ at'[u] = at[u] /\ idx'[u] = idx[u]
  <2>1. Op(u, "push")
    BY <1>1 DEF CallInv, WQ!PopLabels
  <2>2. CASE stockStart' = stockStart /\ stockEnd' = stockEnd
    BY <1>1, <2>2 DEF StockPopInv, SRm
  <2>3. CASE stockStart' # stockStart
    <3>1. TakeGoes(t) /\ SQ!PopClaim(t)
      BY <2>3, EndsMove
    <3>2. Op(t, "push") /\ at[t] = "pop_cas" /\ at'[t] = "pop_load"
      BY <3>1 DEF TakeGoes, SQ!PopClaim, SQ!Goto
    <3>3. t = u
      BY <2>1, <3>2, OnePuller DEF Pulling
    <3>4. QED BY <1>1, <3>2, <3>3
  <2>4. CASE stockStart' = stockStart /\ stockEnd' # stockEnd
    <3>1. (RestockGoes(t) \/ BuildGoes(t)) /\ SQ!PushClaim(t) /\ stockEnd' = WQ!Succ(stockEnd)
      BY <2>4, EndsMove
    <3>2. pc[t] \in {"restock", "ops"}
      BY <3>1 DEF RestockGoes, BuildGoes, Op
    <3>3. stockEnd' # stockStart
      BY <3>1, <3>2, Claims DEF StockClaims
    <3>4. QED BY <1>1, <2>4, <3>3 DEF StockPopInv, SRm
  <2>5. QED BY <2>2, <2>3, <2>4
<1>2. CASE ~(pc'[u] = pc[u] /\ at'[u] = at[u] /\ idx'[u] = idx[u])
  <2>1. u = t
    BY <1>2, OthersStay
  <2>2. TakeGoes(t)
    <3>1. ~CallFree(t)
      BY <1>2, <2>1, FreeHolds
    <3>2. ~Asks(t)
      BY <2>1 DEF Asks, EmptyGoes, WQ!EmptyCall, WQ!EmptyTrue, WQ!EmptyFalse, WQ!Goto, WQ!Return
    <3>3. ~RequeueEnds(t) /\ ~WorkPushGoes(t) /\ ~WorkPopGoes(t) /\ ~WorkPopFails(t) /\ ~WorkPopEnds(t)
      BY <2>1 DEF RequeueEnds, WorkPushGoes, WorkPopGoes, WorkPopFails, WorkPopEnds
    <3>4. ~GiveEnds(t)
      BY <2>1 DEF GiveEnds, WorkPushed, WQ!PushFull, WQ!PushStore, WQ!Goto, WQ!Return
    <3>5. ~RestockGoes(t) /\ ~RestockEnds(t) /\ ~TakeEnds(t)
      BY <2>1 DEF RestockGoes, RestockEnds, TakeEnds
    <3>6. ~BuildEnds(t) /\ ~TakeFails(t)
      BY <2>1 DEF BuildEnds, TakeFails, StockPushed, StockNone, SQ!PushFull, SQ!PushStore, SQ!PopEmpty, SQ!PopLost,
         SQ!Goto, SQ!Return
    <3>7. ~BuildGoes(t)
      BY <2>1 DEF BuildGoes, StockPushing, SQ!PushCall, SQ!PushRoom, SQ!PushRetry, SQ!PushClaim, SQ!Goto
    <3>8. QED BY <3>1, <3>2, <3>3, <3>4, <3>5, <3>6, <3>7, StepShape DEF WorkShape, StockShape
  <2>3. pc[t] = "ops" /\ StockPopping(t)
    BY <2>2 DEF TakeGoes, Op
  <2>4. CASE SQ!PopCall(t)
    BY <2>1, <2>4 DEF SQ!PopCall, SQ!Goto, SQ!ring
  <2>5. CASE SQ!PopSome(t)
    <3>1. at[t] = "pop_check" /\ idx[t] # stockEnd /\ UNCHANGED <<stockStart, stockEnd, idx>> /\ at'[t] = "pop_cas"
      BY <2>5 DEF SQ!PopSome, SQ!Goto, SQ!ring
    <3>2. idx[t] = stockStart
      BY <2>3, <3>1 DEF StockPopInv
    <3>3. QED BY <2>1, <3>1, <3>2
  <2>6. CASE SQ!PopClaim(t)
    BY <2>1, <2>6, SameSlots DEF SQ!PopClaim, SQ!Goto
  <2>7. CASE SQ!PopLoad(t)
    <3>1. at[t] = "pop_load" /\ UNCHANGED <<stockStart, stockEnd, idx>> /\ at'[t] = "pop_clear"
      BY <2>7 DEF SQ!PopLoad, SQ!Goto, SQ!ring
    <3>2. WQ!Succ(idx[t]) = stockStart
      BY <2>3, <3>1 DEF StockPopInv, SRm
    <3>3. QED BY <2>1, <3>1, <3>2
  <2>8. QED BY <2>3, <2>4, <2>5, <2>6, <2>7 DEF StockPopping
<1>3. QED BY <1>1, <1>2

\* Where no job waits none goes back into workerQueue.
LEMMA NoRequeue ==
  ASSUME ControlInv, GivePushInv, NobodyWaits, NEW t \in Threads, Step(t), NEW u \in Threads
  PROVE  pc'[u] # "requeue"
<1> USE DEF ControlInv, TypeInv
<1>1. CASE u # t
  BY <1>1, OthersStay DEF GivePushInv
<1>2. CASE u = t
  <2>1. pc[t] # "requeue"
    BY DEF GivePushInv
  <2>2. ~MissGate(t)
    <3>1. ASSUME MissGate(t) PROVE FALSE
      <4>1. pc[t] = "gate" /\ ~Open(Job(t))
        BY <3>1 DEF MissGate, Jump
      <4>2. running[t] \in WorkerSlots /\ slotJob[running[t]] \in Jobs
        BY <4>1, SlotAssumption DEF HandInv, PartsInv, Threads, ClientLabels, SetInv, IsSet
      <4>3. QED BY <4>1, <4>2 DEF Open, Job, NobodyWaits
    <3>2. QED BY <3>1
  <2>3. QED BY <1>2, <2>1, <2>2, StepCases DEF Quiet, Lock, CheckEnabled, Sleep, Wake, Unlock, CheckRunning, Enter,
         PassGate, Finish, Leave, CheckLast, NotifyWait, AddCount, ExecuteAll, WaitLock, WaitCount, WaitSleep,
         WaitWake, WaitOver, StopFlag, StopNotify, Join, Spurious, PopSlot, Restock, Requeue, StockSlot, TakeSlot,
         GiveSlot, CheckEmpty, CheckDrained, WaitEmpty, AskEmpty, Jump, Stay, NextOp
<1>3. QED BY <1>1, <1>2

\* No job waiting, the push of push() finds end where its check found it.
LEMMA GivePushStep ==
  ASSUME ControlInv, Calm, OwnInv, NEW t \in Threads, Step(t)
  PROVE  GivePushInv'
<1> USE DEF ControlInv, OwnInv, TypeInv
<1> SUFFICES ASSUME NobodyWaits, NEW u \in Threads, pc'[u] = "give", at'[u] \in {"push_check", "push_cas"}
             PROVE  idx'[u] = workEnd'
  BY SameProgram, NoRequeue DEF GivePushInv
<1>1. CASE pc'[u] = pc[u] /\ at'[u] = at[u] /\ idx'[u] = idx[u]
  <2>1. idx[u] = workEnd
    BY <1>1 DEF GivePushInv
  <2>2. CASE workEnd' # workEnd
    <3>1. WorkPushGoes(t) /\ WQ!PushClaim(t)
      BY <2>2, EndsMove
    <3>2. pc[t] = "give" /\ at'[t] = "push_store"
      BY <3>1 DEF WorkPushGoes, WQ!PushClaim, WQ!Goto, GivePushInv
    <3>3. t = u
      BY <1>1, <3>2, OnePuller DEF Pulling
    <3>4. QED BY <3>2, <3>3
  <2>3. QED BY <1>1, <2>1, <2>2
<1>2. CASE ~(pc'[u] = pc[u] /\ at'[u] = at[u] /\ idx'[u] = idx[u])
  <2>1. u = t
    BY <1>2, OthersStay
  <2>2. WorkPushGoes(t)
    <3>1. ~CallFree(t)
      BY <1>2, <2>1, FreeHolds
    <3>2. ~Asks(t)
      BY <2>1 DEF Asks, EmptyGoes, WQ!EmptyCall, WQ!EmptyTrue, WQ!EmptyFalse, WQ!Goto, WQ!Return
    <3>3. ~RequeueEnds(t) /\ ~GiveEnds(t) /\ ~WorkPopGoes(t) /\ ~WorkPopFails(t) /\ ~WorkPopEnds(t)
      BY <2>1 DEF RequeueEnds, GiveEnds, WorkPopGoes, WorkPopFails, WorkPopEnds
    <3>4. ~RestockGoes(t) /\ ~RestockEnds(t) /\ ~BuildGoes(t) /\ ~BuildEnds(t) /\ ~TakeGoes(t) /\ ~TakeFails(t)
      BY <2>1 DEF RestockGoes, RestockEnds, BuildGoes, BuildEnds, TakeGoes, TakeFails, Op
    <3>5. ~TakeEnds(t)
      BY <2>1 DEF TakeEnds, SQ!PopClear, SQ!Goto, SQ!Return
    <3>6. QED BY <3>1, <3>2, <3>3, <3>4, <3>5, StepShape DEF WorkShape, StockShape
  <2>3. pc[t] = "give" /\ \E s : WorkPushing(t, s)
    BY <2>1, <2>2 DEF WorkPushGoes
  <2>4. WQ!PushRoom(t) \/ WQ!PushRetry(t) \/ \E s : WQ!PushCall(t, s)
    BY <2>1, <2>3 DEF WorkPushing, WQ!PushClaim, WQ!Goto
  <2>5. CASE WQ!PushRoom(t)
    <3>1. at[t] = "push_check" /\ UNCHANGED <<workEnd, idx>>
      BY <2>5 DEF WQ!PushRoom, WQ!ring
    <3>2. idx[t] = workEnd
      BY <2>3, <3>1 DEF GivePushInv
    <3>3. QED BY <2>1, <3>1, <3>2
  <2>6. CASE WQ!PushRetry(t) \/ \E s : WQ!PushCall(t, s)
    BY <2>1, <2>6 DEF WQ!PushRetry, WQ!PushCall, WQ!ring
  <2>7. QED BY <2>4, <2>5, <2>6
<1>3. QED BY <1>1, <1>2

\* Only workers are in the loop of update().
LEMMA LoopIsWorkers ==
  ASSUME ControlInv, NEW t \in Threads, pc[t] \in {"pop", "restock", "requeue"}
  PROVE  t \in Workers
BY DEF ControlInv, PartsInv, Threads, ClientLabels

\* What a thread in a call of pop() in PopSlot has just done.
LEMMA WorkPopMoves ==
  ASSUME ControlInv, NEW t \in Threads, Step(t), pc'[t] = "pop",
         at'[t] \in {"pop_check", "pop_cas", "pop_load", "pop_clear"},
         ~(pc'[t] = pc[t] /\ at'[t] = at[t] /\ idx'[t] = idx[t])
  PROVE  WorkPopGoes(t)
<1> USE DEF ControlInv, TypeInv
<1>1. ~CallFree(t)
  BY FreeHolds
<1>2. ~Asks(t)
  BY DEF Asks, EmptyGoes, WQ!EmptyCall, WQ!EmptyTrue, WQ!EmptyFalse, WQ!Goto, WQ!Return
<1>3. ~WorkPushGoes(t) /\ ~GiveEnds(t) /\ ~WorkPopFails(t) /\ ~WorkPopEnds(t)
  BY DEF WorkPushGoes, GiveEnds, WorkPopFails, WorkPopEnds
<1>4. ~RequeueEnds(t)
  BY DEF RequeueEnds, WorkPushed, WQ!PushFull, WQ!PushStore, WQ!Goto, WQ!Return
<1>5. ~RestockGoes(t) /\ ~BuildGoes(t) /\ ~BuildEnds(t) /\ ~TakeGoes(t) /\ ~TakeFails(t) /\ ~TakeEnds(t)
  BY DEF RestockGoes, BuildGoes, BuildEnds, TakeGoes, TakeFails, TakeEnds, Op
<1>6. ~RestockEnds(t)
  BY DEF RestockEnds, StockPushed, SQ!PushFull, SQ!PushStore, SQ!Goto, SQ!Return
<1>7. QED BY <1>1, <1>2, <1>3, <1>4, <1>5, <1>6, StepShape DEF WorkShape, StockShape

\* The one worker finds start of workerQueue where its check found it ...
LEMMA WorkPopStep ==
  ASSUME ControlInv, Calm, OwnInv, NEW t \in Threads, Step(t)
  PROVE  WorkPopInv'
<1> USE DEF ControlInv, OwnInv, TypeInv
<1> SUFFICES ASSUME OneWorker, NEW u \in Threads, pc'[u] = "pop",
                    at'[u] \in {"pop_check", "pop_cas", "pop_load", "pop_clear"}
             PROVE  /\ at'[u] \in {"pop_check", "pop_cas"} => idx'[u] = workStart'
                    /\ at'[u] = "pop_cas" => workStart' # workEnd'
                    /\ at'[u] \in {"pop_load", "pop_clear"} => WQ!Succ(idx'[u]) = workStart'
  <2>1. WRm' = {u \in Threads : at'[u] \in {"pop_load", "pop_clear"} /\ pc'[u] = "pop"}
    BY DEF WRm
  <2>2. QED BY <2>1, SameProgram DEF WorkPopInv, WQ!Succ
<1>1. CASE pc'[u] = pc[u] /\ at'[u] = at[u] /\ idx'[u] = idx[u]
  <2>1. u \in Workers
    BY <1>1, LoopIsWorkers
  <2>2. CASE workStart' = workStart /\ workEnd' = workEnd
    BY <1>1, <2>2 DEF WorkPopInv, WRm
  <2>3. CASE workStart' # workStart
    <3>1. WorkPopGoes(t) /\ WQ!PopClaim(t)
      BY <2>3, EndsMove
    <3>2. pc[t] = "pop" /\ at[t] = "pop_cas" /\ at'[t] = "pop_load"
      BY <3>1 DEF WorkPopGoes, WQ!PopClaim, WQ!Goto
    <3>3. t \in Workers
      BY <3>2, LoopIsWorkers
    <3>4. t = u
      BY <1>1, <2>1, <3>2, <3>3, OneRuns
    <3>5. QED BY <1>1, <3>2, <3>4
  <2>4. CASE workStart' = workStart /\ workEnd' # workEnd
    <3>1. WorkPushGoes(t) /\ WQ!PushClaim(t) /\ workEnd' = WQ!Succ(workEnd)
      BY <2>4, EndsMove
    <3>2. pc[t] \in {"requeue", "give"}
      BY <3>1 DEF WorkPushGoes
    <3>3. workEnd' # workStart
      BY <3>1, <3>2, Claims DEF WorkClaims
    <3>4. QED BY <1>1, <2>4, <3>3 DEF WorkPopInv, WRm
  <2>5. QED BY <2>2, <2>3, <2>4
<1>2. CASE ~(pc'[u] = pc[u] /\ at'[u] = at[u] /\ idx'[u] = idx[u])
  <2>1. u = t
    BY <1>2, OthersStay
  <2>2. WorkPopGoes(t)
    BY <1>2, <2>1, WorkPopMoves
  <2>3. pc[t] = "pop" /\ WorkPopping(t)
    BY <2>2 DEF WorkPopGoes
  <2>4. CASE WQ!PopCall(t)
    BY <2>1, <2>4 DEF WQ!PopCall, WQ!Goto, WQ!ring
  <2>5. CASE WQ!PopSome(t)
    <3>1. at[t] = "pop_check" /\ idx[t] # workEnd /\ UNCHANGED <<workStart, workEnd, idx>> /\ at'[t] = "pop_cas"
      BY <2>5 DEF WQ!PopSome, WQ!Goto, WQ!ring
    <3>2. idx[t] = workStart
      BY <2>3, <3>1 DEF WorkPopInv
    <3>3. QED BY <2>1, <3>1, <3>2
  <2>6. CASE WQ!PopClaim(t)
    BY <2>1, <2>6 DEF WQ!PopClaim, WQ!Goto
  <2>7. CASE WQ!PopLoad(t)
    <3>1. at[t] = "pop_load" /\ UNCHANGED <<workStart, workEnd, idx>> /\ at'[t] = "pop_clear"
      BY <2>7 DEF WQ!PopLoad, WQ!Goto, WQ!ring
    <3>2. WQ!Succ(idx[t]) = workStart
      BY <2>3, <3>1 DEF WorkPopInv, WRm
    <3>3. QED BY <2>1, <3>1, <3>2
  <2>8. QED BY <2>3, <2>4, <2>5, <2>6, <2>7 DEF WorkPopping
<1>3. QED BY <1>1, <1>2

\* What a thread at its check or its claim in Restock has just done.
LEMMA RestockMoves ==
  ASSUME ControlInv, NEW t \in Threads, Step(t), pc'[t] = "restock", at'[t] \in {"push_check", "push_cas"},
         ~(pc'[t] = pc[t] /\ at'[t] = at[t] /\ idx'[t] = idx[t])
  PROVE  /\ pc[t] = "restock" /\ UNCHANGED stockRing
         /\ \/ idx'[t] = stockEnd
            \/ at[t] = "push_check" /\ idx'[t] = idx[t]
<1> USE DEF ControlInv, TypeInv
<1>1. ~CallFree(t)
  BY FreeHolds
<1>2. ~Asks(t)
  BY DEF Asks, EmptyGoes, WQ!EmptyCall, WQ!EmptyTrue, WQ!EmptyFalse, WQ!Goto, WQ!Return
<1>3. ~WorkPushGoes(t) /\ ~RequeueEnds(t) /\ ~GiveEnds(t) /\ ~WorkPopGoes(t) /\ ~WorkPopFails(t) /\ ~WorkPopEnds(t)
  BY DEF WorkPushGoes, RequeueEnds, GiveEnds, WorkPopGoes, WorkPopFails, WorkPopEnds
<1>4. ~RestockEnds(t) /\ ~BuildGoes(t) /\ ~BuildEnds(t) /\ ~TakeGoes(t) /\ ~TakeFails(t) /\ ~TakeEnds(t)
  BY DEF RestockEnds, BuildGoes, BuildEnds, TakeGoes, TakeFails, TakeEnds, Op
<1>5. RestockGoes(t)
  BY <1>1, <1>2, <1>3, <1>4, StepShape DEF WorkShape, StockShape
<1>6. pc[t] = "restock" /\ \E s : StockPushing(t, s)
  BY <1>5 DEF RestockGoes
<1>7. SQ!PushRoom(t) \/ SQ!PushRetry(t) \/ \E s : SQ!PushCall(t, s)
  BY <1>6 DEF StockPushing, SQ!PushClaim, SQ!Goto
<1>8. QED BY <1>6, <1>7 DEF SQ!PushRoom, SQ!PushRetry, SQ!PushCall, SQ!ring, stockRing

\* ... and end of stockQueue.
LEMMA RestockOneStep ==
  ASSUME ControlInv, Calm, OwnInv, NEW t \in Threads, Step(t)
  PROVE  RestockOne'
<1> USE DEF OwnInv
<1> SUFFICES ASSUME OneWorker, NEW u \in Threads, pc'[u] = "restock", at'[u] \in {"push_check", "push_cas"}
             PROVE  idx'[u] = stockEnd'
  BY SameProgram DEF RestockOne
<1>1. CASE pc'[u] = pc[u] /\ at'[u] = at[u] /\ idx'[u] = idx[u]
  <2>1. idx[u] = stockEnd /\ u \in Workers
    BY <1>1, LoopIsWorkers DEF RestockOne
  <2>2. CASE stockEnd' # stockEnd
    <3>1. (RestockGoes(t) \/ BuildGoes(t)) /\ SQ!PushClaim(t)
      BY <2>2, EndsMove
    <3>2. ~BuildGoes(t)
      BY <1>1, <2>1, ClientAt, BuildAlone DEF BuildGoes
    <3>3. pc[t] = "restock" /\ at'[t] = "push_store"
      BY <3>1, <3>2 DEF RestockGoes, SQ!PushClaim, SQ!Goto, ControlInv, TypeInv
    <3>4. t = u
      BY <1>1, <2>1, <3>3, LoopIsWorkers, OneRuns
    <3>5. QED BY <3>3, <3>4
  <2>3. QED BY <1>1, <2>1, <2>2
<1>2. CASE ~(pc'[u] = pc[u] /\ at'[u] = at[u] /\ idx'[u] = idx[u])
  <2>1. u = t
    BY <1>2, OthersStay
  <2>2. pc[t] = "restock" /\ stockEnd' = stockEnd /\ (idx'[t] = stockEnd \/ (at[t] = "push_check" /\ idx'[t] = idx[t]))
    BY <1>2, <2>1, RestockMoves DEF stockRing
  <2>3. QED BY <2>1, <2>2 DEF RestockOne
<1>3. QED BY <1>1, <1>2

-----------------------------------------------------------------------------
(* Rings that are not lapped.                                              *)

\* Where the jobs do not push the client alone is inside push(), and no slot is requeued.
LEMMA FewAlone ==
  ASSUME ControlInv, BuildInv, GivePushInv, FewPushes, NEW t \in Threads
  PROVE  /\ pc[t] # "requeue"
         /\ pc[t] = "give" \/ Op(t, "push") => t = Main
         /\ ToGive \subseteq Pushes(Client) /\ ToTake \subseteq Pushes(Client)
         /\ IsFiniteSet(ToGive) /\ IsFiniteSet(ToTake)
<1>1. pc[t] # "requeue"
  BY DEF FewPushes, GivePushInv
<1>2. ASSUME pc[t] = "give" \/ Op(t, "push") PROVE t = Main
  BY <1>2, PullingWorker DEF Pulling, FewPushes, Threads
<1>3. ToGive \subseteq Pushes(Client) /\ ToTake \subseteq Pushes(Client)
  BY DEF ToGive, ToTake
<1>4. IsFiniteSet(ToGive) /\ IsFiniteSet(ToTake)
  BY <1>3, ClientFacts, FS_Subset DEF ControlInv
<1>5. QED BY <1>1, <1>2, <1>3, <1>4

\* What the client still has to give shrinks with each claim of an index of workerQueue ...
LEMMA GivesLess ==
  ASSUME ControlInv, BuildInv, GivePushInv, FewPushes, NEW t \in Threads, Step(t)
  PROVE  /\ ToGive' \subseteq ToGive
         /\ WorkPushGoes(t) /\ WQ!PushClaim(t) =>
              next[Main] \in ToGive /\ ToGive' \subseteq ToGive \ {next[Main]}
<1> USE DEF ControlInv, TypeInv
<1>1. /\ next[Main] \in Nat /\ Main \in Threads /\ Pushes(Client)' = Pushes(Client)
      /\ \A k \in Pushes(Client) : k \in Nat
      /\ next'[Main] = next[Main] \/ next'[Main] = next[Main] + 1
  BY SameProgram, ClientFacts, ClientGoesOn DEF Threads
<1> PICK n, n2 : n = next[Main] /\ n2 = next'[Main]
  OBVIOUS
<1>2. /\ ToGive = {k \in Pushes(Client) : k > n \/ (k = n /\ ~(pc[Main] = "give" /\ at[Main] = "push_store"))}
      /\ ToGive' = {k \in Pushes(Client) : k > n2 \/ (k = n2 /\ ~(pc'[Main] = "give" /\ at'[Main] = "push_store"))}
  BY <1>1 DEF ToGive
<1>3. ASSUME pc[Main] = "give", at[Main] = "push_store", n2 = n PROVE pc'[Main] = "give" /\ at'[Main] = "push_store"
  <2>1. CASE t # Main
    BY <1>1, <1>3, <2>1, OthersStay
  <2>2. CASE t = Main
    <3>1. ~WorkPushGoes(t)
      BY <1>3, <2>2 DEF WorkPushGoes, WorkPushing, WQ!PushCall, WQ!PushRoom, WQ!PushRetry, WQ!PushClaim
    <3>2. ~GiveEnds(t)
      <4>1. GiveEnds(t) => n2 = n + 1
        BY <1>1, <2>2 DEF GiveEnds
      <4>2. QED BY <1>1, <1>3, <4>1
    <3>3. CallFree(t)
      BY <1>3, <2>2, <3>1, <3>2, StepShape DEF WorkShape, StockShape, RequeueEnds, WorkPopGoes, WorkPopFails,
         WorkPopEnds, RestockGoes, RestockEnds, BuildGoes, BuildEnds, TakeGoes, TakeFails, TakeEnds, Asks, Op
    <3>4. QED BY <1>3, <2>2, <3>3, FreeHolds
  <2>3. QED BY <2>1, <2>2
<1>4. ToGive' \subseteq ToGive
  BY <1>1, <1>2, <1>3
<1>5. ASSUME WorkPushGoes(t), WQ!PushClaim(t)
      PROVE  next[Main] \in ToGive /\ ToGive' \subseteq ToGive \ {next[Main]}
  <2>1. pc[t] = "give" /\ at[t] = "push_cas" /\ at'[t] = "push_store" /\ pc'[t] = pc[t] /\ next'[t] = next[t]
    BY <1>5, FewAlone DEF WorkPushGoes, WQ!PushClaim, WQ!Goto
  <2>2. t = Main
    BY <2>1, FewAlone
  <2>3. n \in Pushes(Client)
    BY <2>1, <2>2, ClientAt
  <2>4. QED BY <1>1, <1>2, <1>4, <2>1, <2>2, <2>3
<1>6. QED BY <1>4, <1>5

\* ... and what it has to take with each claim of one of stockQueue.
LEMMA TakesLess ==
  ASSUME ControlInv, BuildInv, GivePushInv, FewPushes, NEW t \in Threads, Step(t)
  PROVE  /\ ToTake' \subseteq ToTake
         /\ TakeGoes(t) /\ SQ!PopClaim(t) =>
              next[Main] \in ToTake /\ ToTake' \subseteq ToTake \ {next[Main]}
<1> USE DEF ControlInv, TypeInv
<1>1. /\ next[Main] \in Nat /\ Main \in Threads /\ Pushes(Client)' = Pushes(Client)
      /\ \A k \in Pushes(Client) : k \in Nat
      /\ next'[Main] = next[Main] \/ next'[Main] = next[Main] + 1
  BY SameProgram, ClientFacts, ClientGoesOn DEF Threads
<1> PICK n, n2 : n = next[Main] /\ n2 = next'[Main]
  OBVIOUS
<1>2. /\ ToTake = {k \in Pushes(Client) : k > n \/ (k = n /\ pc[Main] = "ops" /\ at[Main] \notin {"pop_load", "pop_clear"})}
      /\ ToTake' = {k \in Pushes(Client) : k > n2 \/ (k = n2 /\ pc'[Main] = "ops" /\ at'[Main] \notin {"pop_load", "pop_clear"})}
  BY <1>1 DEF ToTake
<1>3. ASSUME at[Main] \in {"pop_load", "pop_clear"}, n2 = n, pc'[Main] = "ops"
      PROVE  at'[Main] \in {"pop_load", "pop_clear"}
  <2>1. CASE t # Main
    BY <1>1, <1>3, <2>1, OthersStay
  <2>2. CASE t = Main
    <3>1. pc[t] = "ops"
      BY <1>1, <1>3, <2>2, ClientGoesOn
    <3>2. Op(t, "push")
      BY <1>1, <1>3, <2>2, <3>1 DEF CallInv, WQ!PopLabels
    <3>3. ~TakeFails(t) /\ ~TakeEnds(t)
      <4>1. TakeFails(t) => n2 = n + 1
        BY <1>1, <2>2 DEF TakeFails
      <4>2. TakeEnds(t) => pc'[Main] = "give"
        BY <2>2 DEF TakeEnds
      <4>3. QED BY <1>1, <1>3, <4>1, <4>2
    <3>4. CASE TakeGoes(t)
      BY <1>3, <2>2, <3>4 DEF TakeGoes, StockPopping, SQ!PopCall, SQ!PopSome, SQ!PopClaim, SQ!PopLoad, SQ!Goto
    <3>5. CASE ~TakeGoes(t)
      <4>1. CallFree(t)
        BY <1>3, <2>2, <3>1, <3>2, <3>3, <3>5, StepShape DEF WorkShape, StockShape, WorkPushGoes, RequeueEnds,
           GiveEnds, WorkPopGoes, WorkPopFails, WorkPopEnds, RestockGoes, RestockEnds, BuildGoes, BuildEnds, Asks, Op
      <4>2. QED BY <1>3, <2>2, <4>1, FreeHolds
    <3>6. QED BY <3>4, <3>5
  <2>3. QED BY <2>1, <2>2
<1>4. ToTake' \subseteq ToTake
  <2>1. n2 = n /\ pc'[Main] = "ops" => pc[Main] = "ops"
    BY <1>1, ClientGoesOn
  <2>2. QED BY <1>1, <1>2, <1>3, <2>1
<1>5. ASSUME TakeGoes(t), SQ!PopClaim(t)
      PROVE  next[Main] \in ToTake /\ ToTake' \subseteq ToTake \ {next[Main]}
  <2>1. Op(t, "push") /\ at[t] = "pop_cas" /\ at'[t] = "pop_load" /\ next'[t] = next[t]
    BY <1>5 DEF TakeGoes, SQ!PopClaim, SQ!Goto
  <2>2. t = Main
    BY <2>1, FewAlone
  <2>3. n \in Pushes(Client) /\ pc[Main] = "ops"
    BY <2>1, <2>2, ClientAt
  <2>4. QED BY <1>1, <1>2, <1>4, <2>1, <2>2, <2>3
<1>6. QED BY <1>4, <1>5

\* A set that loses a member is smaller.
LEMMA Fewer ==
  ASSUME NEW S, NEW T, IsFiniteSet(S), T \subseteq S
  PROVE  /\ Cardinality(S) \in Nat /\ Cardinality(T) \in Nat /\ Cardinality(T) <= Cardinality(S)
         /\ \A x \in S : T \subseteq S \ {x} => Cardinality(T) + 1 <= Cardinality(S)
<1>1. IsFiniteSet(T) /\ Cardinality(S) \in Nat /\ Cardinality(T) \in Nat /\ Cardinality(T) <= Cardinality(S)
  BY FS_Subset, FS_CardinalityType
<1>2. ASSUME NEW x \in S, T \subseteq S \ {x} PROVE Cardinality(T) + 1 <= Cardinality(S)
  <2>1. IsFiniteSet(S \ {x}) /\ Cardinality(S \ {x}) = Cardinality(S) - 1
    BY FS_RemoveElement
  <2>2. Cardinality(T) <= Cardinality(S \ {x})
    BY <1>2, <2>1, FS_Subset
  <2>3. QED BY <1>1, <2>1, <2>2
<1>3. QED BY <1>1, <1>2

\* So workerQueue never wraps ...
LEMMA WorkLapStep ==
  ASSUME ControlInv, Calm, OwnInv, NEW t \in Threads, Step(t)
  PROVE  WorkLap'
<1> USE DEF ControlInv, OwnInv
<1> SUFFICES ASSUME FewPushes
             PROVE  /\ workStart' <= workEnd' /\ workEnd' + Cardinality(ToGive') < NbWorker
                    /\ \A u \in Threads : pc'[u] = "pop" =>
                         /\ at'[u] = "pop_check" => idx'[u] <= workEnd'
                         /\ at'[u] = "pop_cas" => idx'[u] < workEnd'
                         /\ at'[u] \in {"pop_load", "pop_clear"} => idx'[u] < workStart'
  BY SameProgram DEF WorkLap, WRm
<1> PICK n, s, e, s2, e2, c, c2 :
      /\ n = NbWorker /\ s = workStart /\ e = workEnd /\ s2 = workStart' /\ e2 = workEnd'
      /\ c = Cardinality(ToGive) /\ c2 = Cardinality(ToGive')
  OBVIOUS
<1>1. /\ n \in Nat \ {0} /\ s \in 0 .. n - 1 /\ e \in 0 .. n - 1 /\ s <= e /\ e + c < n
      /\ \A i \in 0 .. n - 1 : WQ!Succ(i) = IF i + 1 = n THEN 0 ELSE i + 1
  BY SlotAssumption, SuccIs DEF WorkLap, TypeInv, WQ!RingTypeOK, WQ!Slots
<1>2. c \in Nat /\ c2 \in Nat /\ c2 <= c
  BY FewAlone, GivesLess, Fewer
<1>3. e2 = e \/ (e2 = e + 1 /\ e + 1 + c2 < n)
  <2>1. CASE e2 # e
    <3>1. WorkPushGoes(t) /\ WQ!PushClaim(t) /\ e2 = WQ!Succ(e)
      BY <2>1, EndsMove
    <3>2. c2 + 1 <= c
      BY <3>1, FewAlone, GivesLess, Fewer
    <3>3. e + 1 + c2 < n
      BY <1>1, <1>2, <3>2
    <3>4. e + 1 < n
      BY <1>1, <1>2, <3>3
    <3>5. QED BY <1>1, <3>1, <3>3, <3>4
  <2>2. QED BY <2>1
<1>4. s2 = s \/ (s2 = s + 1 /\ s < e /\ e2 = e)
  <2>1. CASE s2 # s
    <3>1. WorkPopGoes(t) /\ WQ!PopClaim(t) /\ s2 = WQ!Succ(s)
      BY <2>1, EndsMove
    <3>2. pc[t] = "pop" /\ at[t] = "pop_cas" /\ idx[t] = s /\ e2 = e
      BY <3>1 DEF WorkPopGoes, WQ!PopClaim
    <3>3. s < e
      BY <3>2 DEF WorkLap
    <3>4. QED BY <1>1, <3>1, <3>2, <3>3
  <2>2. QED BY <2>1
<1>5. s2 <= e2 /\ e2 + c2 < n /\ s2 >= s /\ e2 >= e /\ s2 \in Nat /\ e2 \in Nat
  BY <1>1, <1>2, <1>3, <1>4
<1>6. ASSUME NEW u \in Threads, pc'[u] = "pop"
      PROVE  /\ at'[u] = "pop_check" => idx'[u] <= e2
             /\ at'[u] = "pop_cas" => idx'[u] < e2
             /\ at'[u] \in {"pop_load", "pop_clear"} => idx'[u] < s2
  <2>0. idx[u] \in 0 .. n - 1
    BY DEF TypeInv, WQ!Slots
  <2>1. CASE pc'[u] = pc[u] /\ at'[u] = at[u] /\ idx'[u] = idx[u]
    <3>1. /\ at[u] = "pop_check" => idx[u] <= e
          /\ at[u] = "pop_cas" => idx[u] < e
          /\ at[u] \in {"pop_load", "pop_clear"} => idx[u] < s
      BY <1>6, <2>1 DEF WorkLap, WRm
    <3> PICK i : i = idx[u] /\ i = idx'[u]
      BY <2>1
    <3>2. i <= e => i <= e2
      BY <1>1, <1>5, <2>0
    <3>3. i < e => i < e2
      BY <1>1, <1>5, <2>0
    <3>4. i < s => i < s2
      BY <1>1, <1>5, <2>0
    <3>5. QED BY <2>1, <3>1, <3>2, <3>3, <3>4
  <2>2. CASE ~(pc'[u] = pc[u] /\ at'[u] = at[u] /\ idx'[u] = idx[u]) /\ at'[u] \in {"pop_check", "pop_cas", "pop_load", "pop_clear"}
    <3>1. u = t
      BY <2>2, OthersStay
    <3>2. WorkPopGoes(t)
      BY <1>6, <2>2, <3>1, WorkPopMoves
    <3>3. pc[t] = "pop" /\ WorkPopping(t)
      BY <3>2 DEF WorkPopGoes
    <3> PICK i, i2 : i = idx[t] /\ i2 = idx'[t]
      OBVIOUS
    <3> USE DEF TypeInv
    <3>4. CASE WQ!PopCall(t)
      <4>1. at'[t] = "pop_check" /\ i2 = s /\ e2 = e
        BY <3>4 DEF WQ!PopCall, WQ!Goto, WQ!ring
      <4>2. i2 <= e2
        BY <1>1, <4>1
      <4>3. QED BY <3>1, <4>1, <4>2
    <3>5. CASE WQ!PopSome(t)
      <4>1. at[t] = "pop_check" /\ i # e /\ e2 = e /\ i2 = i /\ at'[t] = "pop_cas"
        BY <3>5 DEF WQ!PopSome, WQ!Goto, WQ!ring
      <4>2. i <= e
        BY <3>3, <4>1 DEF WorkLap
      <4>3. i2 < e2
        BY <1>1, <2>0, <3>1, <4>1, <4>2
      <4>4. QED BY <3>1, <4>1, <4>3
    <3>6. CASE WQ!PopClaim(t)
      <4>1. at[t] = "pop_cas" /\ i = s /\ s2 = WQ!Succ(i) /\ at'[t] = "pop_load" /\ i2 = i
        BY <3>6 DEF WQ!PopClaim, WQ!Goto
      <4>2. i < e
        BY <3>3, <4>1 DEF WorkLap
      <4>3. i2 < s2
        BY <1>1, <4>1, <4>2
      <4>4. QED BY <3>1, <4>1, <4>3
    <3>7. CASE WQ!PopLoad(t)
      <4>1. at[t] = "pop_load" /\ s2 = s /\ i2 = i /\ at'[t] = "pop_clear"
        BY <3>7 DEF WQ!PopLoad, WQ!Goto, WQ!ring
      <4>2. i < s
        BY <3>3, <4>1 DEF WorkLap, WRm
      <4>3. QED BY <3>1, <4>1, <4>2
    <3>8. QED BY <3>3, <3>4, <3>5, <3>6, <3>7 DEF WorkPopping
  <2>3. QED BY <2>1, <2>2
<1>7. QED BY <1>5, <1>6

\* The step that ends the constructor is the push that finds the ring full.
LEMMA BuildOver ==
  ASSUME ControlInv, BuildInv, NEW t \in Threads, Step(t), next[Main] <= NbWorker, next'[Main] > NbWorker
  PROVE  UNCHANGED stockRing /\ stockEnd = NbWorker - 1
<1> USE DEF ControlInv, TypeInv
<1> PICK n, x, x2 : n = NbWorker /\ x = next[Main] /\ x2 = next'[Main]
  OBVIOUS
<1>0. n \in Nat \ {0} /\ x \in Nat \ {0} /\ (x2 = x \/ x2 = x + 1) /\ Main \in Threads
  BY SlotAssumption, ClientGoesOn DEF Threads
<1>1. x = n /\ x2 = n + 1 /\ x2 # x
  BY <1>0
<1>2. t = Main
  BY <1>0, <1>1, OthersStay
<1>3. pc[t] = "ops" /\ Op(t, "stock") /\ ~Op(t, "push")
  BY <1>2, ClientAt DEF BuildInv, Op
<1>4. next' # next
  BY <1>0, <1>1
<1>5. BuildEnds(t)
  BY <1>3, <1>4, StepShape DEF WorkShape, StockShape, WorkPushGoes, RequeueEnds, GiveEnds, WorkPopGoes,
     WorkPopFails, WorkPopEnds, RestockGoes, RestockEnds, BuildGoes, TakeGoes, TakeFails, TakeEnds, Asks, CallFree
<1>6. at[t] # "push_store"
  <2>1. ~(x < n)
    BY <1>0, <1>1
  <2>2. QED BY <1>2, <2>1 DEF BuildInv
<1>7. SQ!PushFull(t)
  BY <1>5, <1>6 DEF BuildEnds, StockPushed, SQ!PushStore
<1>8. stockEnd = x - 1
  BY <1>2, <1>6 DEF BuildInv
<1>9. QED BY <1>1, <1>7, <1>8 DEF SQ!PushFull, SQ!ring, stockRing

\* ... and stockQueue is pushed to for one lap.
LEMMA StockLapStep ==
  ASSUME ControlInv, Calm, OwnInv, NEW t \in Threads, Step(t)
  PROVE  StockLap'
<1> USE DEF ControlInv, OwnInv
<1> SUFFICES ASSUME FewPushes
             PROVE  /\ stockStart' + Cardinality(ToTake') < NbWorker
                    /\ next'[Main] > NbWorker => stockEnd' = NbWorker - 1 \/ stockEnd' + 1 <= stockStart'
                    /\ \A u \in Threads : pc'[u] = "restock" /\ at'[u] \in {"push_check", "push_cas"} =>
                         idx'[u] = NbWorker - 1 \/ (idx'[u] <= stockEnd' /\ stockEnd' # NbWorker - 1)
  BY SameProgram DEF StockLap
<1> PICK n, s, e, s2, e2, c, c2 :
      /\ n = NbWorker /\ s = stockStart /\ e = stockEnd /\ s2 = stockStart' /\ e2 = stockEnd'
      /\ c = Cardinality(ToTake) /\ c2 = Cardinality(ToTake')
  OBVIOUS
<1>1. /\ n \in Nat \ {0} /\ s \in 0 .. n - 1 /\ e \in 0 .. n - 1 /\ s + c < n
      /\ next[Main] > n => e = n - 1 \/ e + 1 <= s
  <2>1. SQ!Slots = 0 .. n - 1
    BY SameSlots DEF WQ!Slots
  <2>2. QED BY <2>1, SlotAssumption DEF StockLap, TypeInv, SQ!RingTypeOK
<1>2. \A i \in 0 .. n - 1 : WQ!Succ(i) = IF i + 1 = n THEN 0 ELSE i + 1
  BY SuccIs DEF WQ!Slots
<1>3. c \in Nat /\ c2 \in Nat /\ c2 <= c
  BY FewAlone, TakesLess, Fewer
<1>4. s2 = s \/ (s2 = s + 1 /\ s + 1 + c2 < n /\ e2 = e)
  <2>1. CASE s2 # s
    <3>1. TakeGoes(t) /\ SQ!PopClaim(t) /\ s2 = WQ!Succ(s)
      BY <2>1, EndsMove
    <3>2. c2 + 1 <= c /\ e2 = e
      BY <3>1, FewAlone, TakesLess, Fewer DEF SQ!PopClaim
    <3>3. s + 1 + c2 < n
      BY <1>1, <1>3, <3>2
    <3>4. s + 1 < n
      BY <1>1, <1>3, <3>3
    <3>5. QED BY <1>1, <1>2, <3>1, <3>2, <3>3, <3>4
  <2>2. QED BY <2>1
<1>5. CASE next[Main] > n
  <2>1. e = n - 1 \/ e + 1 <= s
    BY <1>1, <1>5
  <2>2. e2 = e \/ (s2 = s /\ e2 # s /\ e2 = IF e + 1 = n THEN 0 ELSE e + 1)
    <3>1. CASE e2 # e
      <4>1. (RestockGoes(t) \/ BuildGoes(t)) /\ SQ!PushClaim(t) /\ e2 = WQ!Succ(e)
        BY <3>1, EndsMove
      <4>2. pc[t] \in {"restock", "ops"}
        BY <4>1 DEF RestockGoes, BuildGoes, Op
      <4>3. e2 # s
        BY <4>1, <4>2, Claims DEF StockClaims
      <4>4. s2 = s
        BY <1>4, <3>1
      <4>5. QED BY <1>1, <1>2, <4>1, <4>3, <4>4
    <3>2. QED BY <3>1
  <2>3. e2 = n - 1 \/ e2 + 1 <= s2
    BY <1>1, <1>3, <1>4, <2>1, <2>2
  <2>4. e # n - 1 => e2 >= e /\ e2 # n - 1
    BY <1>1, <1>3, <1>4, <2>1, <2>2
  <2>5. ASSUME NEW u \in Threads, pc'[u] = "restock", at'[u] \in {"push_check", "push_cas"}
        PROVE  idx'[u] = n - 1 \/ (idx'[u] <= e2 /\ e2 # n - 1)
    <3>0. idx[u] \in 0 .. n - 1
      BY DEF TypeInv, WQ!Slots
    <3> PICK i, i2 : i = idx[u] /\ i2 = idx'[u]
      OBVIOUS
    <3>1. CASE pc'[u] = pc[u] /\ at'[u] = at[u] /\ idx'[u] = idx[u]
      <4>1. i = n - 1 \/ (i <= e /\ e # n - 1)
        BY <2>5, <3>1 DEF StockLap
      <4>2. i <= e /\ e # n - 1 => i <= e2 /\ e2 # n - 1
        BY <1>1, <2>2, <2>4, <3>0
      <4>3. QED BY <3>1, <4>1, <4>2
    <3>2. CASE ~(pc'[u] = pc[u] /\ at'[u] = at[u] /\ idx'[u] = idx[u])
      <4>1. u = t
        BY <3>2, OthersStay
      <4>2. /\ pc[t] = "restock" /\ e2 = e
            /\ \/ i2 = e
               \/ at[t] = "push_check" /\ i2 = i
        BY <2>5, <3>2, <4>1, RestockMoves DEF stockRing
      <4>3. CASE i2 = e
        BY <1>1, <4>2, <4>3
      <4>4. CASE at[t] = "push_check" /\ i2 = i
        <5>1. i = n - 1 \/ (i <= e /\ e # n - 1)
          BY <4>1, <4>2, <4>4 DEF StockLap
        <5>2. QED BY <4>2, <4>4, <5>1
      <4>5. QED BY <4>2, <4>3, <4>4
    <3>3. QED BY <3>1, <3>2
  <2>6. s2 + c2 < n
    BY <1>1, <1>3, <1>4
  <2>7. QED BY <2>3, <2>5, <2>6
<1>6. CASE ~(next[Main] > n)
  <2>1. next[Main] \in Nat /\ next'[Main] \in Nat
    BY ClientGoesOn DEF TypeInv, Threads
  <2>2. next[Main] <= n
    BY <1>1, <1>6, <2>1
  <2>3. next'[Main] > n => e2 = n - 1
    BY <2>2, BuildOver DEF stockRing
  <2>4. \A u \in Threads : pc'[u] # "restock"
    <3>1. \A u \in Threads : (pc[u] # "restock" /\ pc[u] # "ops") \/ u = Main
      BY <2>2, BuildAlone DEF Threads
    <3>2. pc[Main] = "ops"
      BY <2>2 DEF BuildInv
    <3>3. ASSUME pc'[t] = "restock" PROVE FALSE
      <4>0. PartsInv'
        BY PartsStep
      <4>1. t # Main
        BY <3>3, <4>0 DEF PartsInv, ClientLabels
      <4>2. pc[t] # "ops" /\ pc[t] # "restock"
        BY <3>1, <4>1
      <4>3. QED BY <3>3, <4>2, StepCases DEF TypeInv, Quiet, Lock, CheckEnabled, Sleep, Wake, Unlock, CheckRunning,
         Enter, PassGate, MissGate, Finish, Leave, CheckLast, NotifyWait, AddCount, ExecuteAll, WaitLock, WaitCount,
         WaitSleep, WaitWake, WaitOver, StopFlag, StopNotify, Join, Spurious, PopSlot, Restock, Requeue, StockSlot,
         TakeSlot, GiveSlot, CheckEmpty, CheckDrained, WaitEmpty, AskEmpty, Jump, Stay, NextOp
    <3>4. QED BY <3>1, <3>2, <3>3, OthersStay
  <2>5. s2 + c2 < n
    BY <1>1, <1>3, <1>4
  <2>6. QED BY <2>3, <2>4, <2>5
<1>7. QED BY <1>5, <1>6

-----------------------------------------------------------------------------
(* A slot goes from one place to the next.                                 *)

\* A push of a slot never finds the ring full where no job waits.
LEMMA NoneIsLost ==
  ASSUME ControlInv, Calm, OwnInv, NEW t \in Threads
  PROVE  /\ RestockEnds(t) => SQ!PushStore(t)
         /\ NobodyWaits => ~RequeueEnds(t) /\ (GiveEnds(t) => WQ!PushStore(t))
<1> USE DEF OwnInv
<1>1. ASSUME RestockEnds(t) PROVE SQ!PushStore(t)
  <2>1. pc[t] = "restock" /\ (SQ!PushFull(t) \/ SQ!PushStore(t))
    BY <1>1 DEF RestockEnds, StockPushed
  <2>2. ASSUME SQ!PushFull(t) PROVE FALSE
    <3>1. at[t] = "push_check" /\ WQ!Succ(idx[t]) = stockStart
      BY <2>2, SameSlots DEF SQ!PushFull
    <3>2. WQ!Succ(stockEnd) # stockStart
      BY <2>1, <3>1, StockRoom
    <3>3. CASE OneWorker
      BY <2>1, <3>1, <3>2, <3>3 DEF RestockOne
    <3>4. CASE FewPushes
      <4> PICK n, i, s, e : n = NbWorker /\ i = idx[t] /\ s = stockStart /\ e = stockEnd
        OBVIOUS
      <4>1. i = n - 1 \/ (i <= e /\ e # n - 1)
        BY <2>1, <3>1, <3>4 DEF StockLap
      <4>2. n \in Nat \ {0} /\ i \in 0 .. n - 1 /\ s \in 0 .. n - 1 /\ e \in 0 .. n - 1
        BY SlotAssumption, SameSlots DEF ControlInv, TypeInv, SQ!RingTypeOK, WQ!Slots
      <4>3. e = n - 1 \/ e + 1 <= s
        <5>1. t \in Workers
          BY <2>1, LoopIsWorkers
        <5>2. next[Main] > n
          <6>1. next[Main] \in Nat
            BY DEF ControlInv, TypeInv, Threads
          <6>2. ~(next[Main] <= n)
            BY <2>1, <5>1, BuildAlone
          <6>3. QED BY <4>2, <6>1, <6>2
        <5>3. QED BY <3>4, <5>2 DEF StockLap
      <4>4. /\ s = IF i + 1 = n THEN 0 ELSE i + 1
            /\ s # IF e + 1 = n THEN 0 ELSE e + 1
        BY <3>1, <3>2, <4>2, SuccIs DEF WQ!Slots
      <4>5. QED BY <4>1, <4>2, <4>3, <4>4
    <3>5. QED BY <3>3, <3>4 DEF Calm
  <2>3. QED BY <2>1, <2>2
<1>2. ASSUME NobodyWaits PROVE ~RequeueEnds(t)
  BY <1>2 DEF GivePushInv, RequeueEnds
<1>3. ASSUME NobodyWaits, GiveEnds(t) PROVE WQ!PushStore(t)
  <2>1. pc[t] = "give" /\ (WQ!PushFull(t) \/ WQ!PushStore(t))
    BY <1>3 DEF GiveEnds, WorkPushed
  <2>2. ASSUME WQ!PushFull(t) PROVE FALSE
    <3>1. at[t] = "push_check" /\ WQ!Succ(idx[t]) = workStart
      BY <2>2 DEF WQ!PushFull
    <3>2. WQ!Succ(workEnd) # workStart
      BY <2>1, <3>1, WorkRoom
    <3>3. QED BY <1>3, <2>1, <3>1, <3>2 DEF GivePushInv
  <2>3. QED BY <2>1, <2>2
<1>4. QED BY <1>1, <1>2, <1>3

\* Slot s goes from the first place to the second, or some slots are lost.
Moved(s, k, i, l, j) ==
  /\ Has(k, i, s) /\ ~Has(k, i, s)' /\ Has(l, j, s)'
  /\ \A x \in WorkerSlots : \A m \in Kinds : \A p \in Spots :
       /\ Has(m, p, x)' => Has(m, p, x) \/ (x = s /\ m = l /\ p = j)
       /\ Has(m, p, x) => Has(m, p, x)' \/ x = s
Shrunk ==
  \A x \in WorkerSlots : \A m \in Kinds : \A p \in Spots :
    /\ Has(m, p, x)' => Has(m, p, x)
    /\ NobodyWaits /\ x \in Fit /\ Has(m, p, x) => Has(m, p, x)'

\* Where a slot is after a step.
LEMMA PrimedHas ==
  ASSUME NEW k, NEW i, NEW s
  PROVE  Has(k, i, s)' <=> \/ k = "work" /\ i \in WQ!Slots /\ workBuf'[i] = s
                           \/ k = "stock" /\ i \in WQ!Slots /\ stockBuf'[i] = s
                           \/ k = "running" /\ i \in Threads /\ running'[i] = s
                           \/ k = "hand" /\ i \in Threads /\ hand'[i] = s
                           \/ k = "new" /\ i = s /\ s >= next'[Main]
<1>1. (WQ!Slots)' = WQ!Slots /\ SQ!Slots = WQ!Slots
  BY SameSlots DEF WQ!Slots
<1>2. QED BY <1>1 DEF Has, SQ!Slots, WQ!Slots

\* Once the constructor is through no slot is new any more.
LEMMA NewStays ==
  ASSUME ControlInv, BuildInv, NEW t \in Threads, Step(t), ~BuildEnds(t)
  PROVE  \A s \in WorkerSlots : s >= next'[Main] <=> s >= next[Main]
<1> PICK n, x, x2 : n = NbWorker /\ x = next[Main] /\ x2 = next'[Main]
  OBVIOUS
<1>0. n \in Nat \ {0} /\ x \in Nat \ {0} /\ (x2 = x \/ x2 = x + 1) /\ Main \in Threads /\ WorkerSlots = 1 .. n
  BY SlotAssumption, ClientGoesOn DEF Threads, WorkerSlots, ControlInv, TypeInv
<1>1. CASE x2 = x
  BY <1>0, <1>1
<1>2. CASE x2 = x + 1 /\ x <= n
  <2>0. x2 # x
    BY <1>0, <1>2
  <2>1. next' # next /\ x2 # x
    BY <2>0
  <2>2. t = Main
    BY <1>0, <2>1, OthersStay
  <2>3. pc[t] = "ops" /\ Op(t, "stock") /\ ~Op(t, "push")
    BY <1>2, <2>2, ClientAt DEF BuildInv, Op
  <2>4. QED BY <2>1, <2>3, StepShape DEF WorkShape, StockShape, WorkPushGoes, RequeueEnds, GiveEnds, WorkPopGoes,
     WorkPopFails, WorkPopEnds, RestockGoes, RestockEnds, BuildGoes, TakeGoes, TakeFails, TakeEnds, Asks, CallFree
<1>3. CASE x2 = x + 1 /\ x > n
  BY <1>0, <1>3
<1>4. QED BY <1>0, <1>1, <1>2, <1>3

\* The steps that move a slot, by what they do to the members and locals.
LEMMA StoreMoves ==
  ASSUME NEW s \in WorkerSlots, NEW j \in WQ!Slots, NEW t \in Threads, NEW k \in {"running", "hand"}, Has(k, t, s),
         IF k = "running" THEN DOMAIN running = Threads /\ running' = [running EXCEPT ![t] = Null] /\ hand' = hand
         ELSE DOMAIN hand = Threads /\ hand' = [hand EXCEPT ![t] = Null] /\ running' = running,
         NEW l \in {"work", "stock"},
         IF l = "work" THEN /\ DOMAIN workBuf = WQ!Slots /\ workBuf[j] = Null
                            /\ workBuf' = [workBuf EXCEPT ![j] = s] /\ stockBuf' = stockBuf
         ELSE /\ DOMAIN stockBuf = WQ!Slots /\ stockBuf[j] = Null
              /\ stockBuf' = [stockBuf EXCEPT ![j] = s] /\ workBuf' = workBuf,
         \A x \in WorkerSlots : x >= next'[Main] <=> x >= next[Main]
  PROVE  Moved(s, k, t, l, j)
<1> USE PrimedHas
<1>0. Null \notin WorkerSlots
  BY SlotAssumption
<1>1. ~Has(k, t, s)'
  BY <1>0
<1>2. Has(l, j, s)'
  BY <1>0
<1>3. ASSUME NEW x \in WorkerSlots, NEW m, NEW p, Has(m, p, x)' PROVE Has(m, p, x) \/ (x = s /\ m = l /\ p = j)
  <2>1. CASE m = "work"
    BY <1>3, <2>1 DEF Has
  <2>2. CASE m = "stock"
    BY <1>3, <2>2, SameSlots DEF Has
  <2>3. CASE m = "running"
    BY <1>0, <1>3, <2>3 DEF Has
  <2>4. CASE m = "hand"
    BY <1>0, <1>3, <2>4 DEF Has
  <2>5. CASE m = "new"
    BY <1>3, <2>5 DEF Has
  <2>6. QED BY <1>3, <2>1, <2>2, <2>3, <2>4, <2>5
<1>4. ASSUME NEW x \in WorkerSlots, NEW m, NEW p, Has(m, p, x), x # s PROVE Has(m, p, x)'
  <2>1. CASE m = "work"
    BY <1>0, <1>4, <2>1 DEF Has
  <2>2. CASE m = "stock"
    BY <1>0, <1>4, <2>2, SameSlots DEF Has
  <2>3. CASE m = "running"
    BY <1>0, <1>4, <2>3 DEF Has
  <2>4. CASE m = "hand"
    BY <1>0, <1>4, <2>4 DEF Has
  <2>5. CASE m = "new"
    BY <1>4, <2>5 DEF Has
  <2>6. QED BY <1>4, <2>1, <2>2, <2>3, <2>4, <2>5 DEF Has
<1>5. QED BY <1>1, <1>2, <1>3, <1>4 DEF Moved

\* A removal that clears its index moves the slot from the ring to the thread.
LEMMA ClearMoves ==
  ASSUME NEW s \in WorkerSlots, NEW j \in WQ!Slots, NEW t \in Threads, NEW k \in {"running", "hand"},
         IF k = "running" THEN DOMAIN running = Threads /\ running[t] = Null
                               /\ running' = [running EXCEPT ![t] = s] /\ hand' = hand
         ELSE DOMAIN hand = Threads /\ hand[t] = Null /\ hand' = [hand EXCEPT ![t] = s] /\ running' = running,
         NEW l \in {"work", "stock"}, Has(l, j, s),
         IF l = "work" THEN /\ DOMAIN workBuf = WQ!Slots
                            /\ workBuf' = [workBuf EXCEPT ![j] = Null] /\ stockBuf' = stockBuf
         ELSE /\ DOMAIN stockBuf = WQ!Slots
              /\ stockBuf' = [stockBuf EXCEPT ![j] = Null] /\ workBuf' = workBuf,
         \A x \in WorkerSlots : x >= next'[Main] <=> x >= next[Main]
  PROVE  Moved(s, l, j, k, t)
<1> USE PrimedHas
<1>0. Null \notin WorkerSlots
  BY SlotAssumption
<1>1. ~Has(l, j, s)'
  BY <1>0
<1>2. Has(k, t, s)'
  BY <1>0
<1>3. ASSUME NEW x \in WorkerSlots, NEW m, NEW p, Has(m, p, x)' PROVE Has(m, p, x) \/ (x = s /\ m = k /\ p = t)
  <2>1. CASE m = "work"
    BY <1>0, <1>3, <2>1 DEF Has
  <2>2. CASE m = "stock"
    BY <1>0, <1>3, <2>2, SameSlots DEF Has
  <2>3. CASE m = "running"
    BY <1>3, <2>3 DEF Has
  <2>4. CASE m = "hand"
    BY <1>3, <2>4 DEF Has
  <2>5. CASE m = "new"
    BY <1>3, <2>5 DEF Has
  <2>6. QED BY <1>3, <2>1, <2>2, <2>3, <2>4, <2>5
<1>4. ASSUME NEW x \in WorkerSlots, NEW m, NEW p, Has(m, p, x), x # s PROVE Has(m, p, x)'
  <2>0. \A y \in WorkerSlots : y # Null
    BY <1>0
  <2>1. CASE m = "work"
    <3>1. p \in WQ!Slots /\ workBuf[p] = x
      BY <1>4, <2>1 DEF Has
    <3>2. p = j /\ l = "work" => x = s
      BY <3>1 DEF Has
    <3>3. workBuf'[p] = x
      BY <1>4, <3>1, <3>2
    <3>4. QED BY <2>1, <3>1, <3>3
  <2>2. CASE m = "stock"
    <3>1. p \in WQ!Slots /\ stockBuf[p] = x
      BY <1>4, <2>2, SameSlots DEF Has
    <3>2. p = j /\ l = "stock" => x = s
      BY <3>1 DEF Has
    <3>3. stockBuf'[p] = x
      BY <1>4, <3>1, <3>2
    <3>4. QED BY <2>2, <3>1, <3>3
  <2>3. CASE m = "running"
    BY <2>0, <1>4, <2>3 DEF Has
  <2>4. CASE m = "hand"
    BY <2>0, <1>4, <2>4 DEF Has
  <2>5. CASE m = "new"
    BY <1>4, <2>5 DEF Has
  <2>6. QED BY <1>4, <2>1, <2>2, <2>3, <2>4, <2>5 DEF Has
<1>5. QED BY <1>1, <1>2, <1>3, <1>4 DEF Moved

\* The steps that move no slot.
LEMMA NoneMoves ==
  ASSUME \A i \in WQ!Slots : workBuf'[i] = workBuf[i] /\ stockBuf'[i] = stockBuf[i],
         \A u \in Threads : running'[u] = running[u] \/ (running'[u] = Null /\ ~NobodyWaits),
         \A u \in Threads : hand'[u] = hand[u] \/ (hand'[u] = Null /\ ~NobodyWaits),
         \A x \in WorkerSlots : x >= next'[Main] => x >= next[Main],
         \A x \in Fit : x >= next[Main] => x >= next'[Main]
  PROVE  Shrunk
<1> USE PrimedHas
<1>0. Null \notin WorkerSlots
  BY SlotAssumption
<1>1. ASSUME NEW x \in WorkerSlots, NEW m, NEW p, Has(m, p, x)' PROVE Has(m, p, x)
  <2>1. CASE m \in {"work", "stock"}
    BY <1>1, <2>1, SameSlots DEF Has
  <2>2. CASE m \in {"running", "hand"}
    BY <1>0, <1>1, <2>2 DEF Has
  <2>3. CASE m = "new"
    BY <1>1, <2>3 DEF Has
  <2>4. QED BY <1>1, <2>1, <2>2, <2>3
<1>2. ASSUME NobodyWaits, NEW x \in Fit, NEW m, NEW p, Has(m, p, x) PROVE Has(m, p, x)'
  <2>1. CASE m \in {"work", "stock"}
    BY <1>2, <2>1, SameSlots DEF Has
  <2>2. CASE m \in {"running", "hand"}
    BY <1>2, <2>2 DEF Has
  <2>3. CASE m = "new"
    BY <1>2, <2>3 DEF Has
  <2>4. QED BY <1>2, <2>1, <2>2, <2>3 DEF Has
<1>3. QED BY <1>1, <1>2 DEF Shrunk

\* Every step moves one slot that fits from a place to another, or none.
LEMMA SlotMoves ==
  ASSUME ControlInv, Calm, OwnInv, NEW t \in Threads, Step(t)
  PROVE  \/ Shrunk
         \/ \E s \in Fit : \E k, l \in Kinds : \E i, j \in Spots : Moved(s, k, i, l, j)
<1> USE DEF ControlInv, TypeInv, OwnInv, WQ!RingTypeOK, SQ!RingTypeOK
<1> PICK h, v : h = idx[t] /\ v = val[t]
  OBVIOUS
<1>0. /\ DOMAIN running = Threads /\ DOMAIN hand = Threads
      /\ DOMAIN workBuf = WQ!Slots /\ DOMAIN stockBuf = WQ!Slots /\ h \in WQ!Slots
      /\ WQ!Slots \subseteq Spots /\ Threads \subseteq Spots /\ WorkerSlots \subseteq Spots /\ Null \notin WorkerSlots
  BY SameSlots, SlotAssumption DEF Spots
<1>1. ASSUME NEW s \in WorkerSlots, NEW k \in Kinds \ {"new"}, NEW i \in Spots, NEW l \in Kinds, NEW j \in Spots,
             Moved(s, k, i, l, j)
      PROVE  \E x \in Fit : \E m, q \in Kinds : \E p, r \in Spots : Moved(x, m, p, q, r)
  <2>1. s \in Fit
    BY <1>1, OneHolds DEF Moved
  <2>2. QED BY <1>1, <2>1
<1>2. ~BuildEnds(t) => \A x \in WorkerSlots : x >= next'[Main] <=> x >= next[Main]
  BY NewStays
<1>3. \A x \in Fit : x \in WorkerSlots
  BY SlotAssumption DEF Fit, WorkerSlots
<1>4. CASE BuildEnds(t)
  <2> PICK n, x, x2 : n = NbWorker /\ x = next[Main] /\ x2 = next'[Main]
    OBVIOUS
  <2>1. /\ t = Main /\ Op(t, "stock") /\ x2 = x + 1 /\ StockPushed(t) /\ x \in Nat \ {0} /\ n \in Nat \ {0}
        /\ UNCHANGED <<workBuf, running, hand>> /\ x <= n /\ Fit = 1 .. n - 1 /\ WorkerSlots = 1 .. n /\ x \in WorkerSlots
    <3>1. t = Main /\ Op(t, "stock") /\ StockPushed(t) /\ UNCHANGED <<workBuf, running, hand>>
      BY <1>4, ClientAt DEF BuildEnds, workRing, Places2
    <3>2. x2 = x + 1 /\ x \in Nat \ {0}
      BY <1>4, <3>1 DEF BuildEnds
    <3>3. x <= n /\ x \in WorkerSlots
      BY <3>1, ClientAt
    <3>4. QED BY <3>1, <3>2, <3>3, SlotAssumption DEF Fit, WorkerSlots
  <2>2. CASE SQ!PushFull(t)
    <3>1. UNCHANGED stockRing /\ at[t] = "push_check" /\ at'[t] = "idle"
      BY <2>2 DEF SQ!PushFull, SQ!ring, stockRing, SQ!Return, SQ!Goto
    <3>2. stockEnd = x - 1
      BY <2>1, <3>1 DEF BuildInv
    <3>3. x2 <= n => stockEnd' = x2 - 1
      <4>1. BuildInv'
        BY BuildStep
      <4>2. QED BY <2>1, <3>1, <4>1 DEF BuildInv
    <3>4. x = n
      <4>1. stockEnd' = stockEnd
        BY <3>1 DEF stockRing
      <4>2. QED BY <2>1, <3>2, <3>3, <4>1
    <3>5. /\ \A y \in WorkerSlots : y >= next'[Main] => y >= next[Main]
          /\ \A y \in Fit : y >= next[Main] => y >= next'[Main]
      BY <2>1, <3>4
    <3>6. stockBuf' = stockBuf
      BY <3>1 DEF stockRing
    <3>7. QED BY <2>1, <3>5, <3>6, NoneMoves
  <2>3. CASE SQ!PushStore(t)
    <3>1. at[t] = "push_store" /\ stockBuf' = [stockBuf EXCEPT ![h] = v]
      BY <2>3 DEF SQ!PushStore
    <3>2. v = x /\ stockBuf[h] = Null
      <4>1. t \in SSt /\ pc[t] = "ops"
        BY <2>1, <3>1 DEF SSt, Op
      <4>2. QED BY <3>1, <4>1 DEF ValInv, StockOK, RingOK, WQ!PushLabels
    <3>3. x \in Fit
      <4>1. x < n
        BY <2>1, <3>1 DEF BuildInv
      <4>2. QED BY <2>1, <4>1
    <3>4. \A y \in WorkerSlots : y >= x2 <=> y >= x /\ y # x
      BY <2>1
    <3>5. Moved(x, "new", x, "stock", h)
      <4> USE PrimedHas
      <4>1. Has("new", x, x) /\ ~Has("new", x, x)' /\ Has("stock", h, x)'
        <5>1. x >= x /\ ~(x >= x2)
          BY <2>1
        <5>2. stockBuf'[h] = x
          BY <1>0, <3>1, <3>2
        <5>3. Has("new", x, x)
          BY <5>1 DEF Has
        <5> HIDE DEF ControlInv, TypeInv, OwnInv, WQ!RingTypeOK, SQ!RingTypeOK
        <5>4. ASSUME Has("new", x, x)' PROVE FALSE
          <6>1. x >= next'[Main]
            BY ONLY <5>4, PrimedHas
          <6>2. QED BY <5>1, <6>1
        <5>5. Has("stock", h, x)'
          BY ONLY <1>0, <5>2, PrimedHas
        <5>6. QED BY <5>3, <5>4, <5>5
      <4>2. ASSUME NEW y \in WorkerSlots, NEW m, NEW p, Has(m, p, y)' PROVE Has(m, p, y) \/ (y = x /\ m = "stock" /\ p = h)
        <5>1. CASE m \in {"work", "running", "hand"}
          BY <2>1, <4>2, <5>1 DEF Has
        <5>2. CASE m = "stock"
          BY <1>0, <3>1, <3>2, <4>2, <5>2, SameSlots DEF Has
        <5>3. CASE m = "new"
          BY <3>4, <4>2, <5>3 DEF Has
        <5>4. QED BY <4>2, <5>1, <5>2, <5>3
      <4>3. ASSUME NEW y \in WorkerSlots, NEW m, NEW p, Has(m, p, y), y # x PROVE Has(m, p, y)'
        <5>1. CASE m \in {"work", "running", "hand"}
          BY <2>1, <4>3, <5>1 DEF Has
        <5>2. CASE m = "stock"
          BY <1>0, <3>1, <3>2, <4>3, <5>2, SameSlots DEF Has
        <5>3. CASE m = "new"
          BY <3>4, <4>3, <5>3 DEF Has
        <5>4. QED BY <4>3, <5>1, <5>2, <5>3 DEF Has
      <4>4. QED BY <4>1, <4>2, <4>3 DEF Moved
    <3>6. QED BY <1>0, <2>1, <3>3, <3>5 DEF Kinds
  <2>4. QED BY <2>1, <2>2, <2>3 DEF StockPushed
<1>5. CASE /\ ~BuildEnds(t)
           /\ \/ CallFree(t) \/ Asks(t) \/ WorkPushGoes(t) \/ WorkPopGoes(t) \/ WorkPopFails(t) \/ RestockGoes(t)
              \/ BuildGoes(t) \/ TakeGoes(t) \/ TakeFails(t)
  <2>1. UNCHANGED <<workBuf, stockBuf, running, hand>>
    <3>1. CASE CallFree(t) \/ Asks(t)
      BY <3>1 DEF CallFree, Asks, workRing, stockRing, Places2
    <3>2. CASE WorkPushGoes(t) \/ WorkPopGoes(t) \/ WorkPopFails(t)
      BY <3>2 DEF WorkPushGoes, WorkPopGoes, WorkPopFails, WorkPushing, WorkPopping, WorkNone, stockRing, Places2,
         WQ!PushCall, WQ!PushRoom, WQ!PushRetry, WQ!PushClaim, WQ!PopCall, WQ!PopSome, WQ!PopClaim, WQ!PopLoad,
         WQ!PopEmpty, WQ!PopLost, WQ!ring
    <3>3. CASE RestockGoes(t) \/ BuildGoes(t) \/ TakeGoes(t) \/ TakeFails(t)
      BY <3>3 DEF RestockGoes, BuildGoes, TakeGoes, TakeFails, StockPushing, StockPopping, StockNone, workRing, Places2,
         SQ!PushCall, SQ!PushRoom, SQ!PushRetry, SQ!PushClaim, SQ!PopCall, SQ!PopSome, SQ!PopClaim, SQ!PopLoad,
         SQ!PopEmpty, SQ!PopLost, SQ!ring
    <3>4. QED BY <1>5, <3>1, <3>2, <3>3
  <2>2. \A x \in WorkerSlots : x >= next'[Main] <=> x >= next[Main]
    BY <1>2, <1>5
  <2>3. QED BY <1>3, <2>1, <2>2, NoneMoves
<1>6. CASE ~BuildEnds(t) /\ (RequeueEnds(t) \/ GiveEnds(t) \/ RestockEnds(t))
  <2>0. \A x \in WorkerSlots : x >= next'[Main] <=> x >= next[Main]
    BY <1>2, <1>6
  <2>1. PICK k \in {"running", "hand"} :
          /\ k = "running" <=> RequeueEnds(t) \/ RestockEnds(t)
          /\ IF k = "running" THEN running' = [running EXCEPT ![t] = Null] /\ hand' = hand
             ELSE hand' = [hand EXCEPT ![t] = Null] /\ running' = running
    BY <1>6 DEF RequeueEnds, GiveEnds, RestockEnds
  <2>2. CASE WQ!PushStore(t) /\ (RequeueEnds(t) \/ GiveEnds(t))
    <3>1. at[t] = "push_store" /\ workBuf' = [workBuf EXCEPT ![h] = v] /\ UNCHANGED stockRing
      BY <2>2 DEF WQ!PushStore, RequeueEnds, GiveEnds
    <3>2. t \in WSt /\ v \in WorkerSlots /\ at[t] \in WQ!PushLabels
      BY <2>2, <3>1 DEF WSt, RequeueEnds, GiveEnds, CallInv, WQ!PushLabels
    <3>3. workBuf[h] = Null
      BY <3>2 DEF WorkOK, RingOK
    <3>4. Has(k, t, v)
      BY <2>1, <2>2, <3>2 DEF ValInv, Has, RequeueEnds, GiveEnds, RestockEnds
    <3>5. Moved(v, k, t, "work", h)
      <4>1. IF k = "running" THEN DOMAIN running = Threads /\ running' = [running EXCEPT ![t] = Null] /\ hand' = hand
            ELSE DOMAIN hand = Threads /\ hand' = [hand EXCEPT ![t] = Null] /\ running' = running
        BY <1>0, <2>1
      <4>2. /\ DOMAIN workBuf = WQ!Slots /\ workBuf[h] = Null
            /\ workBuf' = [workBuf EXCEPT ![h] = v] /\ stockBuf' = stockBuf
        BY <1>0, <3>1, <3>3 DEF stockRing
      <4>3. h \in WQ!Slots /\ v \in WorkerSlots
        BY <1>0, <3>2
      <4> HIDE DEF ControlInv, TypeInv, OwnInv, WQ!RingTypeOK, SQ!RingTypeOK
      <4>4. QED BY <2>0, <3>4, <4>1, <4>2, <4>3, StoreMoves
    <3>6. QED BY <1>0, <1>1, <3>2, <3>5 DEF Kinds
  <2>3. CASE SQ!PushStore(t) /\ RestockEnds(t)
    <3>1. at[t] = "push_store" /\ stockBuf' = [stockBuf EXCEPT ![h] = v] /\ UNCHANGED workRing
      BY <2>3 DEF SQ!PushStore, RestockEnds
    <3>2. t \in SSt /\ v \in WorkerSlots /\ at[t] \in WQ!PushLabels
      BY <2>3, <3>1 DEF SSt, RestockEnds, CallInv, WQ!PushLabels
    <3>3. stockBuf[h] = Null
      BY <3>2 DEF StockOK, RingOK
    <3>4. Has(k, t, v)
      BY <2>1, <2>3, <3>2 DEF ValInv, Has, RestockEnds
    <3>5. Moved(v, k, t, "stock", h)
      <4>1. IF k = "running" THEN DOMAIN running = Threads /\ running' = [running EXCEPT ![t] = Null] /\ hand' = hand
            ELSE DOMAIN hand = Threads /\ hand' = [hand EXCEPT ![t] = Null] /\ running' = running
        BY <1>0, <2>1
      <4>2. /\ DOMAIN stockBuf = WQ!Slots /\ stockBuf[h] = Null
            /\ stockBuf' = [stockBuf EXCEPT ![h] = v] /\ workBuf' = workBuf
        BY <1>0, <3>1, <3>3 DEF workRing
      <4>3. h \in WQ!Slots /\ v \in WorkerSlots
        BY <1>0, <3>2
      <4> HIDE DEF ControlInv, TypeInv, OwnInv, WQ!RingTypeOK, SQ!RingTypeOK
      <4>4. QED BY <2>0, <3>4, <4>1, <4>2, <4>3, StoreMoves
    <3>6. QED BY <1>0, <1>1, <3>2, <3>5 DEF Kinds
  <2>4. CASE (RequeueEnds(t) \/ GiveEnds(t)) /\ ~WQ!PushStore(t)
    <3>1. WQ!PushFull(t) /\ ~NobodyWaits /\ UNCHANGED stockRing
      BY <2>4, NoneIsLost DEF RequeueEnds, GiveEnds, WorkPushed
    <3>2. UNCHANGED <<workBuf, stockBuf>>
      BY <3>1 DEF WQ!PushFull, WQ!ring, stockRing
    <3>3. \A u \in Threads : /\ running'[u] = running[u] \/ running'[u] = Null
                             /\ hand'[u] = hand[u] \/ hand'[u] = Null
      BY <1>0, <2>1
    <3>4. QED BY <1>3, <2>0, <3>1, <3>2, <3>3, NoneMoves
  <2>5. QED BY <1>6, <2>2, <2>3, <2>4, NoneIsLost
<1>7. CASE ~BuildEnds(t) /\ (WorkPopEnds(t) \/ TakeEnds(t))
  <2>0. \A x \in WorkerSlots : x >= next'[Main] <=> x >= next[Main]
    BY <1>2, <1>7
  <2>1. CASE WorkPopEnds(t)
    <3>1. /\ pc[t] = "pop" /\ at[t] = "pop_clear" /\ workBuf' = [workBuf EXCEPT ![h] = Null] /\ UNCHANGED stockRing
          /\ running' = [running EXCEPT ![t] = v] /\ hand' = hand
      BY <2>1 DEF WQ!PopClear, WorkPopEnds
    <3>2. t \in WLd /\ v \in WorkerSlots
      BY <3>1 DEF WLd, CallInv
    <3>3. Has("work", h, v)
      BY <1>0, <3>2 DEF WorkOK, RingOK, Has
    <3>4. running[t] = Null
      BY <3>1, LoopIsWorkers DEF HandInv
    <3>5. Moved(v, "work", h, "running", t)
      BY <1>0, <2>0, <3>1, <3>2, <3>3, <3>4, ClearMoves DEF stockRing
    <3>6. QED BY <1>0, <1>1, <3>2, <3>5 DEF Kinds
  <2>2. CASE TakeEnds(t)
    <3>1. /\ pc[t] = "ops" /\ at[t] = "pop_clear" /\ stockBuf' = [stockBuf EXCEPT ![h] = Null] /\ UNCHANGED workRing
          /\ hand' = [hand EXCEPT ![t] = v] /\ running' = running
      BY <2>2 DEF SQ!PopClear, TakeEnds, Op
    <3>2. t \in SLd /\ v \in WorkerSlots
      BY <3>1 DEF SLd, CallInv
    <3>3. Has("stock", h, v)
      BY <1>0, <3>2, SameSlots DEF StockOK, RingOK, Has
    <3>4. hand[t] = Null
      BY <3>1 DEF HandInv
    <3>5. Moved(v, "stock", h, "hand", t)
      BY <1>0, <2>0, <3>1, <3>2, <3>3, <3>4, ClearMoves DEF workRing
    <3>6. QED BY <1>0, <1>1, <3>2, <3>5 DEF Kinds
  <2>3. QED BY <1>7, <2>1, <2>2
<1>8. QED BY <1>4, <1>5, <1>6, <1>7, StepShape DEF WorkShape, StockShape

\* So a slot that fits stays in one place, and the last slot out of all.
LEMMA SpotStep ==
  ASSUME ControlInv, Calm, OwnInv, NEW t \in Threads, Step(t)
  PROVE  OneSpot' /\ LastOut' /\ Kept'
<1>0. /\ Spots' = Spots /\ Fit' = Fit /\ Kinds' = Kinds /\ (NobodyWaits' <=> NobodyWaits)
      /\ Fit \subseteq WorkerSlots /\ NbWorker \in WorkerSlots /\ NbWorker \notin Fit
  <2>1. Spots' = Spots
    BY DEF Spots, WQ!Slots
  <2>2. NobodyWaits' <=> NobodyWaits
    BY SameProgram
  <2>3. Fit \subseteq WorkerSlots /\ NbWorker \in WorkerSlots /\ NbWorker \notin Fit
    BY SlotAssumption DEF Fit, WorkerSlots
  <2>4. QED BY <2>1, <2>2, <2>3 DEF Fit, Kinds
<1>1. OneSpot /\ LastOut /\ Kept
  BY DEF OwnInv
<1>2. CASE Shrunk
  <2>1. ASSUME NEW s \in Fit, NEW k \in Kinds, NEW l \in Kinds, NEW i \in Spots, NEW j \in Spots,
               Has(k, i, s)', Has(l, j, s)'
        PROVE  k = l /\ i = j
    <3>1. Has(k, i, s) /\ Has(l, j, s)
      BY <1>0, <1>2, <2>1 DEF Shrunk
    <3>2. QED BY <1>1, <3>1 DEF OneSpot
  <2>2. ASSUME NEW k \in Kinds \ {"new"}, NEW i \in Spots, Has(k, i, NbWorker)' PROVE FALSE
    <3>1. Has(k, i, NbWorker)
      BY <1>0, <1>2, <2>2 DEF Shrunk
    <3>2. QED BY <1>1, <3>1 DEF LastOut
  <2>3. ASSUME NobodyWaits, NEW s \in Fit PROVE \E k \in Kinds : \E i \in Spots : Has(k, i, s)'
    <3>1. PICK k \in Kinds, i \in Spots : Has(k, i, s)
      BY <1>1, <2>3 DEF Kept
    <3>2. Has(k, i, s)'
      BY <1>0, <1>2, <2>3, <3>1 DEF Shrunk
    <3>3. QED BY <3>2
  <2>4. OneSpot'
    BY <1>0, <2>1 DEF OneSpot
  <2>5. LastOut'
    BY <1>0, <2>2 DEF LastOut
  <2>6. Kept'
    BY <1>0, <2>3 DEF Kept
  <2>7. QED BY <2>4, <2>5, <2>6
<1>3. CASE \E s \in Fit : \E k, l \in Kinds : \E i, j \in Spots : Moved(s, k, i, l, j)
  <2> PICK s \in Fit, k \in Kinds, l \in Kinds, i \in Spots, j \in Spots : Moved(s, k, i, l, j)
    BY <1>3
  <2>0. /\ Has(k, i, s) /\ ~Has(k, i, s)' /\ Has(l, j, s)'
        /\ \A x \in WorkerSlots : \A m \in Kinds : \A p \in Spots :
             /\ Has(m, p, x)' => Has(m, p, x) \/ (x = s /\ m = l /\ p = j)
             /\ Has(m, p, x) => Has(m, p, x)' \/ x = s
    BY DEF Moved
  <2>1. ASSUME NEW x \in Fit, NEW m \in Kinds, NEW q \in Kinds, NEW p \in Spots, NEW r \in Spots,
               Has(m, p, x)', Has(q, r, x)'
        PROVE  m = q /\ p = r
    <3>1. CASE x = s
      <4>1. ASSUME NEW y \in Kinds, NEW z \in Spots, Has(y, z, s)' PROVE y = l /\ z = j
        <5>1. Has(y, z, s) => y = k /\ z = i
          BY <1>1, <2>0 DEF OneSpot
        <5>2. QED BY <1>0, <2>0, <4>1, <5>1
      <4>2. QED BY <2>1, <3>1, <4>1
    <3>2. CASE x # s
      <4>1. Has(m, p, x) /\ Has(q, r, x)
        BY <1>0, <2>0, <2>1, <3>2
      <4>2. QED BY <1>1, <4>1 DEF OneSpot
    <3>3. QED BY <3>1, <3>2
  <2>2. ASSUME NEW m \in Kinds \ {"new"}, NEW p \in Spots, Has(m, p, NbWorker)' PROVE FALSE
    <3>1. Has(m, p, NbWorker)
      BY <1>0, <2>0, <2>2
    <3>2. QED BY <1>1, <3>1 DEF LastOut
  <2>3. ASSUME NobodyWaits, NEW x \in Fit PROVE \E m \in Kinds : \E p \in Spots : Has(m, p, x)'
    <3>1. PICK m \in Kinds, p \in Spots : Has(m, p, x)
      BY <1>1, <2>3 DEF Kept
    <3>2. CASE x = s
      BY <2>0, <3>2
    <3>3. CASE x # s
      BY <1>0, <2>0, <3>1, <3>3
    <3>4. QED BY <3>2, <3>3
  <2>4. OneSpot'
    BY <1>0, <2>1 DEF OneSpot
  <2>5. LastOut'
    BY <1>0, <2>2 DEF LastOut
  <2>6. Kept'
    BY <1>0, <2>3 DEF Kept
  <2>7. QED BY <2>4, <2>5, <2>6
<1>4. QED BY <1>2, <1>3, SlotMoves

\* Every step keeps all of it ...
LEMMA OwnStep ==
  ASSUME ControlInv, Calm, OwnInv, NEW t \in Threads, Step(t)
  PROVE  OwnInv' /\ Calm'
<1>1. WorkClaims(t) /\ StockClaims(t)
  BY Claims
<1>2. /\ WorkOK /\ StockOK /\ OneSpot /\ LastOut /\ Kept /\ ValInv /\ CrewInv /\ BuildInv /\ PusherInv
  BY DEF OwnInv
<1>3. WorkOK' /\ StockOK'
  BY <1>1, <1>2, WorkRingStep, StockRingStep
<1>4. OneSpot' /\ LastOut' /\ Kept'
  BY SpotStep
<1>5. ValInv' /\ CrewInv' /\ BuildInv' /\ PusherInv'
  BY <1>2, ValStep, CrewStep, BuildStep, PusherStep
<1>6. StockPopInv' /\ GivePushInv' /\ WorkPopInv' /\ RestockOne' /\ WorkLap' /\ StockLap'
  BY StockPopStep, GivePushStep, WorkPopStep, RestockOneStep, WorkLapStep, StockLapStep
<1>7. Calm'
  BY SameProgram
<1>8. QED BY <1>3, <1>4, <1>5, <1>6, <1>7 DEF OwnInv

\* ... and it holds at first.
LEMMA OwnInit ==
  ASSUME Init, Calm
  PROVE  OwnInv
<1> USE DEF Init
<1>0. /\ Main \in Threads /\ Workers \subseteq Threads /\ Main \notin Workers /\ NbWorker \in Nat \ {0}
      /\ Null \notin WorkerSlots /\ Null \notin Jobs /\ 0 \in WQ!Slots /\ SQ!Slots = WQ!Slots
      /\ Fit \subseteq WorkerSlots
  BY MainAssumption, SlotAssumption, SameSlots DEF Threads, WQ!Slots, Fit, WorkerSlots
<1>1. \A t \in Threads : at[t] = "idle" /\ next[t] = 1 /\ running[t] = Null /\ hand[t] = Null /\ doing[t] = Null
  OBVIOUS
<1>2. \A i \in WQ!Slots : workBuf[i] = Null /\ stockBuf[i] = Null
  BY <1>0 DEF WQ!RingInit, SQ!RingInit
<1>3. workStart = 0 /\ workEnd = 0 /\ stockStart = 0 /\ stockEnd = 0
  BY DEF WQ!RingInit, SQ!RingInit
<1>4. \A t \in Threads : pc[t] \in {"ops", "lock", "done"} /\ (pc[t] = "ops" <=> t = Main)
  <2>1. \A t \in Threads : (t # Main => pc[t] \in {"lock", "done"}) /\ pc[Main] = "ops"
    <3>1. Crew \subseteq Workers
      BY ProgramsAssumption DEF Crew
    <3>2. QED BY <1>0, <3>1
  <2>2. QED BY <1>0, <2>1
<1>5. \A t \in Workers \ Crew : pc[t] = "done"
  BY <1>0
<1>6. \A s \in WorkerSlots : slotJob[s] = Null
  OBVIOUS
<1> HIDE DEF Init
<1>7. ControlInv
  BY ControlInit
<1>8. WorkOK /\ StockOK
  <2>1. WSt = {} /\ WRm = {} /\ WLd = {} /\ SSt = {} /\ SRm = {} /\ SLd = {}
    BY <1>1 DEF WSt, WRm, WLd, SSt, SRm, SLd
  <2>2. Window(0, 0) = {}
    <3>1. \A i \in WQ!Slots : ~(Away(0, i) < Away(0, 0))
      BY <1>0 DEF Away, WQ!Slots
    <3>2. QED BY <3>1 DEF Window
  <2>3. QED BY <1>2, <1>3, <2>1, <2>2 DEF WorkOK, StockOK, RingOK
<1>9. ASSUME NEW k, NEW i, NEW s \in WorkerSlots PROVE Has(k, i, s) => k = "new" /\ i = s
  BY <1>0, <1>1, <1>2 DEF Has
<1>10. OneSpot /\ LastOut
  <2>1. OneSpot
    BY <1>0, <1>9 DEF OneSpot
  <2>2. NbWorker \in WorkerSlots
    BY <1>0 DEF WorkerSlots
  <2>3. QED BY <1>9, <2>1, <2>2 DEF LastOut
<1>11. Kept
  <2>1. \A s \in Fit : s \in Spots /\ Has("new", s, s)
    BY <1>0, <1>1 DEF Spots, Has, Fit
  <2>2. QED BY <2>1 DEF Kept, Kinds
<1>12. ValInv /\ CrewInv
  BY <1>1, <1>5 DEF ValInv, CrewInv, WQ!PushLabels
<1>13. BuildInv
  BY <1>0, <1>1, <1>3, <1>4 DEF BuildInv, WQ!PushLabels
<1>14. PusherInv
  BY <1>0, <1>1, <1>6 DEF PusherInv, Pushers
<1>15. StockPopInv /\ GivePushInv /\ WorkPopInv /\ RestockOne
  BY <1>1, <1>4 DEF StockPopInv, GivePushInv, WorkPopInv, RestockOne, SRm, WRm
<1>16. WorkLap /\ StockLap
  <2> PICK p, g, h, n : p = Cardinality(Pushes(Client)) /\ g = Cardinality(ToGive) /\ h = Cardinality(ToTake) /\ n = NbWorker
    OBVIOUS
  <2>1. p \in Nat /\ g \in Nat /\ h \in Nat /\ g <= p /\ h <= p
    <3>1. IsFiniteSet(Pushes(Client))
      BY <1>7, ClientFacts DEF ControlInv
    <3>2. ToGive \subseteq Pushes(Client) /\ ToTake \subseteq Pushes(Client)
      BY DEF ToGive, ToTake
    <3>3. QED BY <3>1, <3>2, FS_Subset, FS_CardinalityType
  <2>2. FewPushes => 0 + g < n /\ 0 + h < n
    <3>1. FewPushes => p < n
      BY DEF FewPushes
    <3>2. QED BY <1>0, <2>1, <3>1
  <2>3. ~(next[Main] > NbWorker)
    BY <1>0, <1>1
  <2>4. \A t \in Threads : pc[t] # "pop" /\ pc[t] # "restock"
    BY <1>4
  <2>5. WorkLap
    BY <1>3, <2>2, <2>4 DEF WorkLap
  <2>6. StockLap
    BY <1>3, <2>2, <2>3, <2>4 DEF StockLap
  <2>7. QED BY <2>5, <2>6
<1>17. QED BY <1>8, <1>10, <1>11, <1>12, <1>13, <1>14, <1>15, <1>16 DEF OwnInv

\* Where nothing changes, nothing does.
LEMMA OwnStays ==
  ASSUME OwnInv, Calm, UNCHANGED vars
  PROVE  OwnInv' /\ Calm'
<1>1. /\ program' = program /\ workBuf' = workBuf /\ workStart' = workStart /\ workEnd' = workEnd
      /\ stockBuf' = stockBuf /\ stockStart' = stockStart /\ stockEnd' = stockEnd /\ at' = at /\ idx' = idx /\ val' = val
      /\ pc' = pc /\ next' = next /\ running' = running /\ hand' = hand /\ slotJob' = slotJob /\ doing' = doing
  BY DEF vars, workRing, stockRing, calls, slots, jobs
<1>2. Client' = Client /\ Crew' = Crew /\ Body' = Body /\ Gate' = Gate
  BY <1>1 DEF Client, Crew, Script, Construct, WorkerSlots, Stock, Body, Gate
<1>3. Pushes(Client)' = Pushes(Client) /\ Pushers' = Pushers
  BY <1>1, <1>2 DEF Pushes, Pushers
<1>4. (NobodyWaits' <=> NobodyWaits) /\ (OneWorker' <=> OneWorker)
  BY <1>2 DEF NobodyWaits, OneWorker
<1>5. (FewPushes' <=> FewPushes) /\ (PushersLast' <=> PushersLast)
  BY <1>2, <1>3, <1>4 DEF FewPushes, PushersLast
<1>6. (WQ!Slots)' = WQ!Slots /\ (SQ!Slots)' = SQ!Slots
  BY DEF WQ!Slots, SQ!Slots
<1>7. WorkOK' /\ StockOK'
  <2>1. /\ WSt' = WSt /\ WRm' = WRm /\ WLd' = WLd /\ SSt' = SSt /\ SRm' = SRm /\ SLd' = SLd
    BY <1>1 DEF WSt, WRm, WLd, SSt, SRm, SLd
  <2>2. QED BY <1>1, <2>1, PrimedRings DEF OwnInv, WorkOK, StockOK
<1>8. \A k, i, s : Has(k, i, s)' <=> Has(k, i, s)
  BY <1>1, <1>6 DEF Has
<1>9. OneSpot' /\ LastOut' /\ Kept'
  <2>1. Spots' = Spots
    BY <1>6 DEF Spots
  <2>2. QED BY <1>4, <1>8, <2>1 DEF OwnInv, OneSpot, LastOut, Kept
<1>10. ValInv' /\ CrewInv'
  BY <1>1, <1>2 DEF OwnInv, ValInv, CrewInv
<1>11. BuildInv' /\ PusherInv'
  BY <1>1, <1>3 DEF OwnInv, BuildInv, PusherInv, NoneFrom
<1>12. StockPopInv' /\ GivePushInv' /\ WorkPopInv' /\ RestockOne'
  BY <1>1, <1>4 DEF OwnInv, StockPopInv, GivePushInv, WorkPopInv, RestockOne, SRm, WRm
<1>13. WorkLap' /\ StockLap'
  <2>1. ToGive' = ToGive /\ ToTake' = ToTake
    BY <1>1, <1>3 DEF ToGive, ToTake
  <2>2. QED BY <1>1, <1>5, <2>1 DEF OwnInv, WorkLap, StockLap, WRm
<1>14. QED BY <1>4, <1>5, <1>7, <1>9, <1>10, <1>11, <1>12, <1>13 DEF OwnInv, Calm

\* The places of a slot, as SlotOwned counts them.
LEMMA PlacesAre ==
  ASSUME ControlInv, OneSpot, LastOut, NEW s \in WorkerSlots
  PROVE  /\ \A x, y \in Places(s) : x = y
         /\ s < NbWorker /\ Stocked(s) /\ (\E k \in Kinds : \E i \in Spots : Has(k, i, s)) => Places(s) # {}
<1>0. /\ SQ!Slots = WQ!Slots /\ WQ!Slots \subseteq Spots /\ Threads \subseteq Spots
  BY SameSlots DEF Spots
<1>1. ASSUME NEW x \in Places(s)
      PROVE  \E k \in Kinds \ {"new"} : \E i \in Spots : x = <<k, i>> /\ Has(k, i, s)
  <2>1. CASE x \in {<<"work", i>> : i \in {k \in WQ!Slots : workBuf[k] = s}}
    BY <1>0, <2>1 DEF Has, Kinds
  <2>2. CASE x \in {<<"stock", i>> : i \in {k \in SQ!Slots : stockBuf[k] = s}}
    BY <1>0, <2>2 DEF Has, Kinds
  <2>3. CASE x \in {<<"running", t>> : t \in {u \in Threads : running[u] = s}}
    BY <1>0, <2>3 DEF Has, Kinds
  <2>4. CASE x \in {<<"hand", t>> : t \in {u \in Threads : hand[u] = s}}
    BY <1>0, <2>4 DEF Has, Kinds
  <2>5. QED BY <1>1, <2>1, <2>2, <2>3, <2>4 DEF Places
<1>2. ASSUME NEW x \in Places(s), NEW y \in Places(s) PROVE x = y
  <2>1. PICK k \in Kinds \ {"new"}, i \in Spots : x = <<k, i>> /\ Has(k, i, s)
    BY <1>1
  <2>2. PICK l \in Kinds \ {"new"}, j \in Spots : y = <<l, j>> /\ Has(l, j, s)
    BY <1>1
  <2>3. k = l /\ i = j
    BY <2>1, <2>2, OneHolds
  <2>4. QED BY <2>1, <2>2, <2>3
<1>3. ASSUME s < NbWorker, Stocked(s), NEW k \in Kinds, NEW i \in Spots, Has(k, i, s) PROVE Places(s) # {}
  <2>1. k # "new"
    <3>1. ~(s >= next[Main])
      <4>1. next[Main] \in Nat /\ s \in Nat
        BY DEF ControlInv, TypeInv, Threads, WorkerSlots
      <4>2. QED BY <1>3, <4>1 DEF Stocked
    <3>2. QED BY <1>3, <3>1 DEF Has
  <2>2. <<k, i>> \in Places(s)
    <3>1. CASE k = "work"
      BY <1>0, <1>3, <3>1 DEF Has, Places
    <3>2. CASE k = "stock"
      BY <1>0, <1>3, <3>2 DEF Has, Places
    <3>3. CASE k = "running"
      BY <1>0, <1>3, <3>3 DEF Has, Places
    <3>4. CASE k = "hand"
      BY <1>0, <1>3, <3>4 DEF Has, Places
    <3>5. QED BY <2>1, <3>1, <3>2, <3>3, <3>4 DEF Kinds
  <2>3. QED BY <2>2
<1>4. QED BY <1>2, <1>3

\* A slot is never in two places and, no job waiting, the slots that fit into
\* stockQueue are never lost, whatever the threads, the slots and the jobs are, where
\* no call of a ring is overtaken by a whole lap (worker2.h:69-105, 148-169): that is
\* what Calm asks of the program.
THEOREM SlotsHaveOneOwner == Spec /\ Calm => []SlotOwned
<1> DEFINE Inv == ControlInv /\ OwnInv /\ Calm
<1>1. Init /\ Calm => Inv
  BY ControlInit, OwnInit
<1>2. Inv /\ [Next]_vars => Inv'
  <2> SUFFICES ASSUME Inv, [Next]_vars PROVE Inv'
    OBVIOUS
  <2>1. ControlInv'
    BY ControlStep
  <2>2. CASE Next
    BY <2>1, <2>2, OwnStep DEF Next, Step
  <2>3. CASE UNCHANGED vars
    BY <2>1, <2>3, OwnStays
  <2>4. QED BY <2>2, <2>3
<1>3. Inv => SlotOwned
  <2> SUFFICES ASSUME Inv, NEW s \in WorkerSlots
               PROVE  /\ Cardinality(Places(s)) <= 1
                      /\ NobodyWaits /\ Stocked(s) /\ s < NbWorker => Places(s) # {}
    BY DEF SlotOwned
  <2>1. OneSpot /\ LastOut /\ Kept
    BY DEF OwnInv
  <2>2. /\ \A x, y \in Places(s) : x = y
        /\ s < NbWorker /\ Stocked(s) /\ (\E k \in Kinds : \E i \in Spots : Has(k, i, s)) => Places(s) # {}
    BY <2>1, PlacesAre
  <2>3. Cardinality(Places(s)) <= 1
    <3>1. CASE Places(s) = {}
      BY <3>1, FS_EmptySet
    <3>2. CASE Places(s) # {}
      <4>1. PICK x : Places(s) = {x}
        BY <2>2, <3>2
      <4>2. QED BY <4>1, FS_Singleton
    <3>3. QED BY <3>1, <3>2
  <2>4. NobodyWaits /\ Stocked(s) /\ s < NbWorker => Places(s) # {}
    <3>1. s < NbWorker => s \in Fit
      BY SlotAssumption DEF Fit, WorkerSlots
    <3>2. QED BY <2>1, <2>2, <3>1 DEF Kept
  <2>5. QED BY <2>3, <2>4
<1>4. QED BY <1>1, <1>2, <1>3, PTL DEF Spec

-----------------------------------------------------------------------------
(* Where a job is.                                                         *)

\* Every job is pushed by one operation of the program at most: thread_test2.cpp
\* constructs an object of its own for each push.
PushAt(ops, i, j) == i \in DOMAIN ops /\ ops[i].op = "push" /\ ops[i].job = j
EachPushedOnce ==
  \A j \in Jobs :
    /\ \A i, k : PushAt(Client, i, j) /\ PushAt(Client, k, j) => i = k
    /\ \A a, b \in Jobs : \A i, k : PushAt(Body[a], i, j) /\ PushAt(Body[b], k, j) => a = b /\ i = k
    /\ \A a \in Jobs : \A i, k : ~(PushAt(Client, i, j) /\ PushAt(Body[a], k, j))

\* A job has been put into a slot once, whether it still is there or not.
Taken(j) == begun[j] # 0 \/ ran[j] # 0 \/ \E s \in WorkerSlots : slotJob[s] = j

\* A slot whose job has not been entered, is in run(), or is over.
Stands(s, b, r) == slotJob[s] # Null /\ begun[slotJob[s]] = b /\ ran[slotJob[s]] = r
Fresh(s) == Stands(s, 0, 0)
Busy(s) == Stands(s, 1, 0)
Spent(s) == slotJob[s] = Null \/ Stands(s, 1, 1)

\* A job is in one slot, and the slot's place says how far the job is.
StageInv ==
  /\ \A r, s \in WorkerSlots : slotJob[r] = slotJob[s] /\ slotJob[r] # Null => r = s
  /\ \A s \in WorkerSlots : s >= next[Main] => Spent(s)
  /\ \A i \in WQ!Slots : /\ workBuf[i] # Null => Fresh(workBuf[i])
                         /\ stockBuf[i] # Null => Spent(stockBuf[i])
  /\ \A t \in Threads : hand[t] # Null => Fresh(hand[t])
  /\ \A w \in Workers : /\ pc[w] \in {"gate", "requeue"} => Fresh(running[w])
                        /\ pc[w] \in {"ops", "give"} => Busy(running[w]) /\ doing[w] = Job(w)
                        /\ pc[w] = "restock" => Spent(running[w])

\* A job that has been entered has left run() or is in it.
BegunInv == \A j \in Jobs : begun[j] # 0 => ran[j] # 0 \/ \E w \in Workers : doing[w] = j

\* What an operation still to come is going to push has not been put into a slot.
ToCome(t, i) == i > next[t] \/ (i = next[t] /\ pc[t] # "give")
OriginInv ==
  \A j \in Jobs : Taken(j) =>
    /\ \A i : PushAt(Client, i, j) => ~ToCome(Main, i)
    /\ \A a \in Jobs : \A i : PushAt(Body[a], i, j) =>
         begun[a] # 0 /\ \A w \in Workers : doing[w] = a => ~ToCome(w, i)

PlaceInv == StageInv /\ BegunInv /\ OriginInv

-----------------------------------------------------------------------------
(* What a counter has to count. *)

\* What lowers counter c: operations of jobs, and, written 0, their return from run().
Marks(k) == Lowerings(k) \cup {i \in {0} : After[k] # Null}
CounterOf(k, i) == IF i = 0 THEN After[k] ELSE Body[k][i].counter
AllDue(c) == {d \in Jobs \X Nat : d[2] \in Marks(d[1]) /\ CounterOf(d[1], d[2]) = c}
IsPushed(a, k) == \E i : PushAt(Body[a], i, k)
Raises(a, c) == {r \in DOMAIN Body[a] : Body[a][r].op = "add" /\ Body[a][r].counter = c /\ Body[a][r].by > 0}
Kids(a, c) == {d \in AllDue(c) : IsPushed(a, d[1])}
Roots(c) == {d \in AllDue(c) : \A a \in Jobs : ~IsPushed(a, d[1])}

\* A job that pushes jobs which lower a counter raises it first, once, by as many as
\* they are, and what waits for the counter is pushed by that job too, or is waiting for
\* that job in any case.
Provides(a, c, r) ==
  /\ Raises(a, c) = {r}
  /\ Cardinality(Kids(a, c)) <= Body[a][r].by
  /\ \A k \in Jobs : \A i : PushAt(Body[a], i, k) => i > r
  /\ \A j \in Jobs : Gate[j] = c =>
       \/ IsPushed(a, j)
       \/ /\ \A b \in Jobs : ~IsPushed(b, a)
          /\ \E i \in Marks(a) : CounterOf(a, i) = c /\ (i = 0 \/ i > r)

\* The programs that count down: every lowering is by one, a job lowers one counter only
\* and the client none; a counter starts with as many as the lowerings of jobs the client
\* pushes, and a job that pushes others provides for theirs.  So do the counters of
\* test1 and test2 (thread_test2.cpp:43-56, 85-117).
CountsDown ==
  /\ \A k \in Jobs : \A i \in Lowerings(k) : Body[k][i].by = -1
  /\ \A k \in Jobs : \A i, l \in Marks(k) : CounterOf(k, i) = CounterOf(k, l)
  /\ \A i \in DOMAIN Client : Client[i].op = "add" => Client[i].by >= 0
  /\ \A c \in Counters : /\ IsFiniteSet(AllDue(c)) /\ Cardinality(Roots(c)) <= program.count[c]
                         /\ \A a \in Jobs : Kids(a, c) # {} => \E r \in Nat : Provides(a, c, r)

\* A lowering has been executed; those who pushed the job have raised c before.
Done(k, i) == ran[k] > 0 \/ (i # 0 /\ Past(k, i))
Told(k, c) == \A a \in Jobs : IsPushed(a, k) => \A r \in Raises(a, c) : Done(a, r)
Owed(c) == {d \in AllDue(c) : ~Done(d[1], d[2]) /\ Told(d[1], c)}

\* A counter is at least the number of the lowerings that are still owed to it.
DueInv == \A c \in Counters : Cardinality(Owed(c)) <= count[c]

\* What a step of a thread does to jobs and to the jobs of slots.
LEMMA Effects ==
  ASSUME ControlInv, NEW t \in Threads, Step(t)
  PROVE  /\ PassGate(t) \/ Finish(t) \/ (begun' = begun /\ ran' = ran /\ doing' = doing)
         /\ slotJob' = slotJob \/ TakeEnds(t)
         /\ TakeEnds(t) => /\ slotJob' = [slotJob EXCEPT ![val[t]] = Arg(t).job]
                           /\ begun' = begun /\ ran' = ran /\ doing' = doing
         /\ PassGate(t) \/ Finish(t) => slotJob' = slotJob
<1> USE DEF ControlInv, TypeInv
<1>1. CASE Quiet(t)
  <2>1. slotJob' = slotJob
    BY <1>1, QuietKeeps DEF slots
  <2>2. PassGate(t) \/ Finish(t) \/ (begun' = begun /\ ran' = ran /\ doing' = doing)
    BY <1>1 DEF Quiet, jobs, Lock, CheckEnabled, Sleep, Wake, Unlock, CheckRunning, Enter,
       MissGate, Leave, CheckLast, NotifyWait, AddCount, ExecuteAll, WaitLock, WaitCount, WaitSleep,
       WaitWake, WaitOver, StopFlag, StopNotify, Join, Spurious
  <2>3. ~TakeEnds(t)
    <3>1. TakeEnds(t) => at[t] = "pop_clear" /\ at'[t] = "idle"
      BY DEF TakeEnds, SQ!PopClear, SQ!Return, SQ!Goto
    <3>2. at' = at
      BY <1>1, QuietKeeps DEF calls
    <3>3. QED BY <3>1, <3>2
  <2>4. QED BY <2>1, <2>2, <2>3
<1>2. CASE TakeSlot(t)
  <2>1. begun' = begun /\ ran' = ran /\ doing' = doing /\ Op(t, "push")
    BY <1>2 DEF TakeSlot, jobs
  <2>2. ~PassGate(t) /\ ~Finish(t)
    <3>1. next[t] <= Len(Ops(t)) /\ pc[t] = "ops" /\ next[t] \in Nat
      BY <2>1 DEF Op
    <3>2. Len(Ops(t)) \in Nat
      <4>1. t # Main => Ops(t) \in Seq(JobOps)
        BY <3>1, OpsOK
      <4>2. t # Main => Len(Ops(t)) \in Nat
        BY <4>1, LenProperties
      <4>3. QED BY <4>2, <3>1, ClientFacts DEF Ops, Client
    <3>3. QED BY <3>1, <3>2 DEF PassGate, Finish, Jump
  <2>3. TakeEnds(t) => slotJob' = [slotJob EXCEPT ![val[t]] = Arg(t).job]
    BY <1>2 DEF TakeSlot, TakeEnds, Stay, Jump, NextOp, Op
  <2>4. slotJob' = slotJob \/ TakeEnds(t)
    BY <1>2 DEF TakeSlot, TakeEnds, Jump
  <2>5. QED BY <2>1, <2>2, <2>3, <2>4
<1>3. CASE PopSlot(t) \/ Restock(t) \/ Requeue(t) \/ StockSlot(t) \/ GiveSlot(t) \/ CheckEmpty(t) \/ CheckDrained(t)
           \/ WaitEmpty(t)
  <2>1. begun' = begun /\ ran' = ran /\ doing' = doing /\ slotJob' = slotJob
    BY <1>3 DEF PopSlot, Restock, Requeue, StockSlot, GiveSlot, CheckEmpty, CheckDrained, WaitEmpty, AskEmpty, slots, jobs
  <2>2. ~TakeEnds(t)
    <3>1. CASE StockSlot(t)
      BY <3>1 DEF StockSlot, TakeEnds, Op
    <3>2. CASE ~StockSlot(t)
      BY <1>3, <3>2 DEF PopSlot, Restock, Requeue, GiveSlot, CheckEmpty, CheckDrained, WaitEmpty, AskEmpty, Stay, Jump,
         NextOp, TakeEnds, Op
    <3>3. QED BY <3>1, <3>2
  <2>3. QED BY <2>1, <2>2
<1>4. QED BY <1>1, <1>2, <1>3, StepCases

\* Where a worker that has a slot comes from.
LEMMA LoopMoves ==
  ASSUME ControlInv, NEW t \in Workers, Step(t), pc'[t] \in {"gate", "requeue", "ops", "give", "restock"}
  PROVE  \/ WorkPopEnds(t) /\ pc'[t] = "gate"
         \/ /\ running'[t] = running[t]
            /\ \/ pc'[t] = pc[t] \/ (pc[t] = "gate" /\ pc'[t] = "requeue")
               \/ pc[t] \in {"ops", "give"} /\ pc'[t] \in {"ops", "give"}
               \/ PassGate(t) \/ Finish(t)
<1> USE DEF ControlInv, TypeInv
<1>0. t \in Threads /\ t # Main
  BY MainAssumption DEF Threads
<1>1. CASE WorkShape(t) \/ StockShape(t)
  <2>1. CASE WorkPopEnds(t)
    BY <1>0, <2>1 DEF WorkPopEnds
  <2>2. CASE WorkPopFails(t) \/ RequeueEnds(t) \/ RestockEnds(t)
    BY <1>0, <2>2 DEF WorkPopFails, RequeueEnds, RestockEnds
  <2>3. CASE GiveEnds(t) \/ TakeEnds(t) \/ TakeFails(t) \/ BuildEnds(t)
    BY <1>0, <2>3 DEF GiveEnds, TakeEnds, TakeFails, BuildEnds, Op, Places2
  <2>4. CASE WorkPushGoes(t) \/ WorkPopGoes(t) \/ RestockGoes(t) \/ BuildGoes(t) \/ TakeGoes(t)
    BY <2>4 DEF WorkPushGoes, WorkPopGoes, RestockGoes, BuildGoes, TakeGoes, Places2
  <2>5. QED BY <1>1, <2>1, <2>2, <2>3, <2>4 DEF WorkShape, StockShape
<1>2. CASE Asks(t) \/ CallFree(t)
  <2>1. running'[t] = running[t]
    BY <1>2 DEF Asks, CallFree, Places2
  <2>2. CASE Quiet(t)
    <3>1. CASE Lock(t) \/ CheckEnabled(t) \/ Sleep(t) \/ Wake(t) \/ Unlock(t) \/ CheckRunning(t) \/ Enter(t)
               \/ Leave(t) \/ CheckLast(t) \/ NotifyWait(t)
      BY <1>0, <3>1 DEF Lock, CheckEnabled, Sleep, Wake, Unlock, CheckRunning, Enter, Leave, CheckLast, NotifyWait, Jump
    <3>2. CASE MissGate(t) \/ AddCount(t) \/ Spurious(t)
      BY <1>0, <2>1, <3>2 DEF MissGate, AddCount, Spurious, Jump, NextOp
    <3>3. QED BY <1>0, <2>1, <2>2, <3>1, <3>2, WorkerSteps, OnlyClient DEF Quiet, ExecuteAll, WaitLock, WaitCount, WaitSleep,
             WaitWake, WaitOver, StopFlag, StopNotify, Join, Jump, NextOp, PartsInv, UpdateLabels
  <2>3. CASE CheckEmpty(t) \/ CheckDrained(t) \/ WaitEmpty(t)
    BY <1>0, <2>1, <2>3 DEF CheckEmpty, CheckDrained, WaitEmpty, AskEmpty, Stay, Jump
  <2>4. CASE PopSlot(t) \/ Restock(t) \/ Requeue(t) \/ StockSlot(t) \/ TakeSlot(t) \/ GiveSlot(t)
    <3>1. CASE StockSlot(t) \/ TakeSlot(t) \/ GiveSlot(t)
      BY <1>0, <2>1, <3>1 DEF StockSlot, TakeSlot, GiveSlot, Op, Stay, Jump, NextOp
    <3>2. CASE Restock(t) \/ Requeue(t)
      BY <1>0, <2>1, <3>2 DEF Restock, Requeue, Stay, Jump
    <3>3. CASE PopSlot(t)
      <4>1. CASE Stay(t, "pop") \/ Jump(t, "pop", "leave")
        BY <1>0, <2>1, <4>1 DEF Stay, Jump
      <4>2. CASE WQ!PopClear(t)
        <5>1. at[t] = "pop_clear" /\ at'[t] = "idle" /\ pc[t] = "pop"
          BY <1>0, <3>3, <4>2 DEF PopSlot, WQ!PopClear, WQ!Return, WQ!Goto, Stay, Jump
        <5>2. ~CallFree(t) /\ ~Asks(t)
          BY <5>1 DEF CallFree, calls, Asks
        <5>3. QED BY <1>2, <5>2
      <4>3. QED BY <3>3, <4>1, <4>2 DEF PopSlot
    <3>4. QED BY <2>4, <3>1, <3>2, <3>3
  <2>5. QED BY <1>0, <2>2, <2>3, <2>4, StepCases
<1>3. QED BY <1>0, <1>1, <1>2, StepShape

\* Where the slots that arrive in a place come from.
LEMMA Arrivals ==
  ASSUME ControlInv, OwnInv, NEW t \in Threads, Step(t)
  PROVE  /\ \A i \in WQ!Slots : workBuf'[i] # Null => \/ workBuf'[i] = workBuf[i]
                                                      \/ pc[t] = "requeue" /\ workBuf'[i] = running[t]
                                                      \/ pc[t] = "give" /\ workBuf'[i] = hand[t]
         /\ \A i \in WQ!Slots : stockBuf'[i] # Null => \/ stockBuf'[i] = stockBuf[i]
                                                       \/ pc[t] = "restock" /\ stockBuf'[i] = running[t]
                                                       \/ stockBuf'[i] = next[Main] /\ next[Main] \in WorkerSlots
         /\ WorkPopEnds(t) => running'[t] = workBuf[idx[t]] /\ running'[t] \in WorkerSlots
         /\ TakeEnds(t) => /\ val[t] = stockBuf[idx[t]] /\ val[t] \in WorkerSlots
                           /\ hand' = [hand EXCEPT ![t] = val[t]]
         /\ ~TakeEnds(t) => \A u \in Threads : hand'[u] # Null => hand'[u] = hand[u]
<1> USE DEF ControlInv, TypeInv, OwnInv, WQ!RingTypeOK, SQ!RingTypeOK
<1> PICK h, v : h = idx[t] /\ v = val[t]
  OBVIOUS
<1>0. h \in WQ!Slots /\ DOMAIN workBuf = WQ!Slots /\ DOMAIN stockBuf = WQ!Slots
  BY SameSlots
<1>1. CASE CallFree(t) \/ Asks(t)
  <2>1. UNCHANGED <<workBuf, stockBuf, hand, at>> \/ (UNCHANGED <<workBuf, stockBuf, hand>> /\ Asks(t))
    BY <1>1 DEF CallFree, Asks, workRing, stockRing, Places2, calls
  <2>2. ~WorkPopEnds(t) /\ ~TakeEnds(t)
    BY <1>1 DEF CallFree, Asks, WorkPopEnds, TakeEnds, Op, WQ!PopClear, WQ!Return, WQ!Goto, SQ!PopClear, SQ!Return,
       SQ!Goto, calls
  <2>3. QED BY <2>1, <2>2
<1>2. CASE WorkPushGoes(t) \/ WorkPopGoes(t) \/ WorkPopFails(t)
  <2>1. UNCHANGED <<workBuf, stockBuf, hand>>
    BY <1>2 DEF WorkPushGoes, WorkPopGoes, WorkPopFails, WorkPushing, WorkPopping, WorkNone, stockRing, Places2,
       WQ!PushCall, WQ!PushRoom, WQ!PushRetry, WQ!PushClaim, WQ!PopCall, WQ!PopSome, WQ!PopClaim, WQ!PopLoad,
       WQ!PopEmpty, WQ!PopLost, WQ!ring
  <2>2. ~TakeEnds(t) /\ ~WorkPopEnds(t)
    BY <1>2 DEF WorkPushGoes, WorkPopGoes, WorkPopFails, TakeEnds, WorkPopEnds, Op
  <2>3. QED BY <2>1, <2>2
<1>3. CASE RestockGoes(t) \/ BuildGoes(t) \/ TakeGoes(t) \/ TakeFails(t)
  <2>1. UNCHANGED <<workBuf, stockBuf, hand>>
    BY <1>3 DEF RestockGoes, BuildGoes, TakeGoes, TakeFails, StockPushing, StockPopping, StockNone, workRing, Places2,
       SQ!PushCall, SQ!PushRoom, SQ!PushRetry, SQ!PushClaim, SQ!PopCall, SQ!PopSome, SQ!PopClaim, SQ!PopLoad,
       SQ!PopEmpty, SQ!PopLost, SQ!ring
  <2>2. ~TakeEnds(t) /\ ~WorkPopEnds(t)
    BY <1>3 DEF RestockGoes, BuildGoes, TakeGoes, TakeFails, TakeEnds, WorkPopEnds, Op
  <2>3. QED BY <2>1, <2>2
<1>4. CASE RequeueEnds(t) \/ GiveEnds(t)
  <2>1. ~TakeEnds(t) /\ ~WorkPopEnds(t) /\ stockBuf' = stockBuf /\ \A u \in Threads : hand'[u] # Null => hand'[u] = hand[u]
    BY <1>4 DEF RequeueEnds, GiveEnds, TakeEnds, WorkPopEnds, Op, stockRing
  <2>2. CASE WQ!PushFull(t)
    BY <2>1, <2>2 DEF WQ!PushFull, WQ!ring
  <2>3. CASE WQ!PushStore(t)
    <3>1. at[t] \in WQ!PushLabels /\ workBuf' = [workBuf EXCEPT ![h] = v]
      BY <2>3 DEF WQ!PushStore, WQ!PushLabels
    <3>2. \/ pc[t] = "requeue" /\ v = running[t]
          \/ pc[t] = "give" /\ v = hand[t]
      BY <1>4, <3>1 DEF RequeueEnds, GiveEnds, ValInv
    <3>3. \A i \in WQ!Slots : workBuf'[i] = workBuf[i] \/ workBuf'[i] = v
      BY <1>0, <3>1
    <3>4. QED BY <2>1, <3>2, <3>3
  <2>4. QED BY <1>4, <2>2, <2>3 DEF RequeueEnds, GiveEnds, WorkPushed
<1>5. CASE RestockEnds(t) \/ BuildEnds(t)
  <2>1. ~TakeEnds(t) /\ ~WorkPopEnds(t) /\ workBuf' = workBuf /\ hand' = hand
    BY <1>5 DEF RestockEnds, BuildEnds, TakeEnds, WorkPopEnds, Op, workRing, Places2
  <2>2. CASE SQ!PushFull(t)
    BY <2>1, <2>2 DEF SQ!PushFull, SQ!ring
  <2>3. CASE SQ!PushStore(t)
    <3>1. at[t] \in WQ!PushLabels /\ stockBuf' = [stockBuf EXCEPT ![h] = v]
      BY <2>3 DEF SQ!PushStore, WQ!PushLabels
    <3>2. v \in WorkerSlots
      BY <3>1 DEF CallInv
    <3>3. (pc[t] = "restock" /\ v = running[t]) \/ v = next[Main]
      BY <1>5, <3>1 DEF RestockEnds, BuildEnds, Op, ValInv
    <3>4. \A i \in WQ!Slots : stockBuf'[i] = stockBuf[i] \/ stockBuf'[i] = v
      BY <1>0, <3>1
    <3>5. QED BY <2>1, <3>2, <3>3, <3>4
  <2>4. QED BY <1>5, <2>2, <2>3 DEF RestockEnds, BuildEnds, StockPushed
<1>6. CASE WorkPopEnds(t)
  <2>1. /\ pc[t] = "pop" /\ at[t] = "pop_clear" /\ workBuf' = [workBuf EXCEPT ![h] = Null] /\ stockBuf' = stockBuf
        /\ running' = [running EXCEPT ![t] = v] /\ hand' = hand /\ ~TakeEnds(t)
    BY <1>6 DEF WQ!PopClear, WorkPopEnds, stockRing, TakeEnds, Op
  <2>2. t \in WLd /\ v \in WorkerSlots
    BY <2>1 DEF WLd, CallInv
  <2>3. workBuf[h] = v
    BY <2>2 DEF WorkOK, RingOK
  <2>4. QED BY <2>1, <2>2, <2>3
<1>7. CASE TakeEnds(t)
  <2>1. /\ pc[t] = "ops" /\ at[t] = "pop_clear" /\ stockBuf' = [stockBuf EXCEPT ![h] = Null] /\ workBuf' = workBuf
        /\ hand' = [hand EXCEPT ![t] = v] /\ running' = running /\ ~WorkPopEnds(t)
    BY <1>7 DEF SQ!PopClear, TakeEnds, Op, workRing, WorkPopEnds
  <2>2. t \in SLd /\ v \in WorkerSlots
    BY <2>1 DEF SLd, CallInv
  <2>3. stockBuf[h] = v
    BY <2>2, SameSlots DEF StockOK, RingOK
  <2>4. QED BY <1>7, <2>1, <2>2, <2>3
<1>8. QED BY <1>1, <1>2, <1>3, <1>4, <1>5, <1>6, <1>7, StepShape DEF WorkShape, StockShape

\* The slot of a thread that holds one.
LEMMA SlotOf ==
  ASSUME ControlInv, NEW w \in Workers, pc[w] \in {"gate", "requeue", "ops", "give", "restock"}
  PROVE  w \in Threads /\ running[w] \in WorkerSlots /\ Has("running", w, running[w])
BY DEF ControlInv, TypeInv, HandInv, Threads, Has

\* What a push that takes a slot takes and sets.
LEMMA Takes ==
  ASSUME ControlInv, OwnInv, NEW t \in Threads, Step(t), TakeEnds(t)
  PROVE  /\ val[t] \in WorkerSlots /\ Has("stock", idx[t], val[t]) /\ Arg(t).job \in Jobs
         /\ PushAt(Ops(t), next[t], Arg(t).job) /\ pc[t] = "ops" /\ pc'[t] = "give" /\ next' = next
         /\ slotJob' = [slotJob EXCEPT ![val[t]] = Arg(t).job]
         /\ begun' = begun /\ ran' = ran /\ doing' = doing /\ running' = running /\ workBuf' = workBuf
         /\ hand' = [hand EXCEPT ![t] = val[t]] /\ stockBuf' = [stockBuf EXCEPT ![idx[t]] = Null]
         /\ t # Main => t \in Workers /\ doing[t] \in Jobs /\ Ops(t) = Body[doing[t]]
         /\ t = Main => Ops(t) = Client
<1> USE DEF ControlInv
<1>1. val[t] \in WorkerSlots /\ val[t] = stockBuf[idx[t]] /\ idx[t] \in WQ!Slots
  BY Arrivals DEF TypeInv
<1>2. /\ Op(t, "push") /\ pc' = [pc EXCEPT ![t] = "give"] /\ next' = next /\ running' = running /\ workBuf' = workBuf
      /\ hand' = [hand EXCEPT ![t] = val[t]] /\ stockBuf' = [stockBuf EXCEPT ![idx[t]] = Null]
  BY DEF TakeEnds, workRing, SQ!PopClear
<1>3. pc[t] = "ops" /\ pc'[t] = "give" /\ next[t] <= Len(Ops(t)) /\ Arg(t).op = "push" /\ Arg(t) = Ops(t)[next[t]]
  BY <1>2 DEF Op, Arg, TypeInv
<1>4. Arg(t).job \in Jobs
  BY <1>3, ArgOK, OpTypes
<1>5. t # Main => t \in Workers /\ doing[t] \in Jobs /\ Ops(t) = Body[doing[t]] /\ Ops(t) \in Seq(JobOps)
  BY <1>3, OpsOK DEF Ops
<1>6. t = Main => Ops(t) = Client
  BY DEF Ops, Client
<1>7. next[t] \in Nat \ {0}
  BY DEF TypeInv
<1>8. next[t] \in DOMAIN Ops(t)
  <2>1. CASE t = Main
    BY <1>3, <1>6, <1>7, <2>1, ClientFacts
  <2>2. CASE t # Main
    BY <1>3, <1>5, <1>7, <2>2, LenProperties
  <2>3. QED BY <2>1, <2>2
<1>9. Has("stock", idx[t], val[t])
  BY <1>1 DEF Has
<1>10. QED BY <1>1, <1>2, <1>3, <1>4, <1>5, <1>6, <1>8, <1>9, Effects DEF PushAt

\* What run() is entered with.
LEMMA Enters ==
  ASSUME ControlInv, StageInv, NEW t \in Threads, PassGate(t)
  PROVE  /\ t \in Workers /\ running[t] \in WorkerSlots /\ Has("running", t, running[t]) /\ Job(t) \in Jobs
         /\ slotJob[running[t]] = Job(t) /\ begun[Job(t)] = 0 /\ ran[Job(t)] = 0 /\ doing[t] = Null
         /\ pc[t] = "gate" /\ pc'[t] = "ops" /\ doing'[t] = Job(t) /\ next'[t] = 1 /\ Open(Job(t))
         /\ begun' = [begun EXCEPT ![Job(t)] = 1] /\ ran' = ran /\ slotJob' = slotJob /\ running' = running
         /\ hand' = hand /\ workBuf' = workBuf /\ stockBuf' = stockBuf /\ count' = count
         /\ next'[Main] = next[Main]
<1> USE DEF ControlInv, TypeInv
<1>1. pc[t] = "gate" /\ pc'[t] = "ops" /\ Open(Job(t))
  BY DEF PassGate, Jump
<1>2. t \in Workers /\ running[t] \in WorkerSlots /\ Job(t) \in Jobs
  BY <1>1, JobOfGate
<1>3. Fresh(running[t]) /\ Has("running", t, running[t]) /\ doing[t] = Null
  BY <1>1, <1>2, SlotOf DEF StageInv, HandInv
<1>4. slotJob[running[t]] = Job(t) /\ begun[Job(t)] = 0 /\ ran[Job(t)] = 0
  BY <1>3 DEF Fresh, Stands, Job
<1>5. /\ begun' = [begun EXCEPT ![Job(t)] = @ + 1] /\ doing' = [doing EXCEPT ![t] = Job(t)] /\ next' = [next EXCEPT ![t] = 1]
      /\ ran' = ran /\ slotJob' = slotJob /\ running' = running /\ hand' = hand /\ count' = count
      /\ workBuf' = workBuf /\ stockBuf' = stockBuf
  BY DEF PassGate, NoCall, slots, workRing, stockRing
<1>6. begun' = [begun EXCEPT ![Job(t)] = 1] /\ doing'[t] = Job(t) /\ next'[t] = 1 /\ next'[Main] = next[Main]
  BY <1>2, <1>4, <1>5, MainAssumption
<1>7. QED BY <1>1, <1>2, <1>3, <1>4, <1>5, <1>6

\* What run() returns with.
LEMMA Returns ==
  ASSUME ControlInv, StageInv, NEW t \in Threads, Finish(t)
  PROVE  /\ t \in Workers /\ running[t] \in WorkerSlots /\ Has("running", t, running[t]) /\ Job(t) \in Jobs
         /\ slotJob[running[t]] = Job(t) /\ begun[Job(t)] = 1 /\ ran[Job(t)] = 0 /\ doing[t] = Job(t)
         /\ pc[t] = "ops" /\ pc'[t] = "restock" /\ doing'[t] = Null /\ next' = next /\ next[t] > Len(Ops(t))
         /\ Ops(t) = Body[Job(t)]
         /\ ran' = [ran EXCEPT ![Job(t)] = 1] /\ begun' = begun /\ slotJob' = slotJob /\ running' = running
         /\ hand' = hand /\ workBuf' = workBuf /\ stockBuf' = stockBuf
         /\ count' = IF After[Job(t)] = Null THEN count ELSE [count EXCEPT ![After[Job(t)]] = @ - 1]
<1> USE DEF ControlInv, TypeInv
<1>1. pc[t] = "ops" /\ pc'[t] = "restock" /\ t \in Workers
  BY DEF Finish, Jump, Threads
<1>2. running[t] \in WorkerSlots /\ Has("running", t, running[t]) /\ doing[t] \in Jobs
  BY <1>1, SlotOf DEF HandInv
<1>3. Busy(running[t]) /\ doing[t] = Job(t)
  BY <1>1 DEF StageInv
<1>4. slotJob[running[t]] = Job(t) /\ begun[Job(t)] = 1 /\ ran[Job(t)] = 0
  BY <1>3 DEF Busy, Stands, Job
<1>5. /\ ran' = [ran EXCEPT ![Job(t)] = @ + 1] /\ doing' = [doing EXCEPT ![t] = Null] /\ next' = next
      /\ begun' = begun /\ slotJob' = slotJob /\ running' = running /\ hand' = hand
      /\ workBuf' = workBuf /\ stockBuf' = stockBuf /\ next[t] > Len(Ops(t)) /\ t # Main
      /\ count' = IF After[Job(t)] = Null THEN count ELSE [count EXCEPT ![After[Job(t)]] = @ - 1]
  BY <1>3 DEF Finish, NoCall, slots, workRing, stockRing
<1>6. ran' = [ran EXCEPT ![Job(t)] = 1] /\ doing'[t] = Null
  BY <1>2, <1>3, <1>4, <1>5
<1>7. Ops(t) = Body[Job(t)]
  BY <1>3, <1>5 DEF Ops
<1>8. QED BY <1>1, <1>2, <1>3, <1>4, <1>5, <1>6, <1>7

\* The stages after a step, in terms of the members and locals after it.
LEMMA StageAfter ==
  ASSUME ControlInv, ControlInv',
         \A r, s \in WorkerSlots : slotJob'[r] = slotJob'[s] /\ slotJob'[r] # Null => r = s,
         \A s \in WorkerSlots : s >= next'[Main] => Spent(s)',
         \A i \in WQ!Slots : \A s \in WorkerSlots : /\ workBuf'[i] = s => Fresh(s)'
                                                    /\ stockBuf'[i] = s => Spent(s)',
         \A t \in Threads : \A s \in WorkerSlots : hand'[t] = s => Fresh(s)',
         \A w \in Workers : \A s \in WorkerSlots : running'[w] = s =>
           /\ pc'[w] \in {"gate", "requeue"} => Fresh(s)'
           /\ pc'[w] \in {"ops", "give"} => Busy(s)' /\ doing'[w] = slotJob'[s]
           /\ pc'[w] = "restock" => Spent(s)'
  PROVE  StageInv'
<1>1. /\ \A i \in WQ!Slots : (workBuf'[i] # Null => workBuf'[i] \in WorkerSlots)
                             /\ (stockBuf'[i] # Null => stockBuf'[i] \in WorkerSlots)
      /\ \A t \in Threads : hand'[t] # Null => hand'[t] \in WorkerSlots
      /\ (WQ!Slots)' = WQ!Slots
  <2>1. (WQ!Slots)' = WQ!Slots /\ (SQ!Slots)' = WQ!Slots /\ WorkerSlots' = WorkerSlots
    BY DEF WQ!Slots, SQ!Slots, WorkerSlots
  <2>2. /\ workBuf' \in [WQ!Slots -> WorkerSlots \cup {Null}] /\ stockBuf' \in [WQ!Slots -> WorkerSlots \cup {Null}]
        /\ hand' \in [Threads -> WorkerSlots \cup {Null}]
    BY <2>1 DEF ControlInv, TypeInv, WQ!RingTypeOK, SQ!RingTypeOK, Threads
  <2>3. QED BY <2>1, <2>2
<1>2. \A w \in Workers : pc'[w] \in {"gate", "requeue", "ops", "give", "restock"} => running'[w] \in WorkerSlots
  BY DEF ControlInv, TypeInv, HandInv, Threads, WorkerSlots
<1>3. \A i \in WQ!Slots : (workBuf'[i] # Null => Fresh(workBuf[i])') /\ (stockBuf'[i] # Null => Spent(stockBuf[i])')
  BY <1>1 DEF Fresh, Spent, Stands
<1>4. \A t \in Threads : hand'[t] # Null => Fresh(hand[t])'
  BY <1>1 DEF Fresh, Stands
<1>5. \A w \in Workers : /\ pc'[w] \in {"gate", "requeue"} => Fresh(running[w])'
                         /\ pc'[w] \in {"ops", "give"} => Busy(running[w])' /\ doing'[w] = Job(w)'
                         /\ pc'[w] = "restock" => Spent(running[w])'
  BY <1>2 DEF Fresh, Busy, Spent, Stands, Job
<1>6. QED BY <1>1, <1>3, <1>4, <1>5 DEF StageInv, Threads, WorkerSlots

\* The stages are those of the places, whatever a step does.
LEMMA StageStep ==
  ASSUME ControlInv, ControlInv', OwnInv, PlaceInv, NEW t \in Threads, Step(t),
         TakeEnds(t) => ~Taken(Arg(t).job)
  PROVE  StageInv'
<1> USE DEF ControlInv, TypeInv, OwnInv, PlaceInv
<1>0. /\ Main \in Threads /\ Workers \subseteq Threads /\ next[Main] \in Nat /\ next'[Main] \in Nat
      /\ next'[Main] = next[Main] \/ next'[Main] = next[Main] + 1
      /\ \A s \in WorkerSlots : s \in Nat /\ s # Null
  BY ClientGoesOn, SlotAssumption DEF Threads, WorkerSlots
<1>a. ASSUME NEW s \in WorkerSlots, slotJob'[s] = slotJob[s],
             slotJob[s] # Null => begun'[slotJob[s]] = begun[slotJob[s]] /\ ran'[slotJob[s]] = ran[slotJob[s]]
      PROVE  (Fresh(s) => Fresh(s)') /\ (Busy(s) => Busy(s)') /\ (Spent(s) => Spent(s)')
  BY <1>a DEF Fresh, Busy, Spent, Stands
<1>b. \A s \in WorkerSlots : s >= next'[Main] => s >= next[Main]
  BY <1>0
<1>c. /\ \A r, s \in WorkerSlots : slotJob[r] = slotJob[s] /\ slotJob[r] # Null => r = s
      /\ \A s \in WorkerSlots : s >= next[Main] => Spent(s)
      /\ \A i \in WQ!Slots : \A s \in WorkerSlots : /\ workBuf[i] = s => Fresh(s)
                                                    /\ stockBuf[i] = s => Spent(s)
      /\ \A u \in Threads : \A s \in WorkerSlots : hand[u] = s => Fresh(s)
      /\ \A w \in Workers : \A s \in WorkerSlots : running[w] = s =>
           /\ pc[w] \in {"gate", "requeue"} => Fresh(s)
           /\ pc[w] \in {"ops", "give"} => Busy(s) /\ doing[w] = slotJob[s]
           /\ pc[w] = "restock" => Spent(s)
  BY <1>0 DEF StageInv, Job
<1>d. \A u \in Threads \ {t} : pc'[u] = pc[u] /\ running'[u] = running[u] /\ doing'[u] = doing[u]
  BY OthersStay
<1>e. /\ \A i \in WQ!Slots : \A s : (workBuf[i] = s => Has("work", i, s)) /\ (stockBuf[i] = s => Has("stock", i, s))
      /\ \A u \in Threads : \A s : (running[u] = s => Has("running", u, s)) /\ (hand[u] = s => Has("hand", u, s))
      /\ \A s : s >= next[Main] => Has("new", s, s)
  BY DEF Has
<1>1. CASE TakeEnds(t)
  <2> PICK v \in WorkerSlots, j \in Jobs : v = val[t] /\ j = Arg(t).job
    BY <1>1, Takes
  <2>1. /\ Has("stock", idx[t], v) /\ idx[t] \in WQ!Slots /\ pc[t] = "ops" /\ pc'[t] = "give" /\ next' = next
        /\ slotJob' = [slotJob EXCEPT ![v] = j]
        /\ begun' = begun /\ ran' = ran /\ doing' = doing /\ running' = running /\ workBuf' = workBuf
        /\ hand' = [hand EXCEPT ![t] = v] /\ stockBuf' = [stockBuf EXCEPT ![idx[t]] = Null]
    BY <1>1, Takes
  <2>2. begun[j] = 0 /\ ran[j] = 0 /\ j # Null /\ \A s \in WorkerSlots : slotJob[s] # j
    BY <1>1, SlotAssumption DEF Taken
  <2>3. ASSUME NEW k, NEW i, Has(k, i, v) PROVE k = "stock" /\ i = idx[t]
    BY <2>1, <2>3, OneHolds
  <2>4. Fresh(v)' /\ slotJob'[v] = j
    BY <2>1, <2>2 DEF Fresh, Stands
  <2>5. \A s \in WorkerSlots \ {v} : slotJob'[s] = slotJob[s]
    BY <2>1
  <2>6. \A s \in WorkerSlots \ {v} : (Fresh(s) => Fresh(s)') /\ (Busy(s) => Busy(s)') /\ (Spent(s) => Spent(s)')
    BY <1>a, <2>1, <2>5
  <2>7. \A r, s \in WorkerSlots : slotJob'[r] = slotJob'[s] /\ slotJob'[r] # Null => r = s
    BY <1>c, <2>2, <2>4, <2>5
  <2>8. \A s \in WorkerSlots : s >= next'[Main] => Spent(s)'
    <3>1. ~(v >= next[Main])
      BY <1>e, <2>3
    <3>2. QED BY <1>c, <2>1, <2>6, <3>1
  <2>9. \A i \in WQ!Slots : \A s \in WorkerSlots : (workBuf'[i] = s => Fresh(s)') /\ (stockBuf'[i] = s => Spent(s)')
    <3> SUFFICES ASSUME NEW i \in WQ!Slots, NEW s \in WorkerSlots
                 PROVE  (workBuf'[i] = s => Fresh(s)') /\ (stockBuf'[i] = s => Spent(s)')
      OBVIOUS
    <3>1. ASSUME workBuf'[i] = s PROVE Fresh(s)'
      <4>1. workBuf[i] = s /\ s # v
        BY <1>e, <2>1, <2>3, <3>1
      <4>2. QED BY <1>c, <2>6, <4>1
    <3>2. ASSUME stockBuf'[i] = s PROVE Spent(s)'
      <4>1. DOMAIN stockBuf = WQ!Slots
        BY SameSlots DEF SQ!RingTypeOK
      <4>2. i # idx[t] /\ stockBuf[i] = s
        BY <1>0, <2>1, <3>2, <4>1
      <4>3. s # v
        BY <1>e, <2>3, <4>2
      <4>4. QED BY <1>c, <2>6, <4>2, <4>3
    <3>3. QED BY <3>1, <3>2
  <2>10. \A u \in Threads : \A s \in WorkerSlots : hand'[u] = s => Fresh(s)'
    <3> SUFFICES ASSUME NEW u \in Threads, NEW s \in WorkerSlots, hand'[u] = s PROVE Fresh(s)'
      OBVIOUS
    <3>1. CASE u = t
      BY <2>1, <2>4, <3>1
    <3>2. CASE u # t
      <4>1. hand[u] = s /\ s # v
        BY <1>e, <2>1, <2>3, <3>2
      <4>2. QED BY <1>c, <2>6, <4>1
    <3>3. QED BY <3>1, <3>2
  <2>11. \A w \in Workers : \A s \in WorkerSlots : running'[w] = s =>
           /\ pc'[w] \in {"gate", "requeue"} => Fresh(s)'
           /\ pc'[w] \in {"ops", "give"} => Busy(s)' /\ doing'[w] = slotJob'[s]
           /\ pc'[w] = "restock" => Spent(s)'
    <3> SUFFICES ASSUME NEW w \in Workers, NEW s \in WorkerSlots, running'[w] = s
                 PROVE  /\ pc'[w] \in {"gate", "requeue"} => Fresh(s)'
                        /\ pc'[w] \in {"ops", "give"} => Busy(s)' /\ doing'[w] = slotJob'[s]
                        /\ pc'[w] = "restock" => Spent(s)'
      OBVIOUS
    <3>1. running[w] = s /\ s # v /\ slotJob'[s] = slotJob[s]
      BY <1>0, <1>e, <2>1, <2>3, <2>5
    <3>2. pc'[w] = pc[w] \/ (w = t /\ pc[w] = "ops" /\ pc'[w] = "give")
      BY <1>0, <1>d, <2>1
    <3>3. QED BY <1>c, <2>1, <2>6, <3>1, <3>2
  <2>12. QED BY <2>7, <2>8, <2>9, <2>10, <2>11, StageAfter
<1>2. CASE PassGate(t) \/ Finish(t)
  <2> PICK r \in WorkerSlots, j \in Jobs : r = running[t] /\ j = Job(t)
    BY <1>2, Enters, Returns
  <2>1. /\ t \in Workers /\ Has("running", t, r) /\ slotJob[r] = j /\ slotJob' = slotJob /\ running' = running
        /\ hand' = hand /\ workBuf' = workBuf /\ stockBuf' = stockBuf /\ j # Null
        /\ \A k \in Jobs \ {j} : begun'[k] = begun[k] /\ ran'[k] = ran[k]
    <3>1. CASE PassGate(t)
      BY <3>1, Enters, SlotAssumption
    <3>2. CASE Finish(t)
      BY <3>2, Returns, SlotAssumption
    <3>3. QED BY <1>2, <3>1, <3>2
  <2>2. \/ pc'[t] = "ops" /\ doing'[t] = j /\ begun'[j] = 1 /\ ran'[j] = 0
        \/ pc'[t] = "restock" /\ begun'[j] = 1 /\ ran'[j] = 1
    BY <1>2, Enters, Returns
  <2>3. ASSUME NEW k, NEW i, Has(k, i, r) PROVE k = "running" /\ i = t
    BY <2>1, <2>3, OneHolds
  <2>4. \A s \in WorkerSlots \ {r} : (Fresh(s) => Fresh(s)') /\ (Busy(s) => Busy(s)') /\ (Spent(s) => Spent(s)')
    <3> SUFFICES ASSUME NEW s \in WorkerSlots \ {r}
                 PROVE  (Fresh(s) => Fresh(s)') /\ (Busy(s) => Busy(s)') /\ (Spent(s) => Spent(s)')
      OBVIOUS
    <3>1. slotJob[s] # j
      BY <1>c, <2>1
    <3>2. slotJob[s] # Null => slotJob[s] \in Jobs \ {j}
      BY <3>1
    <3>3. QED BY <1>a, <2>1, <3>2
  <2>5. \A s \in WorkerSlots : s >= next'[Main] => Spent(s)'
    BY <1>b, <1>c, <1>e, <2>3, <2>4
  <2>6. \A i \in WQ!Slots : \A s \in WorkerSlots : (workBuf'[i] = s => Fresh(s)') /\ (stockBuf'[i] = s => Spent(s)')
    BY <1>c, <1>e, <2>1, <2>3, <2>4
  <2>7. \A u \in Threads : \A s \in WorkerSlots : hand'[u] = s => Fresh(s)'
    BY <1>c, <1>e, <2>1, <2>3, <2>4
  <2>8. \A w \in Workers : \A s \in WorkerSlots : running'[w] = s =>
           /\ pc'[w] \in {"gate", "requeue"} => Fresh(s)'
           /\ pc'[w] \in {"ops", "give"} => Busy(s)' /\ doing'[w] = slotJob'[s]
           /\ pc'[w] = "restock" => Spent(s)'
    <3> SUFFICES ASSUME NEW w \in Workers, NEW s \in WorkerSlots, running'[w] = s
                 PROVE  /\ pc'[w] \in {"gate", "requeue"} => Fresh(s)'
                        /\ pc'[w] \in {"ops", "give"} => Busy(s)' /\ doing'[w] = slotJob'[s]
                        /\ pc'[w] = "restock" => Spent(s)'
      OBVIOUS
    <3>1. CASE w = t
      <4>1. s = r
        BY <2>1, <3>1
      <4>2. QED BY <2>1, <2>2, <3>1, <4>1 DEF Busy, Spent, Stands
    <3>2. CASE w # t
      <4>1. running[w] = s /\ s # r /\ pc'[w] = pc[w] /\ doing'[w] = doing[w]
        BY <1>0, <1>d, <1>e, <2>1, <2>3, <3>2
      <4>2. QED BY <1>c, <2>1, <2>4, <4>1
    <3>3. QED BY <3>1, <3>2
  <2>9. QED BY <1>c, <2>1, <2>5, <2>6, <2>7, <2>8, StageAfter
<1>3. CASE ~TakeEnds(t) /\ ~PassGate(t) /\ ~Finish(t)
  <2>1. begun' = begun /\ ran' = ran /\ doing' = doing /\ slotJob' = slotJob
    BY <1>3, Effects
  <2>2. \A s \in WorkerSlots : (Fresh(s) => Fresh(s)') /\ (Busy(s) => Busy(s)') /\ (Spent(s) => Spent(s)')
    BY <1>a, <2>1
  <2>3. \A s \in WorkerSlots : s >= next'[Main] => Spent(s)'
    BY <1>b, <1>c, <2>2
  <2>4. \A i \in WQ!Slots : \A s \in WorkerSlots : (workBuf'[i] = s => Fresh(s)') /\ (stockBuf'[i] = s => Spent(s)')
    <3> SUFFICES ASSUME NEW i \in WQ!Slots, NEW s \in WorkerSlots
                 PROVE  (workBuf'[i] = s => Fresh(s)') /\ (stockBuf'[i] = s => Spent(s)')
      OBVIOUS
    <3>0. pc[t] \in {"requeue", "restock"} => t \in Workers
      BY LoopIsWorkers
    <3>1. ASSUME workBuf'[i] = s PROVE Fresh(s)'
      <4>1. \/ workBuf[i] = s
            \/ pc[t] = "requeue" /\ s = running[t]
            \/ pc[t] = "give" /\ s = hand[t]
        BY <1>0, <3>1, Arrivals
      <4>2. QED BY <1>c, <2>2, <3>0, <4>1
    <3>2. ASSUME stockBuf'[i] = s PROVE Spent(s)'
      <4>1. \/ stockBuf[i] = s
            \/ pc[t] = "restock" /\ s = running[t]
            \/ s = next[Main]
        BY <1>0, <3>2, Arrivals
      <4>2. s = next[Main] => s >= next[Main]
        BY <1>0
      <4>3. QED BY <1>c, <2>2, <3>0, <4>1, <4>2
    <3>3. QED BY <3>1, <3>2
  <2>5. \A u \in Threads : \A s \in WorkerSlots : hand'[u] = s => Fresh(s)'
    BY <1>0, <1>3, <1>c, <2>2, Arrivals
  <2>6. \A w \in Workers : \A s \in WorkerSlots : running'[w] = s =>
           /\ pc'[w] \in {"gate", "requeue"} => Fresh(s)'
           /\ pc'[w] \in {"ops", "give"} => Busy(s)' /\ doing'[w] = slotJob'[s]
           /\ pc'[w] = "restock" => Spent(s)'
    <3> SUFFICES ASSUME NEW w \in Workers, NEW s \in WorkerSlots, running'[w] = s,
                        pc'[w] \in {"gate", "requeue", "ops", "give", "restock"}
                 PROVE  /\ pc'[w] \in {"gate", "requeue"} => Fresh(s)'
                        /\ pc'[w] \in {"ops", "give"} => Busy(s)' /\ doing'[w] = slotJob'[s]
                        /\ pc'[w] = "restock" => Spent(s)'
      OBVIOUS
    <3>1. CASE w # t
      BY <1>0, <1>c, <1>d, <2>1, <2>2, <3>1
    <3>2. CASE w = t /\ WorkPopEnds(t) /\ pc'[t] = "gate"
      <4>1. s = workBuf[idx[t]] /\ idx[t] \in WQ!Slots
        BY <3>2, Arrivals
      <4>2. QED BY <1>c, <2>2, <3>2, <4>1
    <3>3. CASE /\ w = t /\ running'[t] = running[t]
               /\ \/ pc'[t] = pc[t] \/ (pc[t] = "gate" /\ pc'[t] = "requeue")
                  \/ pc[t] \in {"ops", "give"} /\ pc'[t] \in {"ops", "give"}
      <4>1. running[w] = s
        BY <3>3
      <4>2. QED BY <1>c, <2>1, <2>2, <3>3, <4>1
    <3>4. QED BY <1>3, <3>1, <3>2, <3>3, LoopMoves
  <2>7. QED BY <1>c, <2>1, <2>3, <2>4, <2>5, <2>6, StageAfter
<1>4. QED BY <1>1, <1>2, <1>3

\* A thread that is in run() of a job is the only one.
LEMMA OneRunner ==
  ASSUME ControlInv, StageInv, OneSpot, LastOut, NEW w \in Workers, doing[w] # Null
  PROVE  /\ w \in Threads /\ doing[w] \in Jobs /\ begun[doing[w]] = 1 /\ ran[doing[w]] = 0
         /\ running[w] \in WorkerSlots /\ slotJob[running[w]] = doing[w]
         /\ \A u \in Workers : doing[u] = doing[w] => u = w
<1> USE DEF ControlInv
<1>1. ASSUME NEW u \in Workers, doing[u] # Null
      PROVE  /\ pc[u] \in {"ops", "give"} /\ u \in Threads /\ doing[u] \in Jobs
             /\ running[u] \in WorkerSlots /\ Has("running", u, running[u])
             /\ Busy(running[u]) /\ doing[u] = slotJob[running[u]]
  <2>1. pc[u] \in {"ops", "give"} /\ u \in Threads /\ doing[u] \in Jobs
    BY <1>1 DEF HandInv, TypeInv, Threads
  <2>2. QED BY <2>1, SlotOf DEF StageInv, Job
<1>2. ASSUME NEW u \in Workers, doing[u] = doing[w] PROVE u = w
  <2>1. /\ slotJob[running[u]] = slotJob[running[w]] /\ slotJob[running[u]] # Null
        /\ running[u] \in WorkerSlots /\ running[w] \in WorkerSlots
        /\ Has("running", u, running[u]) /\ Has("running", w, running[w])
    BY <1>1, <1>2
  <2>2. running[u] = running[w]
    BY <2>1 DEF StageInv
  <2>3. QED BY <2>1, <2>2, OneHolds
<1>3. QED BY <1>1, <1>2 DEF Busy, Stands

\* A job is put into a slot by the push that takes one.
LEMMA TakenStep ==
  ASSUME ControlInv, OwnInv, StageInv, NEW t \in Threads, Step(t), NEW j \in Jobs, Taken(j)'
  PROVE  Taken(j) \/ (TakeEnds(t) /\ j = Arg(t).job)
<1>1. CASE TakeEnds(t)
  <2>1. slotJob' = [slotJob EXCEPT ![val[t]] = Arg(t).job] /\ begun' = begun /\ ran' = ran
    BY <1>1, Takes
  <2>2. \A s \in WorkerSlots : slotJob'[s] = slotJob[s] \/ slotJob'[s] = Arg(t).job
    BY <2>1 DEF ControlInv, TypeInv
  <2>3. QED BY <1>1, <2>1, <2>2 DEF Taken, WorkerSlots
<1>2. CASE PassGate(t) \/ Finish(t)
  <2>1. /\ slotJob' = slotJob /\ slotJob[running[t]] = Job(t) /\ running[t] \in WorkerSlots
        /\ j # Job(t) => begun'[j] = begun[j] /\ ran'[j] = ran[j]
    <3>1. CASE PassGate(t)
      BY <3>1, Enters DEF ControlInv, TypeInv
    <3>2. CASE Finish(t)
      BY <3>2, Returns DEF ControlInv, TypeInv
    <3>3. QED BY <1>2, <3>1, <3>2
  <2>2. QED BY <2>1 DEF Taken, WorkerSlots
<1>3. CASE ~TakeEnds(t) /\ ~PassGate(t) /\ ~Finish(t)
  BY <1>3, Effects DEF Taken, WorkerSlots
<1>4. QED BY <1>1, <1>2, <1>3

\* It has not been there before.
LEMMA NotTaken ==
  ASSUME ControlInv, OwnInv, OriginInv, NEW t \in Threads, Step(t), TakeEnds(t)
  PROVE  ~Taken(Arg(t).job)
<1> SUFFICES ASSUME Taken(Arg(t).job) PROVE FALSE
  OBVIOUS
<1>1. /\ Arg(t).job \in Jobs /\ PushAt(Ops(t), next[t], Arg(t).job) /\ pc[t] = "ops"
      /\ t # Main => t \in Workers /\ doing[t] \in Jobs /\ Ops(t) = Body[doing[t]]
      /\ t = Main => Ops(t) = Client
  BY Takes
<1>2. ToCome(t, next[t])
  BY <1>1 DEF ToCome
<1>3. CASE t = Main
  BY <1>1, <1>2, <1>3 DEF OriginInv
<1>4. CASE t # Main
  BY <1>1, <1>2, <1>4 DEF OriginInv
<1>5. QED BY <1>3, <1>4

\* A thread goes on to its next operation only.
LEMMA GoesOn ==
  ASSUME ControlInv, NEW t \in Threads, Step(t), ~PassGate(t)
  PROVE  \/ next'[t] = next[t] /\ (pc[t] = "give" => pc'[t] = "give")
         \/ next'[t] = next[t] + 1 /\ pc[t] \notin {"gate", "pop"}
<1> USE DEF ControlInv, TypeInv
<1>1. CASE WorkShape(t) \/ StockShape(t)
  <2>1. CASE GiveEnds(t) \/ TakeFails(t) \/ BuildEnds(t)
    BY <2>1 DEF GiveEnds, TakeFails, BuildEnds, Op
  <2>2. CASE WorkPopEnds(t) \/ WorkPopFails(t) \/ RequeueEnds(t) \/ RestockEnds(t) \/ TakeEnds(t)
    BY <2>2 DEF WorkPopEnds, WorkPopFails, RequeueEnds, RestockEnds, TakeEnds, Op
  <2>3. CASE WorkPushGoes(t) \/ WorkPopGoes(t) \/ RestockGoes(t) \/ BuildGoes(t) \/ TakeGoes(t)
    BY <2>3 DEF WorkPushGoes, WorkPopGoes, RestockGoes, BuildGoes, TakeGoes
  <2>4. QED BY <1>1, <2>1, <2>2, <2>3 DEF WorkShape, StockShape
<1>2. CASE Asks(t)
  BY <1>2 DEF Asks
<1>3. CASE CallFree(t)
  <2>1. CASE UNCHANGED <<pc, next, doing>>
    BY <2>1
  <2>2. CASE Quiet(t) /\ pc[t] # "give"
    <3>1. CASE AddCount(t) \/ ExecuteAll(t) \/ WaitOver(t) \/ Join(t)
      BY <3>1 DEF AddCount, ExecuteAll, WaitOver, Join, NextOp, Jump
    <3>2. CASE ~AddCount(t) /\ ~ExecuteAll(t) /\ ~WaitOver(t) /\ ~Join(t)
      BY <2>2, <3>2 DEF Quiet, Lock, CheckEnabled, Sleep, Wake, Unlock, CheckRunning, Enter,
         MissGate, Finish, Leave, CheckLast, NotifyWait, WaitLock, WaitCount, WaitSleep,
         WaitWake, StopFlag, StopNotify, Spurious
    <3>3. QED BY <3>1, <3>2
  <2>3. CASE ~Quiet(t) /\ ~UNCHANGED <<pc, next, doing>>
    <3>1. /\ pc[t] \notin {"restock", "requeue", "give", "pop", "empty?", "drained?", "queue?"}
          /\ ~Op(t, "stock") /\ ~Op(t, "push")
      BY <1>3, <2>3 DEF CallFree
    <3>2. QED BY <2>3, <3>1, StepCases DEF PopSlot, Restock, Requeue, StockSlot, TakeSlot, GiveSlot, CheckEmpty,
             CheckDrained, WaitEmpty, AskEmpty, Stay, Jump, NextOp
  <2>4. QED BY <1>3, <2>1, <2>2, <2>3 DEF CallFree
<1>4. QED BY <1>1, <1>2, <1>3, StepShape

\* What is still to come after a step was to come before it.
LEMMA ToComeKept ==
  ASSUME ControlInv, ControlInv', NEW t \in Threads, Step(t), NEW u \in Threads, u = t => ~PassGate(t), NEW i \in Nat
  PROVE  ToCome(u, i)' => ToCome(u, i)
<1>0. next[u] \in Nat /\ next'[u] \in Nat
  BY DEF ControlInv, TypeInv, Threads
<1>1. CASE u # t
  BY <1>1, OthersStay DEF ToCome
<1>2. CASE u = t
  <2>1. CASE next'[t] = next[t] /\ (pc[t] = "give" => pc'[t] = "give")
    BY <1>2, <2>1 DEF ToCome
  <2>2. CASE next'[t] = next[t] + 1
    BY <1>0, <1>2, <2>2 DEF ToCome
  <2>3. QED BY <1>2, <2>1, <2>2, GoesOn
<1>3. QED BY <1>1, <1>2

\* Nobody leaves a run() but by its return.
LEMMA BegunStep ==
  ASSUME ControlInv, PlaceInv, NEW t \in Threads, Step(t)
  PROVE  BegunInv'
<1> USE DEF PlaceInv
<1> SUFFICES ASSUME NEW j \in Jobs, begun'[j] # 0, ran'[j] = 0 PROVE \E w \in Workers : doing'[w] = j
  BY DEF BegunInv
<1>0. \A u \in Threads \ {t} : doing'[u] = doing[u]
  BY OthersStay
<1>1. CASE PassGate(t)
  <2>1. CASE j = Job(t)
    BY <1>1, <2>1, Enters
  <2>2. CASE j # Job(t)
    <3>1. begun[j] # 0 /\ ran[j] = 0 /\ doing[t] = Null
      BY <1>1, <2>2, Enters DEF ControlInv, TypeInv
    <3>2. PICK w \in Workers : doing[w] = j
      BY <3>1 DEF BegunInv
    <3>3. w # t /\ w \in Threads
      BY <3>1, <3>2, SlotAssumption DEF Threads
    <3>4. QED BY <1>0, <3>2, <3>3
  <2>3. QED BY <2>1, <2>2
<1>2. CASE Finish(t)
  <2>1. j # Job(t) /\ doing[t] = Job(t) /\ begun' = begun /\ Job(t) \in Jobs
    BY <1>2, Returns DEF ControlInv, TypeInv
  <2>2. begun[j] # 0 /\ ran[j] = 0
    BY <1>2, <2>1, Returns DEF ControlInv, TypeInv
  <2>3. PICK w \in Workers : doing[w] = j
    BY <2>2 DEF BegunInv
  <2>4. w # t /\ w \in Threads
    BY <2>1, <2>3 DEF Threads
  <2>5. QED BY <1>0, <2>3, <2>4
<1>3. CASE ~PassGate(t) /\ ~Finish(t)
  BY <1>3, Effects DEF BegunInv
<1>4. QED BY <1>1, <1>2, <1>3

\* A push still to come stays one of a job that has not been put into a slot.
LEMMA OriginStep ==
  ASSUME ControlInv, ControlInv', OwnInv, PlaceInv, EachPushedOnce, NEW t \in Threads, Step(t)
  PROVE  OriginInv'
<1> USE DEF PlaceInv
<1>0. /\ Client' = Client /\ Body' = Body /\ Main \in Threads /\ Workers \subseteq Threads
      /\ Body \in [Jobs -> Seq(JobOps)]
  <2>1. program' = program
    BY StepCases
  <2>2. Body \in [Jobs -> Seq(JobOps)]
    BY ProgramsAssumption DEF ControlInv, TypeInv, Body
  <2>3. QED BY <2>1, <2>2, SameProgram DEF Body, Threads
<1>a. /\ \A i, j : PushAt(Client, i, j) => i \in Nat
      /\ \A a \in Jobs : \A i, j : PushAt(Body[a], i, j) => i \in Nat
  <2>1. DOMAIN Client = 1 .. Len(Client) /\ Len(Client) \in Nat
    BY ClientFacts DEF ControlInv
  <2>2. \A a \in Jobs : DOMAIN Body[a] = 1 .. Len(Body[a]) /\ Len(Body[a]) \in Nat
    BY <1>0, LenProperties
  <2>3. QED BY <2>1, <2>2 DEF PushAt
<1>b. /\ \A i, j : PushAt(Client, i, j)' <=> PushAt(Client, i, j)
      /\ \A a \in Jobs : \A i, j : PushAt(Body[a], i, j)' <=> PushAt(Body[a], i, j)
  BY <1>0 DEF PushAt
<1> SUFFICES ASSUME NEW j \in Jobs, Taken(j)'
             PROVE  /\ \A i : PushAt(Client, i, j) => ~ToCome(Main, i)'
                    /\ \A a \in Jobs : \A i : PushAt(Body[a], i, j) =>
                         begun'[a] # 0 /\ \A w \in Workers : doing'[w] = a => ~ToCome(w, i)'
  BY <1>b DEF OriginInv
<1>1. ~PassGate(Main)
  <2>1. PassGate(Main) => Main \in Workers
    BY <1>0, Enters
  <2>2. QED BY <2>1, MainAssumption
<1>2. CASE Taken(j)
  <2>1. ASSUME NEW i, PushAt(Client, i, j), ToCome(Main, i)' PROVE FALSE
    <3>1. i \in Nat
      BY <1>a, <2>1
    <3>2. ToCome(Main, i)
      BY <1>0, <1>1, <2>1, <3>1, ToComeKept
    <3>3. QED BY <1>2, <2>1, <3>2 DEF OriginInv
  <2>2. ASSUME NEW a \in Jobs, NEW i, PushAt(Body[a], i, j)
        PROVE  begun'[a] # 0 /\ \A w \in Workers : doing'[w] = a => ~ToCome(w, i)'
    <3>1. begun[a] # 0 /\ i \in Nat /\ \A w \in Workers : doing[w] = a => ~ToCome(w, i)
      BY <1>2, <1>a, <2>2 DEF OriginInv
    <3>2. begun'[a] # 0
      <4>1. CASE PassGate(t)
        BY <3>1, <4>1, Enters DEF ControlInv, TypeInv
      <4>2. CASE Finish(t)
        BY <3>1, <4>2, Returns
      <4>3. CASE ~PassGate(t) /\ ~Finish(t)
        BY <3>1, <4>3, Effects
      <4>4. QED BY <4>1, <4>2, <4>3
    <3>3. ASSUME NEW w \in Workers, doing'[w] = a, ToCome(w, i)' PROVE FALSE
      <4>1. ~(w = t /\ PassGate(t))
        BY <3>1, <3>3, Enters
      <4>2. ~(w = t /\ Finish(t))
        BY <3>3, Returns, SlotAssumption
      <4>3. doing[w] = a
        BY <1>0, <3>3, <4>1, <4>2, OthersStay, Effects
      <4>4. ToCome(w, i)
        BY <1>0, <3>1, <3>3, <4>1, ToComeKept
      <4>5. QED BY <3>1, <4>3, <4>4
    <3>4. QED BY <3>2, <3>3
  <2>3. QED BY <2>1, <2>2
<1>3. CASE ~Taken(j)
  <2>1. TakeEnds(t) /\ j = Arg(t).job
    BY <1>3, TakenStep
  <2>2. /\ PushAt(Ops(t), next[t], j) /\ pc'[t] = "give" /\ next'[t] = next[t] /\ doing' = doing /\ begun' = begun
        /\ t # Main => t \in Workers /\ doing[t] \in Jobs /\ Ops(t) = Body[doing[t]]
        /\ t = Main => Ops(t) = Client
    BY <2>1, Takes
  <2>3. CASE t = Main
    <3>1. \A i : PushAt(Client, i, j) => i = next[t]
      BY <2>2, <2>3 DEF EachPushedOnce
    <3>2. \A a \in Jobs : \A i : ~PushAt(Body[a], i, j)
      BY <2>2, <2>3 DEF EachPushedOnce
    <3>3. PICK n : n = next[t]
      OBVIOUS
    <3>4. ~ToCome(Main, n)'
      BY <2>2, <2>3, <3>3 DEF ToCome, ControlInv, TypeInv
    <3>5. QED BY <3>1, <3>2, <3>3, <3>4
  <2>4. CASE t # Main
    <3>1. PICK b \in Jobs : b = doing[t] /\ PushAt(Body[b], next[t], j) /\ t \in Workers
      BY <2>2, <2>4
    <3>2. \A i : ~PushAt(Client, i, j)
      BY <3>1 DEF EachPushedOnce
    <3>3. \A a \in Jobs : \A i : PushAt(Body[a], i, j) => a = b /\ i = next[t]
      BY <3>1 DEF EachPushedOnce
    <3>4. begun[b] = 1 /\ \A w \in Workers : doing[w] = b => w = t
      BY <3>1, OneRunner, SlotAssumption DEF OwnInv
    <3>5. PICK n : n = next[t]
      OBVIOUS
    <3>6. ~ToCome(t, n)'
      BY <2>2, <3>5 DEF ToCome, ControlInv, TypeInv
    <3>7. QED BY <2>2, <3>2, <3>3, <3>4, <3>5, <3>6
  <2>5. QED BY <2>3, <2>4
<1>4. QED BY <1>2, <1>3

\* A job is put into a slot, entered and left once, by the thread that has the slot.
LEMMA PlaceStep ==
  ASSUME ControlInv, ControlInv', OwnInv, PlaceInv, EachPushedOnce, NEW t \in Threads, Step(t)
  PROVE  PlaceInv'
<1>1. TakeEnds(t) => ~Taken(Arg(t).job)
  BY NotTaken DEF PlaceInv
<1>2. StageInv'
  BY <1>1, StageStep
<1>3. BegunInv'
  BY BegunStep
<1>4. OriginInv'
  BY OriginStep
<1>5. QED BY <1>2, <1>3, <1>4 DEF PlaceInv

\* The constructor has not set any slot.
LEMMA PlaceInit == Init => PlaceInv
<1> SUFFICES ASSUME Init PROVE PlaceInv
  OBVIOUS
<1>1. /\ \A s \in WorkerSlots : slotJob[s] = Null
      /\ \A j \in Jobs : begun[j] = 0 /\ ran[j] = 0
      /\ \A i \in WQ!Slots : workBuf[i] = Null /\ stockBuf[i] = Null
      /\ \A t \in Threads : hand[t] = Null
      /\ \A w \in Workers : pc[w] \in {"lock", "done"}
  <2>1. \A w \in Workers : pc[w] = IF w \in Crew THEN "lock" ELSE "done"
    BY MainAssumption, Zenon DEF Init, Threads
  <2>2. \A i \in WQ!Slots : workBuf[i] = Null /\ stockBuf[i] = Null
    BY SameSlots DEF Init, WQ!RingInit, SQ!RingInit
  <2>3. QED BY <2>1, <2>2 DEF Init
<1>2. StageInv
  BY <1>1 DEF StageInv, Spent
<1>3. BegunInv
  BY <1>1 DEF BegunInv
<1>4. \A j \in Jobs : ~Taken(j)
  BY <1>1, SlotAssumption DEF Taken
<1>5. QED BY <1>2, <1>3, <1>4 DEF PlaceInv, OriginInv

-----------------------------------------------------------------------------
(* How a counter falls. *)

\* The operations on counters, and the return from run().
Points(k) == {0} \cup {i \in DOMAIN Body[k] : Body[k][i].op = "add"}

\* The marks and raises of a job among them, and their range.
LEMMA PointsAre ==
  ASSUME ControlInv, NEW k \in Jobs
  PROVE  /\ Marks(k) \subseteq Points(k) /\ \A c : Raises(k, c) \subseteq Points(k) \ {0}
         /\ \A c : \A i \in Marks(k) : i \notin Raises(k, c)
         /\ \A i \in Points(k) : i \in Nat /\ i <= Len(Body[k])
         /\ Lowerings(k) = Marks(k) \ {0} /\ (0 \in Marks(k) <=> After[k] # Null) /\ Len(Body[k]) \in Nat
         /\ \A i : \A j : PushAt(Body[k], i, j) => i \in Nat /\ i # 0
<1>1. Body[k] \in Seq(JobOps)
  BY ProgramsAssumption DEF ControlInv, TypeInv, Body
<1>2. DOMAIN Body[k] = 1 .. Len(Body[k]) /\ Len(Body[k]) \in Nat
  BY <1>1, LenProperties
<1>3. \A i \in Lowerings(k) : i \in DOMAIN Body[k] /\ Body[k][i].op = "add" /\ Body[k][i].by < 0
  BY DEF Lowerings
<1>4. 0 \notin DOMAIN Body[k]
  BY <1>2
<1>5. ASSUME NEW i \in DOMAIN Body[k], Body[k][i].op = "add" PROVE Body[k][i].by \in Int
  <2>1. Body[k][i] \in JobOps
    BY <1>1, <1>2, <1>5, ElementOfSeq
  <2>2. QED BY <1>5, <2>1, OpTypes DEF ClientOps
<1>6. \A c : \A i \in Marks(k) : i \notin Raises(k, c)
  <2> SUFFICES ASSUME NEW c, NEW i \in Marks(k), i \in Raises(k, c) PROVE FALSE
    OBVIOUS
  <2>1. i \in DOMAIN Body[k] /\ Body[k][i].op = "add" /\ Body[k][i].by > 0
    BY DEF Raises
  <2>2. Body[k][i].by < 0
    BY <1>3, <1>4, <2>1 DEF Marks
  <2>3. QED BY <1>5, <2>1, <2>2
<1>7. Marks(k) \subseteq Points(k)
  BY <1>3 DEF Marks, Points
<1>8. \A c : Raises(k, c) \subseteq Points(k) \ {0}
  BY <1>4 DEF Raises, Points
<1>9. \A i \in Points(k) : i \in Nat /\ i <= Len(Body[k])
  BY <1>2 DEF Points
<1>10. Lowerings(k) = Marks(k) \ {0} /\ (0 \in Marks(k) <=> After[k] # Null)
  BY <1>3, <1>4 DEF Marks
<1>11. QED BY <1>2, <1>6, <1>7, <1>8, <1>9, <1>10 DEF PushAt

\* What a worker goes past without AddCount is no operation on a counter.
LEMMA PassesPush ==
  ASSUME ControlInv, NEW t \in Workers, Step(t), ~AddCount(t), ~PassGate(t), doing[t] # Null,
         next'[t] = next[t] + 1
  PROVE  next[t] <= Len(Body[doing[t]]) /\ Body[doing[t]][next[t]].op = "push"
<1> USE DEF ControlInv, TypeInv
<1>0. t \in Threads /\ t # Main /\ Ops(t) = Body[doing[t]] /\ next[t] \in Nat /\ pc[t] \in {"ops", "give"}
  BY MainAssumption DEF Threads, Ops, HandInv
<1>1. next'[t] # next[t]
  BY <1>0
<1>2. CASE TakeSlot(t)
  BY <1>0, <1>2 DEF TakeSlot, Op
<1>3. CASE GiveSlot(t)
  BY <1>0, <1>3 DEF GiveSlot, PushInv, Arg, Stay, NextOp, Jump
<1>4. CASE ~TakeSlot(t) /\ ~GiveSlot(t)
  <2>1. next' = next
    BY <1>0, <1>4, WorkerSteps DEF Lock, CheckEnabled, Sleep, Wake, Unlock, CheckRunning, Enter,
       MissGate, Finish, Leave, CheckLast, NotifyWait, PopSlot, Restock, Requeue, CheckEmpty, CheckDrained, AskEmpty,
       Spurious
  <2>2. QED BY <1>1, <2>1
<1>5. QED BY <1>2, <1>3, <1>4

\* A point is passed by AddCount, or by the return of run(), in the thread that runs
\* the job, and stays so.
LEMMA DoneStep ==
  ASSUME ControlInv, StageInv, NEW t \in Threads, Step(t), NEW k \in Jobs, NEW i \in Points(k)
  PROVE  Done(k, i)' <=> \/ Done(k, i)
                         \/ AddCount(t) /\ t \in Workers /\ doing[t] = k /\ next[t] = i
                         \/ Finish(t) /\ doing[t] = k /\ i = 0
<1> USE DEF ControlInv
<1>0. i \in Nat /\ i <= Len(Body[k]) /\ Len(Body[k]) \in Nat /\ (i # 0 => Body[k][i].op = "add")
  BY PointsAre DEF Points
<1>a. /\ next[t] \in Nat \ {0} /\ \A j \in Jobs : ran[j] \in Nat /\ j # Null
  BY SlotAssumption DEF TypeInv
<1> DEFINE At(w) == doing[w] = k /\ next[w] > i
<1>b. \A w \in Workers : w # t => (At(w)' <=> At(w))
  BY OthersStay DEF Threads
<1>1. CASE PassGate(t)
  <2>1. ran' = ran /\ doing[t] = Null /\ next'[t] = 1 /\ ~AddCount(t) /\ ~Finish(t)
    BY <1>1, Enters DEF AddCount, Op, Finish, Jump
  <2>2. i # 0 => ~At(t) /\ ~At(t)'
    BY <1>0, <1>a, <2>1
  <2>3. i # 0 => \A w \in Workers : At(w)' <=> At(w)
    BY <1>b, <2>2
  <2>4. QED BY <2>1, <2>3 DEF Done, Past
<1>2. CASE Finish(t)
  <2>1. PICK j \in Jobs : j = doing[t] /\ j = Job(t)
    BY <1>2, Returns
  <2>2. /\ ran' = [ran EXCEPT ![j] = 1] /\ doing'[t] = Null /\ next[t] > Len(Body[j]) /\ t \in Workers
        /\ pc[t] = "ops"
    BY <1>2, <2>1, Returns
  <2>3. CASE k = j
    <3>1. ran'[k] > 0
      BY <2>2, <2>3 DEF TypeInv
    <3>2. Done(k, i)'
      BY <3>1 DEF Done
    <3>3. i # 0 => At(t)
      BY <1>0, <1>a, <2>1, <2>2, <2>3
    <3>4. i # 0 => Done(k, i)
      BY <2>2, <3>3 DEF Done, Past
    <3>5. QED BY <1>2, <2>1, <2>3, <3>2, <3>4
  <2>4. CASE k # j
    <3>1. ran'[k] = ran[k] /\ ~At(t) /\ ~At(t)'
      BY <1>a, <2>1, <2>2, <2>4 DEF TypeInv
    <3>2. \A w \in Workers : At(w)' <=> At(w)
      BY <1>b, <3>1
    <3>3. ~AddCount(t)
      <4>1. Ops(t) = Body[j] /\ Len(Body[j]) \in Nat
        BY <1>2, <2>1, Returns, PointsAre
      <4>2. QED BY <1>a, <2>2, <4>1 DEF AddCount, Op
    <3>4. QED BY <2>1, <2>4, <3>1, <3>2, <3>3 DEF Done, Past
  <2>5. QED BY <2>3, <2>4
<1>3. CASE AddCount(t)
  <2>1. ran' = ran /\ doing' = doing /\ next'[t] = next[t] + 1 /\ pc[t] = "ops" /\ pc'[t] = "ops"
    BY <1>3 DEF AddCount, NextOp, Jump, Op, TypeInv
  <2>2. ~Finish(t)
    BY <2>1 DEF Finish, Jump, TypeInv
  <2>3. At(t)' <=> At(t) \/ (doing[t] = k /\ next[t] = i)
    BY <1>0, <1>a, <2>1
  <2>4. (\E w \in Workers : At(w)') <=> (\E w \in Workers : At(w)) \/ (t \in Workers /\ doing[t] = k /\ next[t] = i)
    BY <1>b, <2>3
  <2>5. i # 0 => (Past(k, i)' <=> Past(k, i) \/ (t \in Workers /\ doing[t] = k /\ next[t] = i))
    BY <2>4 DEF Past
  <2>6. QED BY <1>3, <1>a, <2>1, <2>2, <2>5 DEF Done
<1>4. CASE ~PassGate(t) /\ ~Finish(t) /\ ~AddCount(t)
  <2>1. ran' = ran /\ doing' = doing
    BY <1>4, Effects
  <2>2. t \in Workers /\ i # 0 => (At(t)' <=> At(t))
    <3> SUFFICES ASSUME t \in Workers, i # 0, doing[t] = k PROVE next'[t] > i <=> next[t] > i
      BY <2>1
    <3>1. CASE next'[t] = next[t]
      BY <3>1
    <3>2. CASE next'[t] = next[t] + 1
      <4>1. Body[k][next[t]].op = "push"
        BY <1>4, <1>a, <3>2, PassesPush
      <4>2. next[t] # i
        BY <1>0, <4>1
      <4>3. QED BY <1>0, <1>a, <3>2, <4>2
    <3>3. QED BY <1>4, <3>1, <3>2, GoesOn
  <2>3. i # 0 => \A w \in Workers : At(w)' <=> At(w)
    BY <1>b, <2>2
  <2>4. QED BY <1>4, <2>1, <2>3 DEF Done, Past
<1>5. QED BY <1>1, <1>2, <1>3, <1>4

\* A job that pushes has raised the counter before the job it pushes is in a slot.
LEMMA RaisedBefore ==
  ASSUME ControlInv, PlaceInv, NEW b \in Jobs, NEW k \in Jobs, Taken(k), IsPushed(b, k), NEW c, NEW r,
         Provides(b, c, r)
  PROVE  \A x \in Raises(b, c) : Done(b, x)
<1> USE DEF PlaceInv, ControlInv
<1>1. PICK p : PushAt(Body[b], p, k)
  BY DEF IsPushed
<1>2. Raises(b, c) = {r} /\ p > r
  BY <1>1 DEF Provides
<1>3. begun[b] # 0 /\ \A w \in Workers : doing[w] = b => ~ToCome(w, p)
  BY <1>1 DEF OriginInv
<1>4. p \in Nat /\ r \in Nat /\ r # 0 /\ ran[b] \in Nat
  BY <1>1, <1>2, PointsAre DEF TypeInv
<1>5. CASE ran[b] # 0
  BY <1>2, <1>4, <1>5 DEF Done
<1>6. CASE ran[b] = 0
  <2>1. PICK w \in Workers : doing[w] = b
    BY <1>3, <1>6 DEF BegunInv
  <2>2. next[w] \in Nat
    BY DEF TypeInv, Threads
  <2>3. next[w] > r
    BY <1>2, <1>3, <1>4, <2>1, <2>2 DEF ToCome
  <2>4. QED BY <1>2, <1>4, <2>1, <2>3 DEF Done, Past
<1>7. QED BY <1>5, <1>6

\* What is owed to a counter.
LEMMA OwedIs ==
  ASSUME ControlInv, CountsDown, NEW c \in Counters
  PROVE  /\ IsFiniteSet(AllDue(c)) /\ IsFiniteSet(Owed(c)) /\ Cardinality(Owed(c)) \in Nat
         /\ \A a \in Jobs : IsFiniteSet(Kids(a, c)) /\ Cardinality(Kids(a, c)) \in Nat
         /\ \A d \in AllDue(c) : /\ d[1] \in Jobs /\ d[2] \in Marks(d[1]) /\ CounterOf(d[1], d[2]) = c
                                 /\ d[2] \in Points(d[1]) /\ d[2] \notin Raises(d[1], c) /\ d = <<d[1], d[2]>>
         /\ \A k \in Jobs : \A i \in Marks(k) : CounterOf(k, i) = c => <<k, i>> \in AllDue(c)
<1>1. IsFiniteSet(AllDue(c)) /\ Owed(c) \in SUBSET AllDue(c) /\ \A a \in Jobs : Kids(a, c) \in SUBSET AllDue(c)
  BY DEF CountsDown, Owed, Kids
<1>2. IsFiniteSet(Owed(c)) /\ \A a \in Jobs : IsFiniteSet(Kids(a, c))
  BY <1>1, FS_Subset
<1>3. \A d \in AllDue(c) : /\ d[1] \in Jobs /\ d[2] \in Marks(d[1]) /\ CounterOf(d[1], d[2]) = c
                           /\ d = <<d[1], d[2]>>
  BY DEF AllDue
<1>4. \A d \in AllDue(c) : d[2] \in Points(d[1]) /\ d[2] \notin Raises(d[1], c)
  BY <1>3, PointsAre
<1>5. ASSUME NEW k \in Jobs, NEW i \in Marks(k), CounterOf(k, i) = c PROVE <<k, i>> \in AllDue(c)
  <2>1. i \in Nat
    BY PointsAre
  <2>2. QED BY <1>5, <2>1 DEF AllDue
<1>6. QED BY <1>1, <1>2, <1>3, <1>4, <1>5, FS_CardinalityType

\* The program's part in it does not change.
LEMMA SameDue ==
  ASSUME NEW t, Step(t)
  PROVE  /\ (CountsDown' <=> CountsDown) /\ (EachPushedOnce' <=> EachPushedOnce)
         /\ \A c : AllDue(c)' = AllDue(c) /\ \A a : Kids(a, c)' = Kids(a, c) /\ Raises(a, c)' = Raises(a, c)
         /\ \A a, k : IsPushed(a, k)' <=> IsPushed(a, k)
         /\ \A k : Marks(k)' = Marks(k) /\ Lowerings(k)' = Lowerings(k) /\ After'[k] = After[k] /\ Gate'[k] = Gate[k]
         /\ \A k, c : Lowers(k, c)' <=> Lowers(k, c)
<1>1. program' = program /\ Client' = Client
  BY StepCases, SameProgram
<1>2. Body' = Body /\ After' = After /\ Gate' = Gate
  BY <1>1 DEF Body, After, Gate
<1>3. \A k : Lowerings(k)' = Lowerings(k)
  BY <1>2 DEF Lowerings
<1>4. \A k : Marks(k)' = Marks(k) /\ \A i : CounterOf(k, i)' = CounterOf(k, i)
  BY <1>2, <1>3 DEF Marks, CounterOf
<1>5. \A c : AllDue(c)' = AllDue(c)
  BY <1>4 DEF AllDue
<1>6. /\ \A ops, i, j : PushAt(ops, i, j)' <=> PushAt(ops, i, j)
      /\ \A a, k : IsPushed(a, k)' <=> IsPushed(a, k)
  BY <1>2 DEF PushAt, IsPushed
<1>7. \A a, c : Kids(a, c)' = Kids(a, c) /\ Raises(a, c)' = Raises(a, c)
  BY <1>2, <1>5, <1>6 DEF Kids, Raises
<1>8. \A a, c, r : Provides(a, c, r)' <=> Provides(a, c, r)
  BY <1>2, <1>4, <1>6, <1>7 DEF Provides
<1>9. \A c : Roots(c)' = Roots(c)
  BY <1>5, <1>6 DEF Roots
<1>10. CountsDown' <=> CountsDown
  BY <1>1, <1>2, <1>3, <1>4, <1>5, <1>7, <1>8, <1>9 DEF CountsDown
<1>11. EachPushedOnce' <=> EachPushedOnce
  BY <1>1, <1>2 DEF EachPushedOnce, PushAt
<1>12. \A k, c : Lowers(k, c)' <=> Lowers(k, c)
  BY <1>2, <1>3 DEF Lowers
<1>13. QED BY <1>2, <1>3, <1>4, <1>5, <1>6, <1>7, <1>10, <1>11, <1>12

\* What is owed to a counter after a step.
LEMMA OwedAfter ==
  ASSUME NEW t, Step(t), NEW c
  PROVE  Owed(c)' = {d \in AllDue(c) : /\ ~Done(d[1], d[2])'
                                       /\ \A a \in Jobs : IsPushed(a, d[1]) => \A r \in Raises(a, c) : Done(a, r)'}
<1>1. /\ AllDue(c)' = AllDue(c) /\ \A a : Raises(a, c)' = Raises(a, c)
      /\ \A a, k : IsPushed(a, k)' <=> IsPushed(a, k)
  BY SameDue
<1>2. \A d : Told(d[1], c)' <=> \A a \in Jobs : IsPushed(a, d[1]) => \A r \in Raises(a, c) : Done(a, r)'
  BY <1>1 DEF Told
<1>3. QED BY <1>1, <1>2 DEF Owed

\* Nothing changes for a counter where nothing on it is executed.
LEMMA OwedKept ==
  ASSUME ControlInv, CountsDown, NEW t \in Threads, Step(t), NEW c \in Counters,
         \A k \in Jobs : \A i \in Points(k) :
           (i \in Marks(k) /\ CounterOf(k, i) = c) \/ i \in Raises(k, c) => (Done(k, i)' <=> Done(k, i))
  PROVE  Owed(c)' = Owed(c)
<1>1. \A d \in AllDue(c) : Done(d[1], d[2])' <=> Done(d[1], d[2])
  <2> SUFFICES ASSUME NEW d \in AllDue(c) PROVE Done(d[1], d[2])' <=> Done(d[1], d[2])
    OBVIOUS
  <2>1. PICK k, i : k = d[1] /\ i = d[2]
    OBVIOUS
  <2>2. k \in Jobs /\ i \in Points(k) /\ i \in Marks(k) /\ CounterOf(k, i) = c
    BY <2>1, OwedIs
  <2>3. Done(k, i)' <=> Done(k, i)
    BY <2>2
  <2>4. QED BY <2>1, <2>3
<1>2. \A a \in Jobs : \A r \in Raises(a, c) : Done(a, r)' <=> Done(a, r)
  <2>1. \A a \in Jobs : \A r \in Raises(a, c) : r \in Points(a)
    BY PointsAre
  <2>2. QED BY <2>1
<1>3. QED BY <1>1, <1>2, OwedAfter DEF Owed, Told

\* A lowering that is executed was owed, and is owed no more.
LEMMA Lowered ==
  ASSUME ControlInv, OwnInv, PlaceInv, CountsDown, DueInv, NEW t \in Workers, Step(t),
         NEW a \in Jobs, doing[t] = a, NEW i \in Marks(a), NEW c0 \in Counters, CounterOf(a, i) = c0,
         i = 0 \/ next[t] = i,
         \A k \in Jobs : \A l \in Points(k) : Done(k, l)' <=> Done(k, l) \/ (k = a /\ l = i),
         count'[c0] = count[c0] - 1, \A c \in Counters \ {c0} : count'[c] = count[c]
  PROVE  DueInv'
<1>0. t \in Threads
  BY DEF Threads
<1>1. begun[a] = 1 /\ ran[a] = 0 /\ \A u \in Workers : doing[u] = a => u = t
  <2>1. a # Null
    BY SlotAssumption
  <2>2. OneSpot /\ LastOut /\ StageInv
    BY DEF OwnInv, PlaceInv
  <2>3. QED BY <2>1, <2>2, OneRunner
<1>2. ~Done(a, i)
  <2>1. i # 0 => ~Past(a, i)
    <3> SUFFICES ASSUME i # 0, Past(a, i) PROVE FALSE
      OBVIOUS
    <3>1. next[t] > i
      BY <1>1 DEF Past
    <3>2. next[t] \in Nat
      BY <1>0 DEF ControlInv, TypeInv
    <3>3. QED BY <3>1, <3>2
  <2>2. QED BY <1>1, <2>1 DEF Done
<1>3. <<a, i>> \in AllDue(c0) /\ i \in Points(a)
  BY OwedIs, PointsAre
<1>4. Told(a, c0)
  <2> SUFFICES ASSUME NEW b \in Jobs, IsPushed(b, a) PROVE \A x \in Raises(b, c0) : Done(b, x)
    BY DEF Told
  <2>1. <<a, i>> \in Kids(b, c0)
    BY <1>3 DEF Kids
  <2>2. PICK r : Provides(b, c0, r)
    BY <2>1 DEF CountsDown
  <2>3. Taken(a)
    BY <1>1 DEF Taken
  <2>4. QED BY <2>2, <2>3, RaisedBefore
<1>5. <<a, i>> \in Owed(c0)
  BY <1>2, <1>3, <1>4 DEF Owed
<1>6. Owed(c0)' = Owed(c0) \ {<<a, i>>}
  <2>1. \A d \in AllDue(c0) : Done(d[1], d[2])' <=> Done(d[1], d[2]) \/ d = <<a, i>>
    <3> SUFFICES ASSUME NEW d \in AllDue(c0) PROVE Done(d[1], d[2])' <=> Done(d[1], d[2]) \/ d = <<a, i>>
      OBVIOUS
    <3>1. PICK k, l : k = d[1] /\ l = d[2] /\ d = <<k, l>>
      BY OwedIs
    <3>2. k \in Jobs /\ l \in Points(k)
      BY <3>1, OwedIs
    <3>3. Done(k, l)' <=> Done(k, l) \/ (k = a /\ l = i)
      BY <3>2
    <3>4. QED BY <3>1, <3>3
  <2>2. \A b \in Jobs : \A r \in Raises(b, c0) : Done(b, r)' <=> Done(b, r)
    <3>1. \A b \in Jobs : \A r \in Raises(b, c0) : r \in Points(b) /\ ~(b = a /\ r = i)
      BY PointsAre
    <3>2. QED BY <3>1
  <2>3. Owed(c0)' = {d \in AllDue(c0) : (~Done(d[1], d[2]) /\ d # <<a, i>>) /\ Told(d[1], c0)}
    BY <2>1, <2>2, OwedAfter DEF Told
  <2>4. QED BY <2>3 DEF Owed
<1>7. Cardinality(Owed(c0)') = Cardinality(Owed(c0)) - 1
  <2>1. IsFiniteSet(Owed(c0))
    BY OwedIs
  <2>2. QED BY <1>5, <1>6, <2>1, FS_RemoveElement
<1>8. ASSUME NEW c \in Counters, c # c0 PROVE Owed(c)' = Owed(c)
  <2>1. ASSUME NEW k \in Jobs, NEW l \in Points(k),
               (l \in Marks(k) /\ CounterOf(k, l) = c) \/ l \in Raises(k, c)
        PROVE  Done(k, l)' <=> Done(k, l)
    <3>1. ~(k = a /\ l = i)
      BY <1>8, <2>1, PointsAre
    <3>2. QED BY <3>1
  <2>2. QED BY <1>0, <2>1, OwedKept
<1>9. ASSUME NEW c \in Counters PROVE Cardinality(Owed(c)') <= count'[c]
  <2>1. Cardinality(Owed(c)) <= count[c] /\ count[c] \in Int /\ Cardinality(Owed(c)) \in Nat
    BY OwedIs DEF DueInv, ControlInv, TypeInv
  <2>2. CASE c = c0
    <3>1. PICK m \in Nat : m = Cardinality(Owed(c0))
      BY <2>1, <2>2
    <3>2. PICK n \in Int : n = count[c0]
      BY <2>1, <2>2
    <3>3. Cardinality(Owed(c)') = m - 1 /\ count'[c] = n - 1 /\ m <= n
      BY <1>7, <2>1, <2>2, <3>1, <3>2
    <3>4. QED BY <3>3
  <2>3. CASE c # c0
    BY <1>8, <2>1, <2>3
  <2>4. QED BY <2>2, <2>3
<1>10. QED BY <1>9 DEF DueInv

\* What an operation on a counter does to it.
LEMMA Counts ==
  ASSUME ControlInv, NEW t \in Threads, AddCount(t)
  PROVE  /\ Arg(t).counter \in Counters /\ Arg(t).by \in Int /\ Arg(t).op = "add"
         /\ count'[Arg(t).counter] = count[Arg(t).counter] + Arg(t).by
         /\ \A c \in Counters \ {Arg(t).counter} : count'[c] = count[c]
         /\ begun' = begun /\ ran' = ran /\ doing' = doing /\ slotJob' = slotJob /\ ~Finish(t)
         /\ t \in Workers => doing[t] \in Jobs /\ next[t] \in DOMAIN Body[doing[t]] /\ Arg(t) = Body[doing[t]][next[t]]
         /\ t = Main => next[t] \in DOMAIN Client /\ Arg(t) = Client[next[t]]
<1> USE DEF ControlInv
<1>1. pc[t] = "ops" /\ next[t] <= Len(Ops(t)) /\ Arg(t).op = "add" /\ next[t] \in Nat \ {0}
  BY DEF AddCount, Op, Arg, TypeInv
<1>2. Arg(t).counter \in Counters /\ Arg(t).by \in Int
  BY <1>1, ArgOK, OpTypes
<1>3. PICK c0 \in Counters, n \in Int : c0 = Arg(t).counter /\ n = Arg(t).by
  BY <1>2
<1>4. count' = [count EXCEPT ![c0] = @ + n] /\ slotJob' = slotJob /\ begun' = begun /\ ran' = ran /\ doing' = doing
  BY <1>3 DEF AddCount, slots
<1>5. count'[c0] = count[c0] + n /\ \A c \in Counters \ {c0} : count'[c] = count[c]
  BY <1>3, <1>4 DEF TypeInv
<1>6. pc'[t] = "ops"
  BY <1>1 DEF AddCount, NextOp, Jump, TypeInv
<1>7. ~Finish(t)
  BY <1>6 DEF Finish, Jump, TypeInv
<1>8. t \in Workers => t # Main /\ doing[t] \in Jobs /\ Ops(t) \in Seq(JobOps) /\ Ops(t) = Body[doing[t]]
  BY <1>1, OpsOK, MainAssumption DEF Ops
<1>9. t \in Workers => next[t] \in DOMAIN Body[doing[t]] /\ Arg(t) = Body[doing[t]][next[t]]
  BY <1>1, <1>8 DEF Arg
<1>10. t = Main => next[t] \in DOMAIN Client /\ Arg(t) = Client[next[t]]
  <2> SUFFICES ASSUME t = Main PROVE next[t] \in DOMAIN Client /\ Arg(t) = Client[next[t]]
    OBVIOUS
  <2>1. Ops(t) = Client /\ Construct \in Seq(StockOps) /\ Script \in Seq(ClientOps)
    BY <1>1, OpsOK DEF Client, StockOps
  <2>2. Construct \in Seq(StockOps \cup ClientOps) /\ Script \in Seq(StockOps \cup ClientOps)
    BY <2>1
  <2>3. Client \in Seq(StockOps \cup ClientOps)
    BY <2>2, ConcatProperties DEF Client
  <2>4. QED BY <1>1, <2>1, <2>3 DEF Arg
<1>11. QED BY <1>1, <1>2, <1>3, <1>4, <1>5, <1>7, <1>8, <1>9, <1>10

\* A counter that is raised stays enough for what is owed to it, those told of it
\* by the operation included.
LEMMA Raised ==
  ASSUME ControlInv, StageInv, CountsDown, DueInv, NEW t \in Workers, Step(t), AddCount(t), Arg(t).by >= 0
  PROVE  DueInv'
<1>0. t \in Threads
  BY DEF Threads
<1>b. PICK a, i, c0, n : a = doing[t] /\ i = next[t] /\ c0 = Arg(t).counter /\ n = Arg(t).by
  OBVIOUS
<1>1. /\ a \in Jobs /\ i \in DOMAIN Body[a] /\ Arg(t) = Body[a][i] /\ Arg(t).op = "add"
      /\ c0 \in Counters /\ n \in Int /\ ~Finish(t) /\ count'[c0] = count[c0] + n
      /\ \A c \in Counters \ {c0} : count'[c] = count[c]
  BY <1>0, <1>b, Counts
<1>2. i \in Points(a) /\ i # 0 /\ i \notin Lowerings(a) /\ i \notin Marks(a)
  <2>1. i \in Points(a) /\ i \notin Lowerings(a)
    BY <1>b, <1>1 DEF Points, Lowerings
  <2>2. i # 0
    BY <1>0, <1>b DEF ControlInv, TypeInv
  <2>3. QED BY <2>1, <2>2 DEF Marks
<1>3. i \in Raises(a, c0) <=> n > 0
  BY <1>b, <1>1 DEF Raises
<1>4. \A c : c # c0 => i \notin Raises(a, c)
  BY <1>b, <1>1 DEF Raises
<1>d. ASSUME NEW k \in Jobs, NEW l \in Points(k)
      PROVE  Done(k, l)' <=> Done(k, l) \/ (k = a /\ l = i)
  BY <1>0, <1>b, <1>1, DoneStep
<1>5. ASSUME NEW c \in Counters, i \notin Raises(a, c) PROVE Owed(c)' = Owed(c)
  <2>1. ASSUME NEW k \in Jobs, NEW l \in Points(k),
               (l \in Marks(k) /\ CounterOf(k, l) = c) \/ l \in Raises(k, c)
        PROVE  Done(k, l)' <=> Done(k, l)
    <3>1. ~(k = a /\ l = i)
      BY <1>2, <1>5, <2>1
    <3>2. QED BY <1>d, <3>1
  <2>2. QED BY <1>0, <2>1, OwedKept
<1>6. Owed(c0)' \subseteq Owed(c0) \cup Kids(a, c0)
  <2> SUFFICES ASSUME NEW d, d \in Owed(c0)', d \notin Kids(a, c0) PROVE d \in Owed(c0)
    OBVIOUS
  <2>1. /\ d \in AllDue(c0) /\ ~Done(d[1], d[2])'
        /\ \A b \in Jobs : IsPushed(b, d[1]) => \A r \in Raises(b, c0) : Done(b, r)'
    BY OwedAfter
  <2>2. PICK k, l : k = d[1] /\ l = d[2]
    OBVIOUS
  <2>3. k \in Jobs /\ l \in Points(k)
    BY <1>1, <2>1, <2>2, OwedIs
  <2>4. ~Done(k, l)
    BY <1>d, <2>1, <2>2, <2>3
  <2>5. ~IsPushed(a, k)
    BY <2>1, <2>2 DEF Kids
  <2>6. ASSUME NEW b \in Jobs, IsPushed(b, k), NEW r \in Raises(b, c0) PROVE Done(b, r)
    <3>1. Done(b, r)' /\ b # a /\ r \in Points(b)
      BY <2>1, <2>2, <2>5, <2>6, PointsAre
    <3>2. QED BY <1>d, <3>1
  <2>7. QED BY <2>1, <2>2, <2>4, <2>6 DEF Owed, Told
<1>7. n > 0 /\ Kids(a, c0) # {} => Cardinality(Kids(a, c0)) <= n
  <2> SUFFICES ASSUME n > 0, Kids(a, c0) # {} PROVE Cardinality(Kids(a, c0)) <= n
    OBVIOUS
  <2>1. PICK r : Provides(a, c0, r)
    BY <1>1 DEF CountsDown
  <2>2. r = i
    BY <1>3, <2>1 DEF Provides
  <2>3. Body[a][i].by = n
    BY <1>b, <1>1
  <2>4. QED BY <2>1, <2>2, <2>3 DEF Provides
<1>8. /\ IsFiniteSet(Owed(c0)) /\ IsFiniteSet(Kids(a, c0))
      /\ Cardinality(Owed(c0)) \in Nat /\ Cardinality(Kids(a, c0)) \in Nat
      /\ \A c \in Counters : Cardinality(Owed(c)) <= count[c] /\ count[c] \in Int
  BY <1>1, OwedIs DEF DueInv, ControlInv, TypeInv
<1>9. n >= 0 /\ n \in Int
  BY <1>b, <1>1
<1>10. Cardinality(Owed(c0)') <= count'[c0]
  <2>1. PICK o \in Nat : o = Cardinality(Owed(c0))
    BY <1>8
  <2>2. PICK m \in Int : m = count[c0]
    BY <1>1, <1>8
  <2>3. o <= m /\ count'[c0] = m + n
    BY <1>1, <1>8, <2>1, <2>2
  <2>4. CASE n = 0 \/ Kids(a, c0) = {}
    <3>1. n = 0 => Owed(c0)' = Owed(c0)
      BY <1>1, <1>3, <1>5
    <3>2. Owed(c0)' \subseteq Owed(c0)
      BY <1>6, <2>4, <3>1
    <3>3. Cardinality(Owed(c0)') \in Nat /\ Cardinality(Owed(c0)') <= o
      <4>1. PICK X : X = Owed(c0)'
        OBVIOUS
      <4>2. IsFiniteSet(X) /\ Cardinality(X) <= Cardinality(Owed(c0))
        BY <1>8, <3>2, <4>1, FS_Subset
      <4>3. QED BY <2>1, <4>1, <4>2, FS_CardinalityType
    <3>4. QED BY <1>9, <2>3, <3>3
  <2>5. CASE n > 0 /\ Kids(a, c0) # {}
    <3>1. PICK q \in Nat : q = Cardinality(Kids(a, c0))
      BY <1>8
    <3>2. q <= n
      BY <1>7, <2>5, <3>1
    <3>3. PICK U : U = Owed(c0) \cup Kids(a, c0)
      OBVIOUS
    <3>4. IsFiniteSet(U) /\ Cardinality(U) <= o + q
      <4>1. PICK e : e = Cardinality(Owed(c0) \cap Kids(a, c0))
        OBVIOUS
      <4>2. IsFiniteSet(U) /\ Cardinality(U) = o + q - e
        BY <1>8, <2>1, <3>1, <3>3, <4>1, FS_Union
      <4>3. e \in Nat
        BY <1>8, <4>1, FS_Intersection, FS_CardinalityType
      <4>4. QED BY <4>2, <4>3
    <3>5. PICK X : X = Owed(c0)'
      OBVIOUS
    <3>6. IsFiniteSet(X) /\ Cardinality(X) <= Cardinality(U)
      BY <1>6, <3>3, <3>4, <3>5, FS_Subset
    <3>7. Cardinality(X) \in Nat /\ Cardinality(U) \in Nat
      BY <3>4, <3>6, FS_CardinalityType
    <3>8. QED BY <1>9, <2>3, <3>2, <3>4, <3>5, <3>6, <3>7
  <2>6. QED BY <1>9, <2>4, <2>5
<1>11. ASSUME NEW c \in Counters, c # c0 PROVE Cardinality(Owed(c)') <= count'[c]
  <2>1. Owed(c)' = Owed(c)
    BY <1>4, <1>5, <1>11
  <2>2. count'[c] = count[c]
    BY <1>1, <1>11
  <2>3. QED BY <1>8, <2>1, <2>2
<1>12. QED BY <1>10, <1>11 DEF DueInv

\* A counter never falls below what is owed to it.
LEMMA DueStep ==
  ASSUME ControlInv, OwnInv, PlaceInv, CountsDown, DueInv, NEW t \in Threads, Step(t)
  PROVE  DueInv'
<1>0. StageInv
  BY DEF PlaceInv
<1>a. ASSUME \A k \in Jobs : \A l \in Points(k) : Done(k, l)' <=> Done(k, l), \A c \in Counters : count'[c] \in Int /\ count'[c] >= count[c]
      PROVE  DueInv'
  <2> SUFFICES ASSUME NEW c \in Counters PROVE Cardinality(Owed(c)') <= count'[c]
    BY DEF DueInv
  <2>1. Owed(c)' = Owed(c)
    BY <1>a, OwedKept
  <2>2. Cardinality(Owed(c)) <= count[c] /\ count[c] \in Int /\ Cardinality(Owed(c)) \in Nat
    BY OwedIs DEF DueInv, ControlInv, TypeInv
  <2>3. PICK m \in Int, n \in Int : m = count[c] /\ n = count'[c]
    BY <1>a, <2>2
  <2>4. PICK o \in Nat : o = Cardinality(Owed(c))
    BY <2>2
  <2>5. n >= m /\ o <= m
    BY <1>a, <2>2, <2>3, <2>4
  <2>6. o <= n
    BY <2>5
  <2>7. QED BY <2>1, <2>3, <2>4, <2>6
<1>1. CASE ~AddCount(t) /\ ~Finish(t)
  <2>1. count' = count
    BY <1>1, StepCases DEF Quiet, jobs, Lock, CheckEnabled, Sleep, Wake, Unlock, CheckRunning, Enter, PassGate,
       MissGate, Leave, CheckLast, NotifyWait, ExecuteAll, WaitLock, WaitCount, WaitSleep,
       WaitWake, WaitOver, StopFlag, StopNotify, Join, Spurious, PopSlot, Restock, Requeue, StockSlot, TakeSlot,
       GiveSlot, CheckEmpty, CheckDrained, WaitEmpty, AskEmpty
  <2>2. \A k \in Jobs : \A l \in Points(k) : Done(k, l)' <=> Done(k, l)
    BY <1>0, <1>1, DoneStep
  <2>3. \A c \in Counters : count'[c] \in Int /\ count'[c] >= count[c]
    BY <2>1 DEF ControlInv, TypeInv
  <2>4. QED BY <1>a, <2>2, <2>3
<1>2. CASE AddCount(t) /\ t = Main
  <2>1. PICK c0 \in Counters, n \in Int : c0 = Arg(t).counter /\ n = Arg(t).by
    BY <1>2, Counts
  <2>2. n >= 0
    BY <1>2, <2>1, Counts DEF CountsDown
  <2>3. t \notin Workers /\ ~Finish(t)
    BY <1>2, Counts, MainAssumption
  <2>4. \A k \in Jobs : \A l \in Points(k) : Done(k, l)' <=> Done(k, l)
    BY <1>0, <2>3, DoneStep
  <2>5. \A c \in Counters : count'[c] \in Int /\ count'[c] >= count[c]
    <3>1. /\ count'[c0] = count[c0] + n /\ \A c \in Counters \ {c0} : count'[c] = count[c]
          /\ \A c \in Counters : count[c] \in Int
      BY <1>2, <2>1, Counts DEF ControlInv, TypeInv
    <3>2. QED BY <2>2, <3>1
  <2>6. QED BY <1>a, <2>4, <2>5
<1>3. CASE AddCount(t) /\ t # Main
  <2>0. t \in Workers
    BY <1>3 DEF Threads
  <2>1. PICK a, i, c0, n : a = doing[t] /\ i = next[t] /\ c0 = Arg(t).counter /\ n = Arg(t).by
    OBVIOUS
  <2>2. /\ i \in DOMAIN Body[a] /\ Body[a][i] = Arg(t) /\ Arg(t).op = "add" /\ ~Finish(t)
        /\ a \in Jobs /\ c0 \in Counters /\ n \in Int
    BY <1>3, <2>0, <2>1, Counts
  <2>3. CASE n >= 0
    BY <1>0, <1>3, <2>0, <2>1, <2>2, <2>3, Raised
  <2>4. CASE n < 0
    <3>1. i \in Lowerings(a) /\ i # 0
      BY <2>1, <2>2, <2>4 DEF Lowerings, ControlInv, TypeInv
    <3>2. i \in Marks(a) /\ CounterOf(a, i) = c0
      BY <2>1, <2>2, <3>1 DEF Marks, CounterOf
    <3>3. n = -1
      BY <2>1, <2>2, <3>1 DEF CountsDown
    <3>4. count'[c0] = count[c0] - 1 /\ \A c \in Counters \ {c0} : count'[c] = count[c]
      <4>1. count'[c0] = count[c0] + n /\ count[c0] \in Int /\ \A c \in Counters \ {c0} : count'[c] = count[c]
        BY <1>3, <2>1, <2>2, Counts DEF ControlInv, TypeInv
      <4>2. QED BY <3>3, <4>1
    <3>5. \A k \in Jobs : \A l \in Points(k) : Done(k, l)' <=> Done(k, l) \/ (k = a /\ l = i)
      BY <1>0, <1>3, <2>0, <2>1, <2>2, DoneStep
    <3>6. QED BY <2>0, <2>1, <2>2, <3>2, <3>4, <3>5, Lowered
  <2>5. QED BY <2>2, <2>3, <2>4
<1>4. CASE Finish(t)
  <2>0. StageInv /\ t \in Workers
    BY <1>0, <1>4, Returns
  <2>1. PICK a \in Jobs : a = doing[t] /\ a = Job(t)
    BY <1>4, <2>0, Returns
  <2>2. ~AddCount(t)
    BY <1>4, Counts
  <2>3. \A k \in Jobs : \A l \in Points(k) : Done(k, l)' <=> Done(k, l) \/ (k = a /\ l = 0)
    BY <1>0, <1>4, <2>1, <2>2, DoneStep
  <2>4. count' = IF After[a] = Null THEN count ELSE [count EXCEPT ![After[a]] = @ - 1]
    BY <1>4, <2>0, <2>1, Returns
  <2>5. CASE After[a] = Null
    <3>1. 0 \notin Marks(a)
      BY <2>5, PointsAre
    <3>2. ASSUME NEW c \in Counters PROVE Owed(c)' = Owed(c)
      <4>1. ASSUME NEW k \in Jobs, NEW l \in Points(k),
                   (l \in Marks(k) /\ CounterOf(k, l) = c) \/ l \in Raises(k, c)
            PROVE  Done(k, l)' <=> Done(k, l)
        <5>1. ~(k = a /\ l = 0)
          BY <3>1, <4>1, PointsAre
        <5>2. QED BY <2>3, <5>1
      <4>2. QED BY <4>1, OwedKept
    <3>3. QED BY <2>4, <2>5, <3>2 DEF DueInv
  <2>6. CASE After[a] # Null
    <3>1. PICK c0 \in Counters : c0 = After[a]
      <4>1. program.after \in [Jobs -> Counters \cup {Null}]
        BY ProgramsAssumption DEF ControlInv, TypeInv
      <4>2. QED BY <2>6, <4>1 DEF After
    <3>2. 0 \in Marks(a) /\ CounterOf(a, 0) = c0
      BY <2>6, <3>1, PointsAre DEF CounterOf
    <3>3. count'[c0] = count[c0] - 1 /\ \A c \in Counters \ {c0} : count'[c] = count[c]
      BY <2>4, <2>6, <3>1 DEF ControlInv, TypeInv
    <3>4. PICK i : i = 0
      OBVIOUS
    <3>5. \A k \in Jobs : \A l \in Points(k) : Done(k, l)' <=> Done(k, l) \/ (k = a /\ l = i)
      BY <2>3, <3>4
    <3>6. i \in Marks(a) /\ CounterOf(a, i) = c0
      BY <3>2, <3>4
    <3>7. t \in Workers /\ doing[t] = a /\ (i = 0 \/ next[t] = i)
      BY <2>0, <2>1, <3>4
    <3>8. QED BY <3>3, <3>5, <3>6, <3>7, Lowered
  <2>7. QED BY <2>5, <2>6
<1>5. QED BY <1>1, <1>2, <1>3, <1>4

\* When the counter of a job in a slot is down, whatever lowers it has been executed.
LEMMA OpenReleases ==
  ASSUME ControlInv, PlaceInv, CountsDown, DueInv, NEW j \in Jobs, Taken(j), Gate[j] # Null, Open(j),
         NEW k \in Jobs, Lowers(k, Gate[j])
  PROVE  \A i \in Marks(k) : Done(k, i)
<1>1. PICK c \in Counters : c = Gate[j]
  <2>1. program.gate \in [Jobs -> Counters \cup {Null}]
    BY ProgramsAssumption DEF ControlInv, TypeInv
  <2>2. QED BY <2>1 DEF Gate
<1>2. Owed(c) = {}
  <2>1. /\ count[c] <= 0 /\ count[c] \in Int /\ IsFiniteSet(Owed(c)) /\ Cardinality(Owed(c)) \in Nat
        /\ Cardinality(Owed(c)) <= count[c]
    BY <1>1, OwedIs DEF Open, ControlInv, TypeInv, DueInv
  <2>2. Cardinality(Owed(c)) = 0
    BY <2>1
  <2>3. QED BY <2>1, <2>2, FS_EmptySet
<1>3. \A i \in Marks(k) : CounterOf(k, i) = c
  <2>1. \E i \in Marks(k) : CounterOf(k, i) = c
    <3>1. CASE After[k] = c
      <4>1. c # Null
        BY SlotAssumption
      <4>2. 0 \in Marks(k) /\ CounterOf(k, 0) = c
        BY <3>1, <4>1, PointsAre DEF CounterOf
      <4>3. QED BY <4>2
    <3>2. CASE \E i \in Lowerings(k) : Body[k][i].counter = c
      <4>1. PICK i \in Lowerings(k) : Body[k][i].counter = c
        BY <3>2
      <4>2. i \in Marks(k) /\ i # 0
        BY PointsAre
      <4>3. QED BY <4>1, <4>2 DEF CounterOf
    <3>3. QED BY <1>1, <3>1, <3>2 DEF Lowers
  <2>2. QED BY <2>1 DEF CountsDown
<1>4. ASSUME NEW b \in Jobs, NEW m \in Marks(b), CounterOf(b, m) = c, Told(b, c) PROVE Done(b, m)
  <2>1. PICK d : d = <<b, m>>
    OBVIOUS
  <2>2. d \in AllDue(c) /\ d[1] = b /\ d[2] = m
    BY <1>4, <2>1, OwedIs
  <2>3. QED BY <1>2, <1>4, <2>2 DEF Owed
<1>5. ASSUME NEW i \in Marks(k) PROVE Told(k, c)
  <2> SUFFICES ASSUME NEW b \in Jobs, IsPushed(b, k), NEW x \in Raises(b, c) PROVE Done(b, x)
    BY DEF Told
  <2>1. PICK d : d = <<k, i>>
    OBVIOUS
  <2>2. d \in AllDue(c) /\ d[1] = k
    BY <1>3, <1>5, <2>1, OwedIs
  <2>3. d \in Kids(b, c)
    BY <2>2 DEF Kids
  <2>4. PICK r \in Nat : Provides(b, c, r)
    BY <2>3 DEF CountsDown
  <2>5. x = r /\ x \in Nat /\ x # 0
    BY <2>4, PointsAre DEF Provides
  <2>6. CASE IsPushed(b, j)
    BY <2>4, <2>6, RaisedBefore
  <2>7. CASE ~IsPushed(b, j)
    <3>1. PICK m \in Marks(b) : CounterOf(b, m) = c /\ (m = 0 \/ m > r)
      BY <1>1, <2>4, <2>7 DEF Provides
    <3>2. Told(b, c)
      BY <1>1, <2>4, <2>7 DEF Provides, Told
    <3>3. Done(b, m)
      BY <1>4, <3>1, <3>2
    <3>4. CASE ran[b] > 0
      BY <3>4 DEF Done
    <3>5. CASE m # 0 /\ Past(b, m)
      <4>1. PICK w \in Workers : doing[w] = b /\ next[w] > m
        BY <3>5 DEF Past
      <4>2. next[w] \in Nat /\ m \in Nat /\ m > r
        BY <3>1, <3>5, PointsAre DEF ControlInv, TypeInv, Threads
      <4>3. next[w] > x
        BY <2>5, <4>1, <4>2
      <4>4. QED BY <2>5, <4>1, <4>3 DEF Done, Past
    <3>6. QED BY <3>3, <3>4, <3>5 DEF Done
  <2>8. QED BY <2>6, <2>7
<1>6. QED BY <1>3, <1>4, <1>5

\* A job has lowered all it lowers.
LEMMA ReleasedIs ==
  ASSUME ControlInv, NEW k \in Jobs
  PROVE  Released(k) <=> \A i \in Marks(k) : Done(k, i)
<1>1. Lowerings(k) = Marks(k) \ {0} /\ (0 \in Marks(k) <=> After[k] # Null)
  BY PointsAre
<1>2. QED BY <1>1 DEF Released, Done

-----------------------------------------------------------------------------
(* The pool. *)

\* What the pool knows of the counters: the jobs a job needs, and those that have
\* lowered what they lower.
Needed(j) == {k \in Jobs : Gate[j] # Null /\ Lowers(k, Gate[j])}
AllReleased == {k \in Jobs : (After[k] # Null \/ Lowerings(k) # {}) /\ Released(k)}

\* A stage is that of what the job has been through.
LEMMA StagesKept ==
  ASSUME NEW j \in Jobs, begun'[j] = begun[j], ran'[j] = ran[j],
         ran[j] > 0 \/ ((\E s \in WorkerSlots : slotJob'[s] = j) <=> (\E s \in WorkerSlots : slotJob[s] = j))
  PROVE  Stage(j)' = Stage(j)
BY DEF Stage

\* What has been released changes where something that counts is executed.
LEMMA ReleasedKept ==
  ASSUME ControlInv, NEW t \in Threads, Step(t), NEW k \in Jobs
  PROVE  /\ (\A i \in Marks(k) : Done(k, i)' <=> Done(k, i)) => (k \in AllReleased' <=> k \in AllReleased)
         /\ (\A i \in Marks(k) : Done(k, i) => Done(k, i)') => (k \in AllReleased => k \in AllReleased')
<1>1. /\ Lowerings(k)' = Lowerings(k) /\ After'[k] = After[k]
      /\ Lowerings(k) = Marks(k) \ {0} /\ (0 \in Marks(k) <=> After[k] # Null)
  BY SameDue, PointsAre
<1>2. Released(k) <=> \A i \in Marks(k) : Done(k, i)
  BY ReleasedIs
<1>3. Released(k)' <=> \A i \in Marks(k) : Done(k, i)'
  BY <1>1 DEF Released, Done
<1>4. QED BY <1>1, <1>2, <1>3 DEF AllReleased

\* Every step of the workers and of the client is a step of the pool or changes nothing
\* the pool knows of.
LEMMA PoolStep ==
  ASSUME ControlInv, OwnInv, PlaceInv, NobodyWaits \/ (CountsDown /\ DueInv), NEW t \in Threads, Step(t)
  PROVE  [Pool!Next]_(Pool!vars)
<1> DEFINE S == [j \in Jobs |-> Stage(j)]
           N == [j \in Jobs |-> Needed(j)]
<1>0. StageInv /\ OriginInv /\ OneSpot /\ LastOut
  BY DEF PlaceInv, OwnInv
<1>1. N' = N
  <2>1. \A j \in Jobs : Gate'[j] = Gate[j] /\ \A k, c : Lowers(k, c)' <=> Lowers(k, c)
    BY SameDue
  <2>2. \A j \in Jobs : Needed(j)' = Needed(j)
    BY <2>1 DEF Needed
  <2>3. QED BY <2>2
<1>2. ASSUME ~AddCount(t) \/ t \notin Workers, ~Finish(t) PROVE AllReleased' = AllReleased
  <2>1. \A k \in Jobs : \A i \in Marks(k) : Done(k, i)' <=> Done(k, i)
    BY <1>0, <1>2, DoneStep, PointsAre
  <2>2. \A k \in Jobs : k \in AllReleased' <=> k \in AllReleased
    BY <2>1, ReleasedKept
  <2>3. AllReleased \subseteq Jobs /\ AllReleased' \subseteq Jobs
    BY DEF AllReleased
  <2>4. QED BY <2>2, <2>3
<1>3. ASSUME NEW a \in Jobs, AddCount(t) \/ Finish(t), doing[t] = a
      PROVE  AllReleased' = AllReleased \/ AllReleased' = AllReleased \cup {a}
  <2>1. \A k \in Jobs : \A i \in Marks(k) : (Done(k, i) => Done(k, i)') /\ (k # a => (Done(k, i)' => Done(k, i)))
    BY <1>0, <1>3, DoneStep, PointsAre
  <2>2. \A k \in Jobs \ {a} : k \in AllReleased' <=> k \in AllReleased
    BY <2>1, ReleasedKept
  <2>3. a \in AllReleased => a \in AllReleased'
    BY <2>1, ReleasedKept
  <2>4. AllReleased \subseteq Jobs /\ AllReleased' \subseteq Jobs
    BY DEF AllReleased
  <2>5. QED BY <2>2, <2>3, <2>4
<1>t. \A j \in Jobs : begun[j] \in Nat /\ ran[j] \in Nat /\ j # Null
  BY SlotAssumption DEF ControlInv, TypeInv
<1>4. CASE TakeEnds(t)
  <2>1. PICK j, v : j = Arg(t).job /\ v = val[t]
    OBVIOUS
  <2>2. /\ v \in WorkerSlots /\ Has("stock", idx[t], v) /\ j \in Jobs /\ pc'[t] = "give"
        /\ slotJob' = [slotJob EXCEPT ![v] = j] /\ begun' = begun /\ ran' = ran
    BY <1>4, <2>1, Takes
  <2>3. slotJob'[v] = j /\ \A s \in WorkerSlots \ {v} : slotJob'[s] = slotJob[s]
    BY <2>2 DEF ControlInv, TypeInv
  <2>4. begun[j] = 0 /\ ran[j] = 0 /\ \A s \in WorkerSlots : slotJob[s] # j
    BY <1>0, <1>4, <2>1, NotTaken DEF Taken
  <2>5. S[j] = "new" /\ Stage(j)' = "waiting"
    BY <2>2, <2>3, <2>4 DEF Stage
  <2>6. Spent(v)
    <3>1. v = stockBuf[idx[t]] /\ v # Null
      BY <1>4, <2>1, <2>2, Arrivals, SlotAssumption
    <3>2. idx[t] \in WQ!Slots
      BY DEF ControlInv, TypeInv
    <3>3. QED BY <1>0, <3>1, <3>2 DEF StageInv
  <2>7. ASSUME NEW k \in Jobs, k # j PROVE Stage(k)' = Stage(k)
    <3>1. CASE slotJob[v] = k
      <4>1. ran[k] = 1
        BY <1>t, <2>6, <3>1 DEF Spent, Stands
      <4>2. QED BY <2>2, <4>1, StagesKept
    <3>2. CASE slotJob[v] # k
      <4>1. (\E s \in WorkerSlots : slotJob'[s] = k) <=> (\E s \in WorkerSlots : slotJob[s] = k)
        BY <2>3, <2>7, <3>2
      <4>2. QED BY <2>2, <4>1, StagesKept
    <3>3. QED BY <3>1, <3>2
  <2>8. S' = [S EXCEPT ![j] = "waiting"]
    BY <2>5, <2>7
  <2>9. AllReleased' = AllReleased
    <3>1. pc'[t] = "give"
      BY <2>2
    <3>2. ~AddCount(t) /\ ~Finish(t)
      BY <3>1 DEF AddCount, NextOp, Finish, Jump, ControlInv, TypeInv
    <3>3. QED BY <1>2, <3>2
  <2>10. Pool!Accept(j)
    BY <1>1, <2>2, <2>5, <2>8, <2>9 DEF Pool!Accept, Pool!Move, Needed, AllReleased
  <2>11. QED BY <2>2, <2>10 DEF Pool!Next
<1>5. CASE PassGate(t)
  <2>1. PICK j, v : j = Job(t) /\ v = running[t]
    OBVIOUS
  <2>2. /\ v \in WorkerSlots /\ slotJob[v] = j /\ j \in Jobs /\ begun[j] = 0 /\ ran[j] = 0 /\ Open(j)
        /\ pc[t] = "gate" /\ begun' = [begun EXCEPT ![j] = 1] /\ ran' = ran /\ slotJob' = slotJob
    BY <1>0, <1>5, <2>1, Enters
  <2>3. begun'[j] = 1 /\ ran'[j] = 0 /\ \A k \in Jobs \ {j} : begun'[k] = begun[k]
    BY <2>2 DEF ControlInv, TypeInv
  <2>4. S[j] = "waiting" /\ Stage(j)' = "running"
    BY <2>2, <2>3 DEF Stage
  <2>5. \A k \in Jobs \ {j} : Stage(k)' = Stage(k)
    BY <2>2, <2>3, StagesKept
  <2>6. S' = [S EXCEPT ![j] = "running"]
    BY <2>4, <2>5
  <2>7. AllReleased' = AllReleased
    <3>1. ~AddCount(t) /\ ~Finish(t)
      BY <2>2 DEF AddCount, Op, Finish, Jump
    <3>2. QED BY <1>2, <3>1
  <2>8. N[j] \subseteq AllReleased
    <3> SUFFICES ASSUME NEW k \in Jobs, Gate[j] # Null, Lowers(k, Gate[j]) PROVE k \in AllReleased
      BY <2>2 DEF Needed
    <3>1. CountsDown /\ DueInv
      BY <2>2 DEF NobodyWaits
    <3>2. Taken(j)
      BY <2>2 DEF Taken
    <3>3. \A i \in Marks(k) : Done(k, i)
      BY <2>2, <3>1, <3>2, OpenReleases
    <3>4. Released(k)
      BY <3>3, ReleasedIs
    <3>5. After[k] # Null \/ Lowerings(k) # {}
      BY DEF Lowers
    <3>6. QED BY <3>4, <3>5 DEF AllReleased
  <2>9. Pool!Start(j)
    BY <1>1, <2>2, <2>4, <2>6, <2>7, <2>8 DEF Pool!Start, Pool!Move, Needed, AllReleased
  <2>10. QED BY <2>2, <2>9 DEF Pool!Next
<1>6. CASE Finish(t)
  <2>1. PICK j : j = Job(t)
    OBVIOUS
  <2>2. /\ j \in Jobs /\ begun[j] = 1 /\ ran[j] = 0 /\ doing[t] = j
        /\ ran' = [ran EXCEPT ![j] = 1] /\ begun' = begun /\ slotJob' = slotJob
    BY <1>0, <1>6, <2>1, Returns
  <2>3. ran'[j] = 1 /\ begun'[j] = 1 /\ \A k \in Jobs \ {j} : ran'[k] = ran[k]
    BY <2>2 DEF ControlInv, TypeInv
  <2>4. S[j] = "running" /\ Stage(j)' = "ended"
    BY <2>2, <2>3 DEF Stage
  <2>5. \A k \in Jobs \ {j} : Stage(k)' = Stage(k)
    BY <2>2, <2>3, StagesKept
  <2>6. S' = [S EXCEPT ![j] = "ended"]
    BY <2>4, <2>5
  <2>7. AllReleased' \in {AllReleased, AllReleased \cup {j}}
    BY <1>3, <1>6, <2>2
  <2>8. Pool!End(j)
    BY <1>1, <2>2, <2>4, <2>6, <2>7 DEF Pool!End, Pool!Move, Needed, AllReleased
  <2>9. QED BY <2>2, <2>8 DEF Pool!Next
<1>7. CASE AddCount(t)
  <2>1. begun' = begun /\ ran' = ran /\ slotJob' = slotJob /\ ~Finish(t)
    BY <1>7, Counts
  <2>2. \A j \in Jobs : Stage(j)' = Stage(j)
    BY <2>1, StagesKept
  <2>3. S' = S
    BY <2>2
  <2>4. CASE t \notin Workers
    <3>1. AllReleased' = AllReleased
      BY <1>2, <2>1, <2>4
    <3>2. QED BY <1>1, <2>3, <3>1 DEF Pool!vars, Needed, AllReleased
  <2>5. CASE t \in Workers
    <3>1. PICK j \in Jobs : j = doing[t]
      BY <1>7, <2>5, Counts
    <3>2. begun[j] = 1 /\ ran[j] = 0
      BY <1>0, <1>t, <2>5, <3>1, OneRunner
    <3>3. S[j] = "running"
      BY <3>2 DEF Stage
    <3>4. CASE AllReleased' = AllReleased
      BY <1>1, <2>3, <3>4 DEF Pool!vars, Needed, AllReleased
    <3>5. CASE AllReleased' = AllReleased \cup {j}
      <4>1. Pool!Release(j)
        BY <1>1, <2>3, <3>3, <3>5 DEF Pool!Release, Needed, AllReleased
      <4>2. QED BY <4>1 DEF Pool!Next
    <3>6. QED BY <1>3, <1>7, <3>1, <3>4, <3>5
  <2>6. QED BY <2>4, <2>5
<1>8. CASE ~TakeEnds(t) /\ ~PassGate(t) /\ ~Finish(t) /\ ~AddCount(t)
  <2>1. begun' = begun /\ ran' = ran /\ slotJob' = slotJob
    BY <1>8, Effects
  <2>2. \A j \in Jobs : Stage(j)' = Stage(j)
    BY <2>1, StagesKept
  <2>3. S' = S
    BY <2>2
  <2>4. AllReleased' = AllReleased
    BY <1>2, <1>8
  <2>5. QED BY <1>1, <2>3, <2>4 DEF Pool!vars, Needed, AllReleased
<1>9. QED BY <1>4, <1>5, <1>6, <1>7, <1>8

\* At first no job has been taken, and every counter is what it has to count.
LEMMA PoolInit ==
  ASSUME Init
  PROVE  /\ Pool!Init
         /\ CountsDown => DueInv
<1>1. /\ ControlInv
      /\ \A w \in Workers : doing[w] = Null
      /\ \A s \in WorkerSlots : slotJob[s] = Null
      /\ \A j \in Jobs : begun[j] = 0 /\ ran[j] = 0
  BY ControlInit DEF Init, Threads
<1>2. \A k \in Jobs : \A i : ~Done(k, i)
  BY <1>1, SlotAssumption DEF Done, Past
<1>3. AllReleased = {}
  <2>1. ASSUME NEW k \in AllReleased PROVE FALSE
    <3>1. k \in Jobs /\ Released(k) /\ (After[k] # Null \/ Lowerings(k) # {})
      BY DEF AllReleased
    <3>2. Marks(k) # {} /\ \A i \in Marks(k) : Done(k, i)
      BY <1>1, <3>1, ReleasedIs DEF Marks
    <3>3. QED BY <1>2, <3>1, <3>2
  <2>2. QED BY <2>1
<1>4. \A j \in Jobs : Stage(j) = "new"
  BY <1>1, SlotAssumption DEF Stage
<1>5. [j \in Jobs |-> Needed(j)] \in [Jobs -> SUBSET Jobs]
  BY DEF Needed
<1>6. Pool!Init
  BY <1>3, <1>4, <1>5 DEF Pool!Init, AllReleased, Needed
<1>7. ASSUME CountsDown, NEW c \in Counters PROVE Cardinality(Owed(c)) <= count[c]
  <2>1. Owed(c) \subseteq Roots(c)
    <3> SUFFICES ASSUME NEW d \in Owed(c), NEW a \in Jobs, IsPushed(a, d[1]) PROVE FALSE
      BY DEF Owed, Roots
    <3>1. d \in Kids(a, c)
      BY DEF Owed, Kids
    <3>2. PICK r : Raises(a, c) = {r}
      BY <1>7, <3>1 DEF CountsDown, Provides
    <3>3. Done(a, r)
      BY <3>2 DEF Owed, Told
    <3>4. QED BY <1>2, <3>3
  <2>2. IsFiniteSet(AllDue(c)) /\ Cardinality(Roots(c)) <= program.count[c]
    BY <1>7 DEF CountsDown
  <2>3. IsFiniteSet(Roots(c))
    BY <2>2, FS_Subset DEF Roots
  <2>4. Cardinality(Owed(c)) <= Cardinality(Roots(c))
    BY <2>1, <2>3, FS_Subset
  <2>5. /\ Cardinality(Owed(c)) \in Nat /\ Cardinality(Roots(c)) \in Nat
        /\ count[c] = program.count[c] /\ count[c] \in Int
    BY <1>1, <1>7, <2>3, OwedIs, FS_CardinalityType DEF Init, ControlInv, TypeInv
  <2>6. QED BY <2>2, <2>4, <2>5
<1>8. QED BY <1>6, <1>7 DEF DueInv

\* A step of nobody changes none of it.
LEMMA PlaceStays ==
  ASSUME UNCHANGED vars
  PROVE  /\ (EachPushedOnce' <=> EachPushedOnce) /\ (NobodyWaits' <=> NobodyWaits) /\ (CountsDown' <=> CountsDown)
         /\ (PlaceInv => PlaceInv') /\ (DueInv => DueInv') /\ UNCHANGED Pool!vars
<1>1. /\ program' = program /\ workBuf' = workBuf /\ stockBuf' = stockBuf /\ pc' = pc /\ next' = next
      /\ running' = running /\ hand' = hand /\ slotJob' = slotJob /\ doing' = doing /\ count' = count
      /\ begun' = begun /\ ran' = ran
  BY DEF vars, workRing, stockRing, slots, jobs
<1>2. Client' = Client /\ Body' = Body /\ Gate' = Gate /\ After' = After
  BY <1>1 DEF Client, Script, Construct, WorkerSlots, Stock, Body, Gate, After
<1>3. /\ \A a, k : IsPushed(a, k)' <=> IsPushed(a, k)
      /\ \A k : Lowerings(k)' = Lowerings(k) /\ Marks(k)' = Marks(k) /\ \A i : CounterOf(k, i)' = CounterOf(k, i)
  BY <1>2 DEF PushAt, IsPushed, Lowerings, Marks, CounterOf
<1>4. \A c : /\ AllDue(c)' = AllDue(c)
             /\ \A a : Kids(a, c)' = Kids(a, c) /\ Raises(a, c)' = Raises(a, c)
  BY <1>2, <1>3 DEF AllDue, Kids, Raises
<1>5. \A a, c, r : Provides(a, c, r)' <=> Provides(a, c, r)
  BY <1>2, <1>3, <1>4 DEF Provides, PushAt
<1>6. \A c : Roots(c)' = Roots(c)
  BY <1>3, <1>4 DEF Roots
<1>7. CountsDown' <=> CountsDown
  BY <1>1, <1>2, <1>3, <1>4, <1>5, <1>6 DEF CountsDown
<1>8. \A k, i : (Past(k, i)' <=> Past(k, i)) /\ (Done(k, i)' <=> Done(k, i))
  BY <1>1 DEF Past, Done
<1>9. \A c : Owed(c)' = Owed(c)
  BY <1>3, <1>4, <1>8 DEF Owed, Told
<1>10. DueInv => DueInv'
  BY <1>1, <1>9 DEF DueInv
<1>11. /\ \A s : (Fresh(s)' <=> Fresh(s)) /\ (Busy(s)' <=> Busy(s)) /\ (Spent(s)' <=> Spent(s))
       /\ \A j : Taken(j)' <=> Taken(j)
  BY <1>1 DEF Fresh, Busy, Spent, Stands, Taken
<1>12. StageInv => StageInv'
  BY <1>1, <1>11 DEF StageInv, Job
<1>13. (BegunInv => BegunInv') /\ (OriginInv => OriginInv')
  BY <1>1, <1>2, <1>11 DEF BegunInv, OriginInv, PushAt, ToCome
<1>14. (EachPushedOnce' <=> EachPushedOnce) /\ (NobodyWaits' <=> NobodyWaits)
  BY <1>2 DEF EachPushedOnce, NobodyWaits, PushAt
<1>15. \A j : Stage(j)' = Stage(j) /\ Needed(j)' = Needed(j)
  BY <1>1, <1>2, <1>3 DEF Stage, Needed, Lowers
<1>16. AllReleased' = AllReleased
  BY <1>1, <1>2, <1>3, <1>8 DEF AllReleased, Released
<1>17. UNCHANGED Pool!vars
  BY <1>15, <1>16 DEF Pool!vars, Needed, AllReleased
<1>18. QED BY <1>7, <1>10, <1>12, <1>13, <1>14, <1>17 DEF PlaceInv

\* The programs it is about: slots keep one owner, an object is pushed once, and counters
\* count what is going to lower them.
Promised == Calm /\ EachPushedOnce /\ (NobodyWaits \/ CountsDown)

\* The workers implement the pool: the job put into a slot is run once, the slot is not
\* set to another job before, and a job that refers to a counter starts after every job
\* that decrements it has done so, those included that a running job pushes, whatever
\* the threads, the slots and the jobs are (worker2.h:83-102, 158-179,
\* thread_test2.cpp:85-99).
THEOREM WorkersAreAPool == Spec /\ Promised => ImplementsPool
<1> DEFINE PoolInv == ControlInv /\ OwnInv /\ PlaceInv /\ (CountsDown => DueInv)
<1>1. Init /\ Promised => PoolInv
  BY ControlInit, OwnInit, PlaceInit, PoolInit DEF Promised
<1>2. Promised /\ PoolInv /\ [Next]_vars => Promised' /\ PoolInv'
  <2> SUFFICES ASSUME Promised, PoolInv, [Next]_vars PROVE Promised' /\ PoolInv'
    OBVIOUS
  <2>1. ControlInv'
    BY ControlStep
  <2>2. ASSUME NEW t \in Threads, Step(t) PROVE Promised' /\ PoolInv'
    <3>1. OwnInv' /\ Calm'
      BY <2>2, OwnStep DEF Promised
    <3>2. (NobodyWaits' <=> NobodyWaits) /\ (CountsDown' <=> CountsDown) /\ (EachPushedOnce' <=> EachPushedOnce)
      BY <2>2, SameProgram, SameDue
    <3>3. PlaceInv'
      BY <2>1, <2>2, PlaceStep DEF Promised
    <3>4. CountsDown => DueInv'
      BY <2>2, DueStep
    <3>5. QED BY <2>1, <3>1, <3>2, <3>3, <3>4 DEF Promised
  <2>3. CASE UNCHANGED vars
    <3>1. OwnInv' /\ Calm'
      BY <2>3, OwnStays DEF Promised
    <3>2. Promised' /\ PlaceInv' /\ (CountsDown' => DueInv')
      BY <2>3, <3>1, PlaceStays DEF Promised
    <3>3. QED BY <2>1, <3>1, <3>2
  <2>4. QED BY <2>2, <2>3 DEF Next, Step
<1>3. Promised /\ PoolInv /\ [Next]_vars => [Pool!Next]_(Pool!vars)
  <2> SUFFICES ASSUME Promised, PoolInv, [Next]_vars PROVE [Pool!Next]_(Pool!vars)
    OBVIOUS
  <2>1. ASSUME NEW t \in Threads, Step(t) PROVE [Pool!Next]_(Pool!vars)
    BY <2>1, PoolStep DEF Promised
  <2>2. CASE UNCHANGED vars
    BY <2>2, PlaceStays
  <2>3. QED BY <2>1, <2>2 DEF Next, Step
<1>4. Init => Pool!Init
  BY PoolInit
<1> HIDE DEF PoolInv
<1>5. QED BY <1>1, <1>2, <1>3, <1>4, PTL DEF Spec, ImplementsPool, Pool!Spec
=============================================================================
