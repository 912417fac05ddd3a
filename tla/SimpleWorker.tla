---------------------------- MODULE SimpleWorker ----------------------------
(***************************************************************************)
(* SimpleWorker::WorkerThread of worker2.h with one client thread, as in   *)
(* test1 and test2 of thread_test2.cpp: worker threads that sleep on a     *)
(* condition variable, a queue of WorkerSlots to run (workerQueue) and a   *)
(* queue of free ones (stockQueue), both rings of atomic_queue.h.          *)
(*                                                                         *)
(* One step is one atomic access, one mutex or condition variable          *)
(* operation, or one access of a ring.  What a thread does to data only it *)
(* can reach (WorkerSlot::set, getReference, getCounter) goes with the     *)
(* next such step.                                                         *)
(*                                                                         *)
(* What a job does is data: Body[j] is the sequence of its effects on      *)
(* counters and of the pushes its run() makes; Script is what the client   *)
(* does with the object after constructing it.                             *)
(***************************************************************************)
EXTENDS Integers, Sequences, FiniteSets

CONSTANTS
  Workers,      \* the threads there can be in threadList
  Main,         \* the client's thread
  NbWorker,     \* the number of slots and the size of both rings
  Jobs,         \* the SimpleWorker::Worker objects
  Counters,     \* the atomic counters jobs refer to
  Programs,     \* the programs checked (see program)
  Null, WeakFails

Threads == Workers \cup {Main}
WorkerSlots == 1 .. NbWorker

\* The operations of run() and of the client.
Add(c, by) == [op |-> "add", counter |-> c, by |-> by]
Push(j) == [op |-> "push", job |-> j]
Execute == [op |-> "execute"]
Wait == [op |-> "wait"]
Stop == [op |-> "stop"]
Stock(s) == [op |-> "stock", slot |-> s]

JobOps == [op : {"add"}, counter : Counters, by : Int] \cup [op : {"push"}, job : Jobs]
ClientOps == JobOps \cup {Execute, Wait, Stop}

ASSUME SlotAssumption == /\ NbWorker \in Nat \ {0} /\ WeakFails \in BOOLEAN
                         /\ Null \notin WorkerSlots /\ Null \notin Jobs /\ Null \notin Counters
ASSUME MainAssumption == Main \notin Workers /\ Null \notin Workers \cup {Main} /\ IsFiniteSet(Workers)
ASSUME ProgramsAssumption == \A p \in Programs :
         /\ p.workers \subseteq Workers
         /\ p.gate \in [Jobs -> Counters \cup {Null}]
         /\ p.after \in [Jobs -> Counters \cup {Null}]
         /\ p.count \in [Counters -> Int]
         /\ p.body \in [Jobs -> Seq(JobOps)]
         /\ p.script \in Seq(ClientOps)

VARIABLES
  program,        \* a member of Programs, the same all the time
  workBuf, workStart, workEnd,     \* workerQueue
  stockBuf, stockStart, stockEnd,  \* stockQueue
  at, idx, val,                    \* the calls of push, pop and empty under way
  pc,             \* per thread: where it is in the code of worker2.h
  next,           \* per thread: the next operation of its run() or script
  running,        \* per thread: the slot update() has popped
  hand,           \* per thread: the slot WorkerThread::push has popped
  slotJob,        \* workerSlot: the job each slot was set to
  doing,          \* per thread: the job whose run() it is in
  mutex,          \* who holds executeMutex
  asleep,         \* who waits on executeCondition
  awaiting,       \* who waits on waitCondition
  enabled, executeCount,
  count,          \* the counters
  begun, ran,     \* how often run() of a job was entered and left
  pushed          \* the jobs for which push returned true

workRing == <<workBuf, workStart, workEnd>>
stockRing == <<stockBuf, stockStart, stockEnd>>
calls == <<at, idx, val>>
sync == <<mutex, asleep, awaiting>>
slots == <<running, hand, slotJob>>
jobs == <<doing, count, begun, ran, pushed>>
vars == <<program, workRing, stockRing, calls, pc, next, slots, sync, enabled, executeCount, jobs>>

WQ == INSTANCE AtomicRing WITH buffer <- workBuf, start <- workStart, end <- workEnd, Size <- NbWorker
SQ == INSTANCE AtomicRing WITH buffer <- stockBuf, start <- stockStart, end <- stockEnd, Size <- NbWorker

\* The parts of a program: how many threads the constructor makes, per job the
\* reference counter it waits for or Null, the counter decremented when it has run
\* or Null and what run() does, the counters' first values, and what the client
\* does with the object.
Crew == program.workers
Gate == program.gate
After == program.after
Body == program.body
Script == program.script

\* The constructor stocks every slot, one push each, and hands the object over.
Construct == [s \in WorkerSlots |-> Stock(s)]
Job(t) == slotJob[running[t]]
Ops(t) == IF t = Main THEN Construct \o Script ELSE Body[doing[t]]

Init == /\ program \in Programs
        /\ WQ!RingInit /\ SQ!RingInit
        /\ at = [t \in Threads |-> "idle"]
        /\ idx = [t \in Threads |-> 0]
        /\ val = [t \in Threads |-> Null]
        /\ pc = [t \in Threads |-> CASE t = Main -> "ops" [] t \in Crew -> "lock" [] OTHER -> "done"]
        /\ next = [t \in Threads |-> 1]
        /\ running = [t \in Threads |-> Null]
        /\ hand = [t \in Threads |-> Null]
        /\ slotJob = [s \in WorkerSlots |-> Null]
        /\ doing = [t \in Threads |-> Null]
        /\ mutex = Null
        /\ asleep = {}
        /\ awaiting = {}
        /\ enabled = TRUE
        /\ executeCount = 0
        /\ count = program.count
        /\ begun = [j \in Jobs |-> 0]
        /\ ran = [j \in Jobs |-> 0]
        /\ pushed = {}

Jump(t, from, to) == pc[t] = from /\ pc' = [pc EXCEPT ![t] = to]
Stay(t, where) == pc[t] = where /\ UNCHANGED pc

\* Back from an operation to the next one.
NextOp(t, from) == Jump(t, from, "ops") /\ next' = [next EXCEPT ![t] = @ + 1]

-----------------------------------------------------------------------------
(* Ring calls: the steps before the last one, and the ways they end.       *)

WorkPushing(t, s) == WQ!PushCall(t, s) \/ WQ!PushRoom(t) \/ WQ!PushRetry(t) \/ WQ!PushClaim(t)
WorkPushed(t) == WQ!PushFull(t) \/ WQ!PushStore(t)
WorkPopping(t) == WQ!PopCall(t) \/ WQ!PopSome(t) \/ WQ!PopClaim(t) \/ WQ!PopLoad(t)
WorkNone(t) == WQ!PopEmpty(t) \/ WQ!PopLost(t)
StockPushing(t, s) == SQ!PushCall(t, s) \/ SQ!PushRoom(t) \/ SQ!PushRetry(t) \/ SQ!PushClaim(t)
StockPushed(t) == SQ!PushFull(t) \/ SQ!PushStore(t)
StockPopping(t) == SQ!PopCall(t) \/ SQ!PopSome(t) \/ SQ!PopClaim(t) \/ SQ!PopLoad(t)
StockNone(t) == SQ!PopEmpty(t) \/ SQ!PopLost(t)

\* workerQueue.empty(): its two loads, and where the answer leads.
AskEmpty(t, where, ifEmpty, ifNot) ==
  /\ \/ Stay(t, where) /\ WQ!EmptyCall(t)
     \/ Jump(t, where, ifEmpty) /\ WQ!EmptyTrue(t)
     \/ Jump(t, where, ifNot) /\ WQ!EmptyFalse(t)
  /\ UNCHANGED <<stockRing, next, slots, sync, enabled, executeCount, jobs>>

NoCall == UNCHANGED <<workRing, stockRing, calls>>

-----------------------------------------------------------------------------
(* void update(), the body of a worker thread *)

\* std::unique_lock lk(executeMutex)
Lock(t) == /\ Jump(t, "lock", "enabled?")
           /\ mutex = Null
           /\ mutex' = t
           /\ NoCall /\ UNCHANGED <<next, slots, asleep, awaiting, enabled, executeCount, jobs>>

\* while (enabled && workerQueue.empty())
CheckEnabled(t) == /\ Jump(t, "enabled?", IF enabled THEN "empty?" ELSE "unlock")
                   /\ NoCall /\ UNCHANGED <<next, slots, sync, enabled, executeCount, jobs>>
CheckEmpty(t) == AskEmpty(t, "empty?", "sleep", "unlock")

\* executeCondition.wait(lk): releases the mutex and waits in one step ...
Sleep(t) == /\ Jump(t, "sleep", "asleep")
            /\ mutex' = Null
            /\ asleep' = asleep \cup {t}
            /\ NoCall /\ UNCHANGED <<next, slots, awaiting, enabled, executeCount, jobs>>
\* ... and takes it again once notified; it may also wake for no reason.
Spurious(t) == /\ asleep' = asleep \ {t} /\ awaiting' = awaiting \ {t}
               /\ t \in asleep \cup awaiting
               /\ NoCall /\ UNCHANGED <<pc, next, slots, mutex, enabled, executeCount, jobs>>
Wake(t) == /\ Jump(t, "asleep", "enabled?")
           /\ t \notin asleep /\ mutex = Null
           /\ mutex' = t
           /\ NoCall /\ UNCHANGED <<next, slots, asleep, awaiting, enabled, executeCount, jobs>>

Unlock(t) == /\ Jump(t, "unlock", "running?")
             /\ mutex' = Null
             /\ NoCall /\ UNCHANGED <<next, slots, asleep, awaiting, enabled, executeCount, jobs>>

\* if (enabled == false) break;
CheckRunning(t) == /\ Jump(t, "running?", IF enabled THEN "enter" ELSE "done")
                   /\ NoCall /\ UNCHANGED <<next, slots, sync, enabled, executeCount, jobs>>

Enter(t) == /\ Jump(t, "enter", "pop")
            /\ executeCount' = executeCount + 1
            /\ NoCall /\ UNCHANGED <<next, slots, sync, enabled, jobs>>

\* while (auto* wslot = workerQueue.pop())
PopSlot(t) == /\ \/ Stay(t, "pop") /\ WorkPopping(t) /\ UNCHANGED running
                 \/ Jump(t, "pop", "leave") /\ WorkNone(t) /\ UNCHANGED running
                 \/ /\ Jump(t, "pop", "gate")
                    /\ WQ!PopClear(t)
                    /\ running' = [running EXCEPT ![t] = val[t]]
              /\ UNCHANGED <<stockRing, next, hand, slotJob, sync, enabled, executeCount, jobs>>

\* Mutant of Open: < 1 turned into <= 1.
OpenAtOne(j) == Gate[j] # Null => count[Gate[j]] <= 1

\* if (reference == nullptr || reference->load() <= 0)
Open(j) == Gate[j] # Null => count[Gate[j]] <= 0
PassGate(t) == /\ Jump(t, "gate", "ops")
               /\ Open(Job(t))
               /\ next' = [next EXCEPT ![t] = 1]
               /\ doing' = [doing EXCEPT ![t] = Job(t)]
               /\ begun' = [begun EXCEPT ![Job(t)] = @ + 1]
               /\ NoCall /\ UNCHANGED <<slots, sync, enabled, executeCount, count, ran, pushed>>
MissGate(t) == /\ Jump(t, "gate", "requeue")
               /\ ~Open(Job(t))
               /\ NoCall /\ UNCHANGED <<next, slots, sync, enabled, executeCount, jobs>>

\* Mutant of Finish: the slot goes back to the wrong queue.
FinishRequeues(t) == /\ t # Main /\ Jump(t, "ops", "requeue")
                     /\ next[t] > Len(Ops(t))
                     /\ ran' = [ran EXCEPT ![doing[t]] = @ + 1]
                     /\ doing' = [doing EXCEPT ![t] = Null]
                     /\ count' = IF After[Job(t)] = Null THEN count ELSE [count EXCEPT ![After[Job(t)]] = @ - 1]
                     /\ NoCall /\ UNCHANGED <<next, slots, sync, enabled, executeCount, begun, pushed>>

\* wslot->run() returns; counter->fetch_sub(1)
Finish(t) == /\ t # Main /\ Jump(t, "ops", "restock")
             /\ next[t] > Len(Ops(t))
             /\ ran' = [ran EXCEPT ![doing[t]] = @ + 1]
             /\ doing' = [doing EXCEPT ![t] = Null]
             /\ count' = IF After[Job(t)] = Null THEN count ELSE [count EXCEPT ![After[Job(t)]] = @ - 1]
             /\ NoCall /\ UNCHANGED <<next, slots, sync, enabled, executeCount, begun, pushed>>

\* Mutant of Restock: one job per round, if instead of while around the pop.
RestockOnce(t) == /\ \/ Stay(t, "restock") /\ StockPushing(t, running[t]) /\ UNCHANGED running
                     \/ /\ Jump(t, "restock", "leave")
                        /\ StockPushed(t)
                        /\ running' = [running EXCEPT ![t] = Null]
                  /\ UNCHANGED <<workRing, next, hand, slotJob, sync, enabled, executeCount, jobs>>

\* stockQueue.push(wslot): the result is ignored
Restock(t) == /\ \/ Stay(t, "restock") /\ StockPushing(t, running[t]) /\ UNCHANGED running
                 \/ /\ Jump(t, "restock", "pop")
                    /\ StockPushed(t)
                    /\ running' = [running EXCEPT ![t] = Null]
              /\ UNCHANGED <<workRing, next, hand, slotJob, sync, enabled, executeCount, jobs>>

\* workerQueue.push(wslot): the result is ignored
Requeue(t) == /\ \/ Stay(t, "requeue") /\ WorkPushing(t, running[t]) /\ UNCHANGED running
                 \/ /\ Jump(t, "requeue", "pop")
                    /\ WorkPushed(t)
                    /\ running' = [running EXCEPT ![t] = Null]
              /\ UNCHANGED <<stockRing, next, hand, slotJob, sync, enabled, executeCount, jobs>>

\* Mutant of Leave: executeCount.fetch_sub(1) is missing.
LeaveUncounted(t) == /\ Jump(t, "leave", "last?")
                     /\ NoCall /\ UNCHANGED <<next, slots, sync, enabled, executeCount, jobs>>

Leave(t) == /\ Jump(t, "leave", "last?")
            /\ executeCount' = executeCount - 1
            /\ NoCall /\ UNCHANGED <<next, slots, sync, enabled, jobs>>

\* if (executeCount.load() == 0 && workerQueue.empty()) waitCondition.notify_all();
CheckLast(t) == /\ Jump(t, "last?", IF executeCount = 0 THEN "drained?" ELSE "lock")
                /\ NoCall /\ UNCHANGED <<next, slots, sync, enabled, executeCount, jobs>>
CheckDrained(t) == AskEmpty(t, "drained?", "notify", "lock")
NotifyWait(t) == /\ Jump(t, "notify", "lock")
                 /\ awaiting' = {}
                 /\ NoCall /\ UNCHANGED <<next, slots, mutex, asleep, enabled, executeCount, jobs>>

-----------------------------------------------------------------------------
(* Operations of a job's run() and of the client *)

Op(t, name) == /\ pc[t] = "ops"
               /\ next[t] <= Len(Ops(t))
               /\ Ops(t)[next[t]].op = name
Arg(t) == Ops(t)[next[t]]

AddCount(t) == /\ Op(t, "add") /\ NextOp(t, "ops")
               /\ count' = [count EXCEPT ![Arg(t).counter] = @ + Arg(t).by]
               /\ NoCall /\ UNCHANGED <<slots, sync, enabled, executeCount, doing, begun, ran, pushed>>

\* stockQueue.push(&workerSlot[i]) in the constructor
StockSlot(t) == /\ Op(t, "stock")
                /\ \/ Stay(t, "ops") /\ StockPushing(t, Arg(t).slot) /\ UNCHANGED next
                   \/ NextOp(t, "ops") /\ StockPushed(t)
                /\ UNCHANGED <<workRing, slots, sync, enabled, executeCount, jobs>>

\* bool push(...): auto* wslot = stockQueue.pop(), then wslot->set(...)
TakeSlot(t) == /\ Op(t, "push")
               /\ \/ Stay(t, "ops") /\ StockPopping(t) /\ UNCHANGED <<next, hand, slotJob>>
                  \/ NextOp(t, "ops") /\ StockNone(t) /\ UNCHANGED <<hand, slotJob>>
                  \/ /\ Jump(t, "ops", "give") /\ SQ!PopClear(t)
                     /\ hand' = [hand EXCEPT ![t] = val[t]]
                     /\ slotJob' = [slotJob EXCEPT ![val[t]] = Arg(t).job]
                     /\ UNCHANGED next
               /\ UNCHANGED <<workRing, running, sync, enabled, executeCount, jobs>>

\* workerQueue.push(wslot); return true;
GiveSlot(t) == /\ \/ Stay(t, "give") /\ WorkPushing(t, hand[t]) /\ UNCHANGED <<next, hand, pushed>>
                  \/ /\ NextOp(t, "give")
                     /\ WorkPushed(t)
                     /\ hand' = [hand EXCEPT ![t] = Null]
                     /\ pushed' = pushed \cup {Arg(t).job}
               /\ UNCHANGED <<stockRing, running, slotJob, sync, enabled, executeCount, doing, count, begun, ran>>

\* executeCondition.notify_all(), without the mutex
ExecuteAll(t) == /\ Op(t, "execute") /\ NextOp(t, "ops")
                 /\ asleep' = {}
                 /\ NoCall /\ UNCHANGED <<slots, mutex, awaiting, enabled, executeCount, jobs>>

\* void wait()
WaitLock(t) == /\ Op(t, "wait") /\ Jump(t, "ops", "count?")
               /\ mutex = Null
               /\ mutex' = t
               /\ NoCall /\ UNCHANGED <<next, slots, asleep, awaiting, enabled, executeCount, jobs>>
WaitCount(t) == /\ Jump(t, "count?", IF executeCount = 0 THEN "queue?" ELSE "await")
                /\ NoCall /\ UNCHANGED <<next, slots, sync, enabled, executeCount, jobs>>
WaitEmpty(t) == AskEmpty(t, "queue?", "over", "await")
WaitSleep(t) == /\ Jump(t, "await", "awaiting")
                /\ mutex' = Null
                /\ awaiting' = awaiting \cup {t}
                /\ NoCall /\ UNCHANGED <<next, slots, asleep, enabled, executeCount, jobs>>
WaitWake(t) == /\ Jump(t, "awaiting", "count?")
               /\ t \notin awaiting /\ mutex = Null
               /\ mutex' = t
               /\ NoCall /\ UNCHANGED <<next, slots, asleep, awaiting, enabled, executeCount, jobs>>
WaitOver(t) == /\ NextOp(t, "over")
               /\ mutex' = Null
               /\ NoCall /\ UNCHANGED <<slots, asleep, awaiting, enabled, executeCount, jobs>>

\* void stop(): enabled = false, execute() and the joins
StopFlag(t) == /\ Op(t, "stop") /\ Jump(t, "ops", "stop")
               /\ enabled' = FALSE
               /\ NoCall /\ UNCHANGED <<next, slots, sync, executeCount, jobs>>

\* Mutant of StopNotify: notify_one.
StopNotifyOne(t) == /\ Jump(t, "stop", "join")
                    /\ \/ asleep = {} /\ UNCHANGED asleep
                       \/ \E u \in asleep : asleep' = asleep \ {u}
                    /\ NoCall /\ UNCHANGED <<next, slots, mutex, awaiting, enabled, executeCount, jobs>>

StopNotify(t) == /\ Jump(t, "stop", "join")
                 /\ asleep' = {}
                 /\ NoCall /\ UNCHANGED <<next, slots, mutex, awaiting, enabled, executeCount, jobs>>
Join(t) == /\ NextOp(t, "join")
           /\ \A w \in Crew : pc[w] = "done"
           /\ NoCall /\ UNCHANGED <<slots, sync, enabled, executeCount, jobs>>

-----------------------------------------------------------------------------
Acquire(t) == (Lock(t) \/ Wake(t) \/ WaitLock(t) \/ WaitWake(t)) /\ UNCHANGED program

Update(t) == \/ CheckEnabled(t) \/ CheckEmpty(t) \/ Sleep(t) \/ Unlock(t) \/ CheckRunning(t)
             \/ Enter(t) \/ PopSlot(t) \/ PassGate(t) \/ MissGate(t) \/ Finish(t)
             \/ Restock(t) \/ Requeue(t) \/ Leave(t) \/ CheckLast(t) \/ CheckDrained(t)
             \/ NotifyWait(t)
Call(t) == \/ AddCount(t) \/ StockSlot(t) \/ TakeSlot(t) \/ GiveSlot(t) \/ ExecuteAll(t)
           \/ WaitCount(t) \/ WaitEmpty(t) \/ WaitSleep(t) \/ WaitOver(t)
           \/ StopFlag(t) \/ StopNotify(t) \/ Join(t)
Advance(t) == (Update(t) \/ Call(t)) /\ UNCHANGED program

Next == \E t \in Threads : Acquire(t) \/ Advance(t) \/ (Spurious(t) /\ UNCHANGED program)

Spec == Init /\ [][Next]_vars

\* Every thread keeps running, and one that wants the mutex gets it if it is free
\* again and again.  Nothing ever has to wake without being notified.
FairSpec == /\ Spec
            /\ \A t \in Threads : WF_vars(Advance(t)) /\ SF_vars(Acquire(t))

-----------------------------------------------------------------------------
UpdateLabels == {"lock", "enabled?", "empty?", "sleep", "asleep", "unlock", "running?", "enter",
                 "pop", "gate", "requeue", "restock", "leave", "last?", "drained?", "notify", "done"}
ClientLabels == {"count?", "queue?", "await", "awaiting", "over", "stop", "join"}

\* The types of the members of WorkerThread and of the locals of its functions.
TypeOK == /\ WQ!RingTypeOK(WorkerSlots) /\ SQ!RingTypeOK(WorkerSlots)
          /\ at \in [Threads -> WQ!Labels]
          /\ idx \in [Threads -> WQ!Slots]
          /\ val \in [Threads -> WorkerSlots \cup {Null}]
          /\ pc \in [Threads -> UpdateLabels \cup ClientLabels \cup {"ops", "give"}]
          /\ next \in [Threads -> Nat]
          /\ running \in [Threads -> WorkerSlots \cup {Null}]
          /\ hand \in [Threads -> WorkerSlots \cup {Null}]
          /\ slotJob \in [WorkerSlots -> Jobs \cup {Null}]
          /\ doing \in [Threads -> Jobs \cup {Null}]
          /\ mutex \in Threads \cup {Null}
          /\ asleep \subseteq Workers /\ awaiting \subseteq {Main}
          /\ enabled \in BOOLEAN
          /\ executeCount \in 0 .. Cardinality(Workers)
          /\ count \in [Counters -> Int]
          /\ begun \in [Jobs -> Nat] /\ ran \in [Jobs -> Nat]
          /\ pushed \subseteq Jobs

\* Where a slot is: in a place of a ring, or in the hands of a thread.
Places(s) == {<<"work", i>> : i \in {k \in WQ!Slots : workBuf[k] = s}} \cup
             {<<"stock", i>> : i \in {k \in SQ!Slots : stockBuf[k] = s}} \cup
             {<<"running", t>> : t \in {u \in Threads : running[u] = s}} \cup
             {<<"hand", t>> : t \in {u \in Threads : hand[u] = s}}
Stocked(s) == next[Main] > s

\* A slot is never in two places, so it is never given to two jobs; and as long
\* as no job goes back into the queue to wait for a counter, the slots that fit
\* into stockQueue are not lost either (worker2.h:69-105, 148-169).
NobodyWaits == \A j \in Jobs : Gate[j] = Null
SlotOwned == \A s \in WorkerSlots :
               /\ Cardinality(Places(s)) <= 1
               /\ NobodyWaits /\ Stocked(s) /\ s < NbWorker => Places(s) # {}

\* The pool of jobs this is: the operations of run() that lower a counter, whether a
\* job has lowered all it lowers, and where a job stands.
Lowerings(k) == {i \in DOMAIN Body[k] : Body[k][i].op = "add" /\ Body[k][i].by < 0}
Lowers(k, c) == After[k] = c \/ \E i \in Lowerings(k) : Body[k][i].counter = c
Past(k, i) == \E t \in Workers : doing[t] = k /\ next[t] > i
Released(k) == ran[k] > 0 \/ (After[k] = Null /\ \A i \in Lowerings(k) : Past(k, i))
Stage(j) == IF begun[j] > ran[j] THEN "running"
            ELSE IF ran[j] > 0 THEN "ended"
            ELSE IF \E s \in WorkerSlots : slotJob[s] = j THEN "waiting" ELSE "new"
Pool == INSTANCE JobPool WITH
          state <- [j \in Jobs |-> Stage(j)],
          needs <- [j \in Jobs |-> {k \in Jobs : Gate[j] # Null /\ Lowers(k, Gate[j])}],
          released <- {k \in Jobs : (After[k] # Null \/ Lowerings(k) # {}) /\ Released(k)}

\* The workers implement the pool: the job put into a slot is run once, the slot is
\* not set to another job before, and a job that refers to a counter starts after
\* every job that decrements it has done so, those included that a running job
\* pushes (worker2.h:83-102, 158-179, thread_test2.cpp:85-99).
ImplementsPool == Pool!Spec

\* The client has come back from wait().
Waited == \E k \in DOMAIN Ops(Main) : Ops(Main)[k] = Wait /\ next[Main] > k

\* What the comment at worker2.h:107 says of the condition wait() waits for: all
\* execution has finished.
WaitMeansDone == Waited => \A j \in pushed : ran[j] > 0

\* thread_test2.cpp:54-58 and 116-118 go on after wait().
WaitReturns == (pc[Main] = "ops" /\ Op(Main, "wait")) ~> Waited

\* A job that was pushed while a worker is awake is run, where no job waits for a
\* counter: a worker looks at the queue again before it sleeps (worker2.h:67-75, 85).
Awake(t) == pc[t] \in {"enter", "gate", "ops", "give", "requeue", "restock"}
AwakeDrains == \A j \in Jobs :
                 (NobodyWaits /\ j \in pushed /\ \E t \in Workers : Awake(t)) ~> (ran[j] > 0)

\* stop() ends: a worker comes to the end of its thread after it, but for one that is
\* about to sleep when enabled falls: it may miss the only notification, and the join
\* waits for it for ever (worker2.h:65-79, 134-142).
StopEnds == \A w \in Workers :
              (pc[Main] = "stop" /\ pc[w] \notin {"empty?", "sleep"}) ~> (pc[w] = "done")
=============================================================================
