------------------------------ MODULE JobWorker -----------------------------
(***************************************************************************)
(* WorkerThread of worker.h with one client thread, as in thread_test.cpp  *)
(* and game_test.cpp: workers that poll a ring of jobs (atomic_queue.h),   *)
(* job objects placed into a buffer (Arena), jobs that may push further    *)
(* jobs, and jobs that wait for a counter by being queued again.           *)
(*                                                                         *)
(* One step is one atomic access of one thread; add_atomic, a loop around  *)
(* a compare-and-swap, is the access that ends it.  Constructing the job   *)
(* object goes with the step that claims its memory.                       *)
(***************************************************************************)
EXTENDS Integers, Sequences, FiniteSets

CONSTANTS
  Workers,      \* the threads there can be in thread_list
  Main,         \* the client's thread
  QueueSize,    \* bsz / 32
  BufferSize,   \* bsz
  WorkSizeMod,  \* 2^16
  Jobs,
  SizeOf,       \* per job, the size of its object
  Counters,
  Programs,     \* the programs checked (see program)
  Null, WeakFails

Threads == Workers \cup {Main}

\* The operations of run() and of the client.
Add(c, by) == [op |-> "add", counter |-> c, by |-> by]
Push(j) == [op |-> "push", job |-> j]
Await == [op |-> "await"]      \* while (checkComplete() == false)
Clear == [op |-> "clear"]
Destroy == [op |-> "destroy"]

JobOps == [op : {"add"}, counter : Counters, by : Int] \cup [op : {"push"}, job : Jobs]
ClientOps == JobOps \cup {Await, Clear, Destroy}

ASSUME NamesAssumption == /\ Null \notin Jobs /\ Null \notin Counters /\ Main \notin Workers
                          /\ Null \notin [at : Nat, size : Nat]
ASSUME JobsAssumption == SizeOf \in [Jobs -> Nat \ {0}]
ASSUME ThreadsAssumption == IsFiniteSet(Workers)
ASSUME QueueAssumption == QueueSize \in Nat \ {0} /\ WeakFails \in BOOLEAN
ASSUME BufferAssumption == BufferSize \in Nat /\ WorkSizeMod \in Nat \ {0}
ASSUME ProgramsAssumption == \A p \in Programs :
         /\ p.workers \subseteq Workers
         /\ p.gate \in [Jobs -> Counters \cup {Null}]
         /\ p.count \in [Counters -> Int]
         /\ p.body \in [Jobs -> Seq(JobOps)]
         /\ p.script \in Seq(ClientOps)

VARIABLES
  program,                            \* a member of Programs, the same all the time
  buffer, start, end,                 \* queue
  at, idx, val,                       \* the calls of push, pop and empty under way
  buffer_index, cidx, want, blocks,   \* the memory, and the calls of alloc under way
  pc,                                 \* per thread: where it is in the code of worker.h
  next,                               \* per thread: the next operation of its run() or script
  job,                                \* per worker: p, the job it has popped
  place,                              \* per job: its block of memory once constructed
  enabled, launch, exec_count,
  count,                              \* the counters
  begun, ran                          \* how often run() of a job was entered and left

ringVars == <<buffer, start, end>>
calls == <<at, idx, val>>
arena == <<buffer_index, cidx, want, blocks>>
flags == <<enabled, launch, exec_count>>
jobVars == <<place, count, begun, ran>>
vars == <<program, ringVars, calls, arena, pc, next, job, flags, jobVars>>

Q == INSTANCE AtomicRing WITH Size <- QueueSize
A == INSTANCE Arena WITH Sizes <- {SizeOf[j] : j \in Jobs}

\* The parts of a program: how many threads the machine gives (worker.h:126), per
\* job the counter it waits for or Null and what run() does, the counters' first
\* values, and what the client does with the object.
Crew == program.workers
Gate == program.gate
Body == program.body
Script == program.script

Ops(t) == IF t = Main THEN Script ELSE Body[job[t]]

Init == /\ program \in Programs
        /\ Q!RingInit /\ A!Init
        /\ at = [t \in Threads |-> "idle"]
        /\ idx = [t \in Threads |-> 0]
        /\ val = [t \in Threads |-> Null]
        /\ pc = [t \in Threads |-> CASE t = Main -> "boot" [] t \in Crew -> "launch" [] OTHER -> "done"]
        /\ next = [t \in Threads |-> 1]
        /\ job = [t \in Threads |-> Null]
        /\ place = [j \in Jobs |-> Null]
        /\ enabled = TRUE
        /\ launch = 0
        /\ exec_count = 0
        /\ count = program.count
        /\ begun = [j \in Jobs |-> 0]
        /\ ran = [j \in Jobs |-> 0]

Jump(t, from, to) == pc[t] = from /\ pc' = [pc EXCEPT ![t] = to]
Stay(t, where) == pc[t] = where /\ UNCHANGED pc
NextOp(t, from) == Jump(t, from, "ops") /\ next' = [next EXCEPT ![t] = @ + 1]
NoCall == UNCHANGED <<ringVars, calls, arena>>

-----------------------------------------------------------------------------
(* void execute(), the body of a worker thread *)

\* add_atomic(launch, 1)
Launch(t) == /\ Jump(t, "launch", "inc")
             /\ launch' = launch + 1
             /\ NoCall /\ UNCHANGED <<next, job, enabled, exec_count, jobVars>>

\* add_atomic(exec_count, 1)
CountIn(t) == /\ Jump(t, "inc", "pop")
              /\ exec_count' = exec_count + 1
              /\ NoCall /\ UNCHANGED <<next, job, enabled, launch, jobVars>>

\* auto* p = queue.pop()
PopJob(t) == /\ \/ /\ Stay(t, "pop")
                   /\ Q!PopCall(t) \/ Q!PopSome(t) \/ Q!PopClaim(t) \/ Q!PopLoad(t)
                   /\ UNCHANGED job
                \/ Jump(t, "pop", "dec") /\ (Q!PopEmpty(t) \/ Q!PopLost(t)) /\ UNCHANGED job
                \/ Jump(t, "pop", "gate") /\ Q!PopClear(t) /\ job' = [job EXCEPT ![t] = val[t]]
             /\ UNCHANGED <<arena, next, flags, jobVars>>

\* Mutant of Open: *c <= 1.
OpenAtOne(j) == Gate[j] # Null => count[Gate[j]] <= 1

\* if (c == nullptr || *c <= 0)
Open(j) == Gate[j] # Null => count[Gate[j]] <= 0

PassGate(t) == /\ Jump(t, "gate", "ops")
               /\ Open(job[t])
               /\ begun' = [begun EXCEPT ![job[t]] = @ + 1]
               /\ next' = [next EXCEPT ![t] = 1]
               /\ NoCall /\ UNCHANGED <<job, flags, place, count, ran>>

\* Mutant of MissGate: the job is not added again.
MissGateDrops(t) == /\ Jump(t, "gate", "dec")
                    /\ ~Open(job[t])
                    /\ job' = [job EXCEPT ![t] = Null]
                    /\ NoCall /\ UNCHANGED <<next, flags, jobVars>>

MissGate(t) == /\ Jump(t, "gate", "again")
               /\ ~Open(job[t])
               /\ NoCall /\ UNCHANGED <<next, job, flags, jobVars>>

\* void add(Worker* w): pushes until push returns true.
Adding(t, where, j) == /\ Stay(t, where)
                       /\ \/ Q!PushCall(t, j) \/ Q!PushRoom(t) \/ Q!PushRetry(t) \/ Q!PushClaim(t)
                          \/ Q!PushFull(t)

\* add(p) of a job whose counter is not down yet
AddAgain(t) == /\ \/ Adding(t, "again", job[t]) /\ UNCHANGED job
                  \/ Jump(t, "again", "dec") /\ Q!PushStore(t) /\ job' = [job EXCEPT ![t] = Null]
               /\ UNCHANGED <<arena, next, flags, jobVars>>

\* Mutant of Finish: the job is queued again.
FinishAdds(t) == /\ t # Main /\ Jump(t, "ops", "again")
                 /\ next[t] > Len(Ops(t))
                 /\ ran' = [ran EXCEPT ![job[t]] = @ + 1]
                 /\ NoCall /\ UNCHANGED <<next, job, flags, place, count, begun>>

\* p->run() returns
Finish(t) == /\ t # Main /\ Jump(t, "ops", "dec")
             /\ next[t] > Len(Ops(t))
             /\ ran' = [ran EXCEPT ![job[t]] = @ + 1]
             /\ job' = [job EXCEPT ![t] = Null]
             /\ NoCall /\ UNCHANGED <<next, flags, place, count, begun>>

\* Mutant of CountOut: add_atomic(exec_count, -1) is missing.
CountOutSkipped(t) == /\ Jump(t, "dec", "enabled?")
                      /\ NoCall /\ UNCHANGED <<next, job, flags, jobVars>>

\* add_atomic(exec_count, -1)
CountOut(t) == /\ Jump(t, "dec", "enabled?")
               /\ exec_count' = exec_count - 1
               /\ NoCall /\ UNCHANGED <<next, job, enabled, launch, jobVars>>

\* while (enabled)
Again(t) == /\ Jump(t, "enabled?", IF enabled THEN "inc" ELSE "done")
            /\ NoCall /\ UNCHANGED <<next, job, flags, jobVars>>

-----------------------------------------------------------------------------
(* Operations of a job's run() and of the client *)

\* while (launch < max_th) in the constructor
Boot(t) == /\ Jump(t, "boot", "ops")
           /\ launch >= Cardinality(Crew)
           /\ NoCall /\ UNCHANGED <<next, job, flags, jobVars>>

Op(t, name) == /\ pc[t] = "ops"
               /\ next[t] <= Len(Ops(t))
               /\ Ops(t)[next[t]].op = name
Arg(t) == Ops(t)[next[t]]

AddCount(t) == /\ Op(t, "add") /\ NextOp(t, "ops")
               /\ count' = [count EXCEPT ![Arg(t).counter] = @ + Arg(t).by]
               /\ NoCall /\ UNCHANGED <<job, flags, place, begun, ran>>

\* bool push(...): registerWorker: alloc(sz), and the constructor of m
Register(t) == /\ Op(t, "push")
               /\ \/ A!AllocRead(t, SizeOf[Arg(t).job]) /\ UNCHANGED <<pc, next, place>>
                  \/ A!AllocRetry(t) /\ UNCHANGED <<pc, next, place>>
                  \/ A!AllocRefused(t, SizeOf[Arg(t).job]) /\ NextOp(t, "ops") /\ UNCHANGED place
                  \/ /\ A!AllocClaim(t)
                     /\ Jump(t, "ops", "add")
                     /\ place' = [place EXCEPT ![Arg(t).job] = [at |-> cidx[t], size |-> want[t]]]
                     /\ UNCHANGED next
               /\ UNCHANGED <<ringVars, calls, job, flags, count, begun, ran>>

\* add(func(r.first)); return true;
AddNew(t) == /\ \/ Adding(t, "add", Arg(t).job) /\ UNCHANGED next
                \/ NextOp(t, "add") /\ Q!PushStore(t)
             /\ UNCHANGED <<arena, job, flags, jobVars>>

\* Mutant of CheckEmpty: checkComplete looks at exec_count only.
CheckEmptySkipped(t) == /\ NextOp(t, "empty?")
                        /\ NoCall /\ UNCHANGED <<job, flags, jobVars>>

\* bool checkComplete() const, called until it returns true
CheckCount(t) == /\ Op(t, "await") /\ Jump(t, "ops", IF exec_count = 0 THEN "empty?" ELSE "ops")
                 /\ NoCall /\ UNCHANGED <<next, job, flags, jobVars>>
CheckEmpty(t) == /\ \/ Stay(t, "empty?") /\ Q!EmptyCall(t) /\ UNCHANGED next
                    \/ NextOp(t, "empty?") /\ Q!EmptyTrue(t)
                    \/ Jump(t, "empty?", "ops") /\ Q!EmptyFalse(t) /\ UNCHANGED next
                 /\ UNCHANGED <<arena, job, flags, jobVars>>

\* void clear()
ClearAll(t) == /\ Op(t, "clear") /\ NextOp(t, "ops")
               /\ A!Clear
               /\ UNCHANGED <<ringVars, calls, job, flags, jobVars>>

\* ~WorkerThread(): enabled = false, then the joins
Disable(t) == /\ Op(t, "destroy") /\ Jump(t, "ops", "join")
              /\ enabled' = FALSE
              /\ NoCall /\ UNCHANGED <<next, job, launch, exec_count, jobVars>>
Join(t) == /\ NextOp(t, "join")
           /\ \A w \in Crew : pc[w] = "done"
           /\ NoCall /\ UNCHANGED <<job, flags, jobVars>>

-----------------------------------------------------------------------------
Work(t) == \/ Launch(t) \/ CountIn(t) \/ PopJob(t) \/ PassGate(t) \/ MissGate(t) \/ AddAgain(t)
           \/ Finish(t) \/ CountOut(t) \/ Again(t)
Call(t) == \/ Boot(t) \/ AddCount(t) \/ Register(t) \/ AddNew(t) \/ CheckCount(t) \/ CheckEmpty(t)
           \/ ClearAll(t) \/ Disable(t) \/ Join(t)
Step(t) == (Work(t) \/ Call(t)) /\ UNCHANGED program

Next == \E t \in Threads : Step(t)

Spec == Init /\ [][Next]_vars

\* Every thread keeps running.
FairSpec == Spec /\ \A t \in Threads : WF_vars(Step(t))

-----------------------------------------------------------------------------
WorkerLabels == {"launch", "inc", "pop", "gate", "again", "dec", "enabled?", "done"}
ClientLabels == {"boot", "empty?", "join"}

\* The types of the members of WorkerThread and of the locals of its functions.
TypeOK == /\ Q!RingTypeOK(Jobs) /\ A!TypeOK
          /\ at \in [Threads -> Q!Labels]
          /\ idx \in [Threads -> Q!Slots]
          /\ val \in [Threads -> Jobs \cup {Null}]
          /\ pc \in [Threads -> WorkerLabels \cup ClientLabels \cup {"ops", "add"}]
          /\ next \in [Threads -> Nat]
          /\ job \in [Threads -> Jobs \cup {Null}]
          /\ place \in [Jobs -> [at : Nat, size : Nat] \cup {Null}]
          /\ enabled \in BOOLEAN
          /\ launch \in 0 .. Cardinality(Workers)
          /\ exec_count \in 0 .. Cardinality(Workers)
          /\ count \in [Counters -> Int]
          /\ begun \in [Jobs -> Nat] /\ ran \in [Jobs -> Nat]

Built(j) == place[j] # Null
Live(j) == Built(j) /\ ran[j] = 0

\* Who has the job: a slot of the ring, the worker that popped it, or the thread
\* that is still adding it.
Holders(j) == {<<"slot", i>> : i \in {k \in Q!Slots : buffer[k] = j}} \cup
              {<<"worker", t>> : t \in {w \in Workers : job[w] = j}} \cup
              {<<"adds", t>> : t \in {u \in Threads : pc[u] = "add" /\ Arg(u).job = j}}

\* Until it has run, a job whose memory was allocated is in exactly one place:
\* neither dropped nor taken twice, also when its counter sends it back into the
\* queue (worker.h:63-72, 101-121).
OneHolder == \A j \in Jobs : Live(j) => Cardinality(Holders(j)) = 1

\* What alloc() hands out to concurrent calls does not overlap (worker.h:82-98).
BlocksDisjoint == A!Disjoint

\* The objects of two jobs that have not finished never share memory
\* (worker.h:82-98, 114-117).
LiveDisjoint == \A j, k \in Jobs : j # k /\ Live(j) /\ Live(k) =>
                  \/ place[j].at + place[j].size <= place[k].at
                  \/ place[k].at + place[k].size <= place[j].at

\* The pool of jobs this is: the operations that lower a counter, whether a job is
\* past all of its own, and where a job stands.
Lowerings(k) == {i \in DOMAIN Body[k] : Body[k][i].op = "add" /\ Body[k][i].by < 0}
Lowers(k, c) == \E i \in Lowerings(k) : Body[k][i].counter = c
Past(k, i) == ran[k] > 0 \/ \E t \in Workers : job[t] = k /\ pc[t] \in {"ops", "add"} /\ next[t] > i
Stage(j) == IF begun[j] > ran[j] THEN "running"
            ELSE IF ran[j] > 0 THEN "ended" ELSE IF Built(j) THEN "waiting" ELSE "new"
Pool == INSTANCE JobPool WITH
          state <- [j \in Jobs |-> Stage(j)],
          needs <- [j \in Jobs |-> {k \in Jobs : Gate[j] # Null /\ Lowers(k, Gate[j])}],
          released <- {k \in Jobs : Lowerings(k) # {} /\ \A i \in Lowerings(k) : Past(k, i)}

\* The workers implement the pool: a job that was given memory is run once, however
\* often it goes round the queue, and one that waits for a counter starts after
\* every job that lowers it has done so (worker.h:57-79, game_test.cpp:195-234).
ImplementsPool == Pool!Spec

\* The client has seen checkComplete() return true after these jobs were pushed.
Covered(i) == \E k \in DOMAIN Script : Script[k] = Await /\ i < k /\ k < next[Main]
CoveredJobs == {Script[i].job : i \in {k \in DOMAIN Script : Script[k].op = "push" /\ Covered(k)}}

\* Slots from start up to end.
Queued == {i \in Q!Slots : (i - start) % QueueSize < (end - start) % QueueSize}

\* Once checkComplete() has returned true, no job pushed before is in the queue
\* any more.  This needs that the ring does not go round between the two loads
\* of empty(), as it does when a job waits for a counter (worker.h:152).
CompleteMeansTaken == (\A j \in Jobs : Gate[j] = Null) =>
                        \A j \in CoveredJobs : \A i \in Queued : buffer[i] # j

\* Nobody can take a job from the queue any more: it is full, and every worker is
\* inside add() before the compare-and-swap (worker.h:103-106).
Stuck == /\ Q!Succ(end) = start
         /\ \A w \in Crew : pc[w] \in {"add", "again"} /\ at[w] \in {"idle", "push_check", "push_cas"}

\* A job in the queue is run once its counter is down, unless the object is
\* destroyed before, or a burst of pushes from inside jobs has filled the queue
\* under the workers' feet (worker.h:57-79, 100-109, README.md:12).
InQueue(j) == \E i \in Queued : buffer[i] = j
QueuedRuns == \A j \in Jobs : (InQueue(j) /\ Open(j)) ~> (ran[j] > 0 \/ ~enabled \/ Stuck)

=============================================================================
