-------------------------- MODULE JobWorker_proofs --------------------------
(***************************************************************************)
(* Proofs about WorkerThread of worker.h for every number of workers, ring *)
(* size, buffer size and program: the types of its members, and that the   *)
(* memory the pushes of all threads are given does not overlap; for        *)
(* programs that keep the ring in step, that a job has one holder, that    *)
(* checkComplete() sees all jobs pushed before it, and that the worker     *)
(* implements JobPool.                                                     *)
(***************************************************************************)
EXTENDS JobWorker, FiniteSetTheorems, SequenceTheorems, TLAPS

-----------------------------------------------------------------------------
(* Where a thread is in the code, and the calls that go with it. *)

\* The members and locals but for the two counts, see CountInv.
TypeInv == /\ program \in Programs
           /\ Q!RingTypeOK(Jobs) /\ A!TypeOK
           /\ at \in [Threads -> Q!Labels]
           /\ idx \in [Threads -> Q!Slots]
           /\ val \in [Threads -> Jobs \cup {Null}]
           /\ pc \in [Threads -> WorkerLabels \cup ClientLabels \cup {"ops", "add"}]
           /\ next \in [Threads -> Nat \ {0}]
           /\ job \in [Threads -> Jobs \cup {Null}]
           /\ place \in [Jobs -> [at : Nat, size : Nat] \cup {Null}]
           /\ enabled \in BOOLEAN
           /\ count \in [Counters -> Int]
           /\ begun \in [Jobs -> Nat] /\ ran \in [Jobs -> Nat]

\* Workers and the client keep to their parts of the code.
PartsInv == /\ pc[Main] \in ClientLabels \cup {"ops", "add"}
            /\ \A w \in Workers : /\ pc[w] \in WorkerLabels \cup {"ops", "add"}
                                  /\ w \notin Crew => pc[w] = "done"

\* A worker has a job from the pop to the end of run() or of add().
JobInv == \A w \in Workers : job[w] # Null <=> pc[w] \in {"gate", "again", "ops", "add"}

\* Calls of the ring belong to the place in the code that makes them.
CallInv == \A t \in Threads :
             /\ at[t] \in Q!PushLabels => pc[t] \in {"again", "add"}
             /\ at[t] \in Q!PopLabels => pc[t] = "pop"
             /\ at[t] = "empty_check" => pc[t] = "empty?"
             /\ at[t] \in Q!PushLabels \cup {"pop_clear"} => val[t] \in Jobs

\* So do the calls of alloc(), and add() is only reached by an operation push.
PushInv == \A t \in Threads :
             /\ pc[t] = "add" => next[t] <= Len(Ops(t)) /\ Arg(t).op = "push"
             /\ cidx[t] # A!Free => Op(t, "push")

ControlInv == TypeInv /\ PartsInv /\ JobInv /\ CallInv /\ PushInv

LEMMA OpsOK ==
  ASSUME TypeInv, PartsInv, JobInv, NEW t \in Threads, pc[t] \in {"ops", "add"}
  PROVE  /\ Ops(t) \in Seq(ClientOps)
         /\ t # Main => Ops(t) \in Seq(JobOps) /\ job[t] \in Jobs
<1>1. CASE t = Main
  BY <1>1, ProgramsAssumption DEF TypeInv, Ops, Script
<1>2. CASE t # Main
  <2>1. t \in Workers
    BY <1>2 DEF Threads
  <2>2. job[t] \in Jobs
    BY <2>1 DEF TypeInv, JobInv
  <2>3. Ops(t) \in Seq(JobOps)
    BY <1>2, <2>2, ProgramsAssumption DEF TypeInv, Ops, Body
  <2>4. Seq(JobOps) \subseteq Seq(ClientOps)
    BY DEF ClientOps
  <2>5. QED BY <1>2, <2>2, <2>3, <2>4
<1>3. QED BY <1>1, <1>2

LEMMA ArgOK ==
  ASSUME TypeInv, PartsInv, JobInv, NEW t \in Threads, pc[t] \in {"ops", "add"},
         next[t] <= Len(Ops(t))
  PROVE  /\ Arg(t) \in ClientOps
         /\ t # Main => Arg(t) \in JobOps
<1>1. next[t] \in Nat \ {0}
  BY DEF TypeInv
<1>2. next[t] \in 1 .. Len(Ops(t))
  BY <1>1, OpsOK
<1>3. QED BY <1>2, OpsOK, ElementOfSeq DEF Arg

LEMMA PushArg ==
  ASSUME NEW o \in ClientOps, o.op = "push"
  PROVE  o.job \in Jobs
<1>1. Await.op # "push" /\ Clear.op # "push" /\ Destroy.op # "push"
  BY DEF Await, Clear, Destroy
<1>2. o \in JobOps
  BY <1>1 DEF ClientOps
<1>3. QED BY <1>2 DEF JobOps

LEMMA AddArg ==
  ASSUME NEW o \in ClientOps, o.op = "add"
  PROVE  o.counter \in Counters /\ o.by \in Int
<1>1. Await.op # "add" /\ Clear.op # "add" /\ Destroy.op # "add"
  BY DEF Await, Clear, Destroy
<1>2. o \in JobOps
  BY <1>1 DEF ClientOps
<1>3. QED BY <1>2 DEF JobOps

LEMMA OnlyJobOps ==
  ASSUME NEW o \in JobOps
  PROVE  o.op \in {"add", "push"}
BY DEF JobOps
-----------------------------------------------------------------------------
(* The memory is Arena's, with the sizes of the jobs' objects. *)

AP == INSTANCE Arena_proofs WITH Sizes <- {SizeOf[j] : j \in Jobs}

LEMMA ObjectSizes == AP!SizesAssumption
BY JobsAssumption, BufferAssumption DEF AP!SizesAssumption

\* The definitions of the two instances are the same.
LEMMA SameArena ==
  /\ A!TypeOK <=> AP!TypeOK
  /\ A!Disjoint <=> AP!Disjoint
  /\ A!BelowIndex <=> AP!BelowIndex
  /\ A!NoWrap <=> AP!NoWrap
  /\ A!IInv <=> AP!IInv
  /\ A!Init <=> AP!Init
<1>1. A!TypeOK <=> AP!TypeOK
  BY DEF A!TypeOK, AP!TypeOK, A!Free, AP!Free, A!Fits, AP!Fits, A!Bump, AP!Bump, A!Blocks, AP!Blocks
<1>2. A!Disjoint <=> AP!Disjoint
  BY DEF A!Disjoint, AP!Disjoint
<1>3. A!BelowIndex <=> AP!BelowIndex
  BY DEF A!BelowIndex, AP!BelowIndex
<1>4. A!NoWrap <=> AP!NoWrap
  BY DEF A!NoWrap, AP!NoWrap
<1>5. A!Init <=> AP!Init
  BY DEF A!Init, AP!Init, A!Free, AP!Free
<1>6. QED BY <1>1, <1>2, <1>3, <1>4, <1>5 DEF A!IInv, AP!IInv

\* What a thread can do to the memory.
AllocCall(t) == \/ \E j \in Jobs : A!AllocRead(t, SizeOf[j]) \/ A!AllocRefused(t, SizeOf[j])
                \/ A!AllocRetry(t) \/ A!AllocClaim(t)

LEMMA ArenaCalls ==
  ASSUME NEW t \in Threads, AllocCall(t) \/ A!Clear \/ UNCHANGED arena
  PROVE  [AP!Next]_(AP!arena)
<1> USE DEF A!Free, AP!Free, A!Fits, AP!Fits, A!Bump, AP!Bump, A!Give, AP!Give, A!arena, AP!arena
<1>1. ASSUME NEW j \in Jobs, A!AllocRead(t, SizeOf[j])
      PROVE  \E sz \in {SizeOf[k] : k \in Jobs} : AP!AllocRead(t, sz)
  BY <1>1 DEF A!AllocRead, AP!AllocRead
<1>2. ASSUME NEW j \in Jobs, A!AllocRefused(t, SizeOf[j])
      PROVE  \E sz \in {SizeOf[k] : k \in Jobs} : AP!AllocRefused(t, sz)
  BY <1>2 DEF A!AllocRefused, AP!AllocRefused
<1>3. A!AllocRetry(t) => AP!AllocRetry(t)
  BY DEF A!AllocRetry, AP!AllocRetry
<1>4. A!AllocClaim(t) => AP!AllocClaim(t)
  BY DEF A!AllocClaim, AP!AllocClaim
<1>5. A!Clear => AP!Clear
  BY DEF A!Clear, AP!Clear
<1>6. UNCHANGED arena => UNCHANGED AP!arena
  BY DEF arena
<1>7. QED BY <1>1, <1>2, <1>3, <1>4, <1>5, <1>6 DEF AllocCall, AP!Next

LEMMA ArenaTypes ==
  ASSUME NEW t \in Threads, AllocCall(t) \/ A!Clear \/ UNCHANGED arena, A!TypeOK
  PROVE  A!TypeOK'
<1>1. AP!TypeOK
  BY SameArena
<1>2. AP!TypeOK'
  BY <1>1, ArenaCalls, ObjectSizes, AP!ArenaTypeStep
<1>3. (A!TypeOK <=> AP!TypeOK)'
  BY SameArena, PTL
<1>4. QED BY <1>2, <1>3
-----------------------------------------------------------------------------
(* The calls of the ring. *)

PushGoes(t, j) == Q!PushCall(t, j) \/ Q!PushRoom(t) \/ Q!PushRetry(t) \/ Q!PushClaim(t) \/ Q!PushFull(t)
PopGoes(t) == Q!PopCall(t) \/ Q!PopSome(t) \/ Q!PopClaim(t) \/ Q!PopLoad(t)
PopFails(t) == Q!PopEmpty(t) \/ Q!PopLost(t)
EmptyGoes(t) == Q!EmptyCall(t) \/ Q!EmptyTrue(t) \/ Q!EmptyFalse(t)
RingCall(t) == \/ \E j \in Jobs : PushGoes(t, j)
               \/ Q!PushStore(t) \/ PopGoes(t) \/ PopFails(t) \/ Q!PopClear(t) \/ EmptyGoes(t)

RingTypes == /\ Q!RingTypeOK(Jobs)
             /\ at \in [Threads -> Q!Labels]
             /\ idx \in [Threads -> Q!Slots]
             /\ val \in [Threads -> Jobs \cup {Null}]

LEMMA SuccSlot ==
  ASSUME NEW i \in Q!Slots
  PROVE  Q!Succ(i) \in Q!Slots
BY QueueAssumption DEF Q!Succ, Q!Slots

LEMMA RingCallTypes ==
  ASSUME RingTypes, NEW t \in Threads, RingCall(t),
         at[t] = "push_store" => val[t] \in Jobs
  PROVE  RingTypes'
<1> USE DEF RingTypes, Q!RingTypeOK, Q!Goto, Q!Return, Q!ring, Q!Labels, Q!PushLabels, Q!PopLabels
<1>0. idx[t] \in Q!Slots /\ Q!Succ(idx[t]) \in Q!Slots /\ 0 \in Q!Slots
  BY SuccSlot, QueueAssumption DEF Q!Slots
<1> HIDE DEF Q!Slots
<1>1. ASSUME NEW j \in Jobs, PushGoes(t, j) PROVE RingTypes'
  BY <1>0, <1>1 DEF PushGoes, Q!PushCall, Q!PushRoom, Q!PushRetry, Q!PushClaim, Q!PushFull
<1>2. CASE Q!PushStore(t)
  BY <1>0, <1>2 DEF Q!PushStore
<1>3. CASE PopGoes(t)
  BY <1>0, <1>3 DEF PopGoes, Q!PopCall, Q!PopSome, Q!PopClaim, Q!PopLoad
<1>4. CASE PopFails(t)
  BY <1>0, <1>4 DEF PopFails, Q!PopEmpty, Q!PopLost
<1>5. CASE Q!PopClear(t)
  BY <1>0, <1>5 DEF Q!PopClear
<1>6. CASE EmptyGoes(t)
  BY <1>0, <1>6 DEF EmptyGoes, Q!EmptyCall, Q!EmptyTrue, Q!EmptyFalse
<1>7. QED BY <1>1, <1>2, <1>3, <1>4, <1>5, <1>6 DEF RingCall

\* What a step of a thread does to the ring and to the memory.
LEMMA StepCalls ==
  ASSUME ControlInv, NEW t \in Threads, Step(t)
  PROVE  /\ RingCall(t) \/ UNCHANGED <<ringVars, calls>>
         /\ AllocCall(t) \/ A!Clear \/ UNCHANGED arena
<1> USE DEF ControlInv, NoCall
<1>1. ASSUME Work(t) \/ Boot(t) \/ AddCount(t) \/ CheckCount(t) \/ CheckEmpty(t) \/ Disable(t) \/ Join(t)
      PROVE  UNCHANGED arena
  BY <1>1 DEF Work, Launch, CountIn, PopJob, PassGate, MissGate, AddAgain, Finish, CountOut, Again,
              Boot, AddCount, CheckCount, CheckEmpty, Disable, Join
<1>2. CASE AddAgain(t)
  <2>1. pc[t] = "again"
    BY <1>2 DEF AddAgain, Adding, Stay, Jump
  <2>2. job[t] \in Jobs
    BY <2>1 DEF JobInv, TypeInv, PartsInv, Threads, ClientLabels
  <2>3. QED BY <1>1, <1>2, <2>2 DEF AddAgain, Adding, RingCall, PushGoes, Work
<1>3. CASE AddNew(t)
  <2>1. pc[t] = "add"
    BY <1>3 DEF AddNew, Adding, Stay, Jump, NextOp
  <2>2. Arg(t).job \in Jobs
    BY <2>1, ArgOK, PushArg DEF PushInv
  <2>3. QED BY <1>3, <2>2 DEF AddNew, Adding, RingCall, PushGoes
<1>4. CASE PopJob(t)
  BY <1>1, <1>4 DEF PopJob, RingCall, PopGoes, PopFails, Work
<1>5. CASE CheckEmpty(t)
  BY <1>1, <1>5 DEF CheckEmpty, RingCall, EmptyGoes
<1>6. CASE Register(t)
  <2>1. Arg(t).job \in Jobs
    BY <1>6, ArgOK, PushArg DEF Register, Op, Arg
  <2>2. QED BY <1>6, <2>1 DEF Register, AllocCall
<1>7. CASE ClearAll(t)
  BY <1>7 DEF ClearAll
<1>8. CASE Launch(t) \/ CountIn(t) \/ PassGate(t) \/ MissGate(t) \/ Finish(t) \/ CountOut(t) \/ Again(t)
           \/ Boot(t) \/ AddCount(t) \/ CheckCount(t) \/ Disable(t) \/ Join(t)
  BY <1>8 DEF Launch, CountIn, PassGate, MissGate, Finish, CountOut, Again,
              Boot, AddCount, CheckCount, Disable, Join
<1>9. QED BY <1>2, <1>3, <1>4, <1>5, <1>6, <1>7, <1>8 DEF Step, Work, Call
\* A step changes the locals of one thread.
LEMMA OthersStay ==
  ASSUME ControlInv, NEW t \in Threads, Step(t), NEW u \in Threads, u # t
  PROVE  /\ pc'[u] = pc[u] /\ next'[u] = next[u] /\ job'[u] = job[u]
         /\ at'[u] = at[u] /\ idx'[u] = idx[u] /\ val'[u] = val[u]
         /\ cidx'[u] = cidx[u] /\ want'[u] = want[u]
<1> USE DEF ControlInv, TypeInv
<1>1. at'[u] = at[u] /\ idx'[u] = idx[u] /\ val'[u] = val[u]
  <2>1. CASE UNCHANGED <<ringVars, calls>>
    BY <2>1 DEF calls
  <2>2. CASE RingCall(t)
    BY <2>2 DEF RingCall, PushGoes, PopGoes, PopFails, EmptyGoes, Q!Goto, Q!Return, Q!PushCall, Q!PushRoom,
                Q!PushRetry, Q!PushClaim, Q!PushFull, Q!PushStore, Q!PopCall, Q!PopSome, Q!PopClaim, Q!PopLoad,
                Q!PopEmpty, Q!PopLost, Q!PopClear, Q!EmptyCall, Q!EmptyTrue, Q!EmptyFalse
  <2>3. QED BY <2>1, <2>2, StepCalls
<1>2. cidx'[u] = cidx[u] /\ want'[u] = want[u]
  <2>1. CASE UNCHANGED arena
    BY <2>1 DEF arena
  <2>2. CASE A!Clear
    BY <2>2 DEF A!Clear
  <2>3. CASE AllocCall(t)
    BY <2>3 DEF AllocCall, A!TypeOK, A!Give, A!AllocRead, A!AllocRefused, A!AllocRetry, A!AllocClaim, A!arena
  <2>4. QED BY <2>1, <2>2, <2>3, StepCalls
<1>3. pc'[u] = pc[u]
  BY DEF Step, Work, Call, Jump, Stay, NextOp, Launch, CountIn, PopJob, PassGate, MissGate, AddAgain, Adding,
         Finish, CountOut, Again, Boot, AddCount, Register, AddNew, CheckCount, CheckEmpty, ClearAll,
         Disable, Join
<1>4. next'[u] = next[u]
  BY DEF Step, Work, Call, NextOp, Launch, CountIn, PopJob, PassGate, MissGate, AddAgain,
         Finish, CountOut, Again, Boot, AddCount, Register, AddNew, CheckCount, CheckEmpty, ClearAll,
         Disable, Join
<1>5. job'[u] = job[u]
  BY DEF Step, Work, Call, Launch, CountIn, PopJob, PassGate, MissGate, AddAgain,
         Finish, CountOut, Again, Boot, AddCount, Register, AddNew, CheckCount, CheckEmpty, ClearAll,
         Disable, Join
<1>6. QED BY <1>1, <1>2, <1>3, <1>4, <1>5

LEMMA TypeStep ==
  ASSUME ControlInv, NEW t \in Threads, Step(t)
  PROVE  TypeInv'
<1> USE DEF ControlInv, TypeInv
<1>1. program' \in Programs
  BY DEF Step
<1>2. A!TypeOK'
  BY StepCalls, ArenaTypes
<1>3. RingTypes'
  <2>1. CASE RingCall(t)
    BY <2>1, RingCallTypes DEF RingTypes, CallInv, Q!PushLabels
  <2>2. CASE UNCHANGED <<ringVars, calls>>
    BY <2>2 DEF RingTypes, Q!RingTypeOK, ringVars, calls
  <2>3. QED BY <2>1, <2>2, StepCalls
<1>4. pc' \in [Threads -> WorkerLabels \cup ClientLabels \cup {"ops", "add"}]
  <2> USE DEF WorkerLabels, ClientLabels
  <2>1. \A from, to : Jump(t, from, to) /\ to \in WorkerLabels \cup ClientLabels \cup {"ops", "add"} =>
                        pc' \in [Threads -> WorkerLabels \cup ClientLabels \cup {"ops", "add"}]
    BY DEF Jump
  <2>2. QED BY <2>1 DEF Step, Work, Call, Stay, NextOp, Launch, CountIn, PopJob, PassGate, MissGate, AddAgain,
               Adding, Finish, CountOut, Again, Boot, AddCount, Register, AddNew, CheckCount, CheckEmpty,
               ClearAll, Disable, Join
<1>5. next' \in [Threads -> Nat \ {0}]
  BY DEF Step, Work, Call, NextOp, Launch, CountIn, PopJob, PassGate, MissGate, AddAgain,
         Finish, CountOut, Again, Boot, AddCount, Register, AddNew, CheckCount, CheckEmpty, ClearAll,
         Disable, Join
<1>6. job' \in [Threads -> Jobs \cup {Null}]
  BY DEF Step, Work, Call, Launch, CountIn, PopJob, PassGate, MissGate, AddAgain,
         Finish, CountOut, Again, Boot, AddCount, Register, AddNew, CheckCount, CheckEmpty, ClearAll,
         Disable, Join
<1>7. place' \in [Jobs -> [at : Nat, size : Nat] \cup {Null}]
  <2>1. CASE UNCHANGED place
    BY <2>1
  <2>2. CASE Register(t) /\ A!AllocClaim(t)
    <3>1. cidx[t] \in 0 .. BufferSize /\ want[t] \in {SizeOf[j] : j \in Jobs}
      BY <2>2 DEF A!AllocClaim, A!TypeOK, A!Free
    <3>2. cidx[t] \in Nat /\ want[t] \in Nat
      BY <3>1, JobsAssumption, BufferAssumption
    <3>3. [at |-> cidx[t], size |-> want[t]] \in [at : Nat, size : Nat]
      BY <3>2
    <3> DEFINE b == [at |-> cidx[t], size |-> want[t]]
    <3>4. place' = place \/ place' = [place EXCEPT ![Arg(t).job] = b]
      BY <2>2 DEF Register
    <3> HIDE DEF b
    <3>5. QED BY <3>3, <3>4 DEF b
  <2>3. QED BY <2>1, <2>2 DEF Step, Work, Call, Launch, CountIn, PopJob, PassGate, MissGate, AddAgain,
         Finish, CountOut, Again, Boot, AddCount, Register, AddNew, CheckCount, CheckEmpty, ClearAll,
         Disable, Join, jobVars
<1>8. enabled' \in BOOLEAN
  BY DEF Step, Work, Call, Launch, CountIn, PopJob, PassGate, MissGate, AddAgain, flags,
         Finish, CountOut, Again, Boot, AddCount, Register, AddNew, CheckCount, CheckEmpty, ClearAll,
         Disable, Join
<1>9. count' \in [Counters -> Int]
  <2>1. CASE UNCHANGED count
    BY <2>1
  <2>2. CASE AddCount(t)
    <3>1. Arg(t).counter \in Counters /\ Arg(t).by \in Int
      BY <2>2, ArgOK, AddArg DEF AddCount, Op, Arg
    <3>2. QED BY <2>2, <3>1 DEF AddCount
  <2>3. QED BY <2>1, <2>2 DEF Step, Work, Call, Launch, CountIn, PopJob, PassGate, MissGate, AddAgain,
         Finish, CountOut, Again, Boot, Register, AddNew, CheckCount, CheckEmpty, ClearAll,
         Disable, Join, jobVars
<1>10. begun' \in [Jobs -> Nat]
  BY DEF Step, Work, Call, Launch, CountIn, PopJob, PassGate, MissGate, AddAgain,
         Finish, CountOut, Again, Boot, AddCount, Register, AddNew, CheckCount, CheckEmpty, ClearAll,
         Disable, Join, jobVars
<1>11. ran' \in [Jobs -> Nat]
  <2>1. CASE Finish(t)
    <3>1. ran' = [ran EXCEPT ![job[t]] = @ + 1] /\ ran \in [Jobs -> Nat]
      BY <2>1 DEF Finish
    <3>2. t \in Workers /\ pc[t] = "ops"
      BY <2>1 DEF Finish, Jump, Threads
    <3>3. job[t] \in Jobs
      BY <3>2 DEF JobInv
    <3>4. QED BY <3>1, <3>3
  <2>2. CASE UNCHANGED ran
    BY <2>2
  <2>3. QED BY <2>1, <2>2 DEF Step, Work, Call, Launch, CountIn, PopJob, PassGate, MissGate, AddAgain,
         CountOut, Again, Boot, AddCount, Register, AddNew, CheckCount, CheckEmpty, ClearAll,
         Disable, Join, jobVars
<1>12. QED BY <1>1, <1>2, <1>3, <1>4, <1>5, <1>6, <1>7, <1>8, <1>9, <1>10, <1>11 DEF RingTypes
\* A job's run() neither waits, clears nor destroys: only the client does.
LEMMA OnlyClient ==
  ASSUME ControlInv, NEW t \in Threads, t # Main
  PROVE  ~CheckCount(t) /\ ~ClearAll(t) /\ ~Disable(t)
<1> SUFFICES ASSUME Op(t, "await") \/ Op(t, "clear") \/ Op(t, "destroy") PROVE FALSE
  BY DEF CheckCount, ClearAll, Disable
<1>1. pc[t] = "ops" /\ next[t] <= Len(Ops(t)) /\ Arg(t).op \in {"await", "clear", "destroy"}
  BY DEF Op, Arg
<1>2. Arg(t) \in JobOps
  BY <1>1, ArgOK DEF ControlInv
<1>3. QED BY <1>1, <1>2, OnlyJobOps

LEMMA PartsStep ==
  ASSUME ControlInv, NEW t \in Threads, Step(t)
  PROVE  PartsInv'
<1> USE DEF ControlInv
<1>1. Main \in Threads /\ Workers \subseteq Threads /\ Main \notin Workers
  BY NamesAssumption DEF Threads
<1>2. Crew' = Crew
  BY DEF Step, Crew
<1>3. \A u \in Threads \ {t} : pc'[u] = pc[u]
  BY OthersStay
<1>4. ASSUME t = Main PROVE pc'[t] \in ClientLabels \cup {"ops", "add"}
  <2>1. pc[t] \in ClientLabels \cup {"ops", "add"}
    BY <1>4 DEF PartsInv
  <2> USE DEF TypeInv, Jump, Stay, NextOp, ClientLabels
  <2>2. ~Work(t)
    BY <1>4, <2>1 DEF Work, Launch, CountIn, PopJob, PassGate, MissGate, AddAgain, Adding, Finish, CountOut, Again
  <2>3. Call(t)
    BY <2>2 DEF Step
  <2>4. QED BY <2>1, <2>3 DEF Call, Boot, AddCount, Register, AddNew, Adding, CheckCount, CheckEmpty,
                              ClearAll, Disable, Join
<1>5. ASSUME t # Main PROVE /\ t \in Workers
                            /\ pc'[t] \in WorkerLabels \cup {"ops", "add"}
                            /\ t \notin Crew => pc'[t] = "done"
  <2>1. t \in Workers
    BY <1>5 DEF Threads
  <2>2. pc[t] \in WorkerLabels \cup {"ops", "add"} /\ (t \notin Crew => pc[t] = "done")
    BY <2>1 DEF PartsInv
  <2> USE DEF TypeInv, Jump, Stay, NextOp, WorkerLabels
  <2>3. ~Boot(t) /\ ~CheckEmpty(t) /\ ~Join(t)
    BY <2>2 DEF Boot, CheckEmpty, Join
  <2>4. Work(t) \/ AddCount(t) \/ Register(t) \/ AddNew(t)
    BY <1>5, <2>3, OnlyClient DEF Step, Call
  <2>5. pc[t] # "done"
    BY <2>4 DEF Work, Launch, CountIn, PopJob, PassGate, MissGate, AddAgain, Adding, Finish, CountOut, Again,
                AddCount, Register, Op, AddNew
  <2>6. pc'[t] \in WorkerLabels \cup {"ops", "add"}
    BY <2>2, <2>4 DEF Work, Launch, CountIn, PopJob, PassGate, MissGate, AddAgain, Adding, Finish, CountOut,
                Again, AddCount, Register, AddNew
  <2>7. QED BY <2>1, <2>2, <2>5, <2>6
<1>6. QED BY <1>1, <1>2, <1>3, <1>4, <1>5 DEF PartsInv

LEMMA JobStep ==
  ASSUME ControlInv, NEW t \in Threads, Step(t)
  PROVE  JobInv'
<1> USE DEF ControlInv
<1>1. SUFFICES ASSUME t \in Workers
               PROVE  job'[t] # Null <=> pc'[t] \in {"gate", "again", "ops", "add"}
  <2>1. \A u \in Workers \ {t} : pc'[u] = pc[u] /\ job'[u] = job[u]
    BY OthersStay DEF Threads
  <2>2. QED BY <2>1 DEF JobInv
<1>2. job[t] # Null <=> pc[t] \in {"gate", "again", "ops", "add"}
  BY <1>1 DEF JobInv
<1>3. t # Main /\ pc[t] \in WorkerLabels \cup {"ops", "add"}
  BY <1>1, NamesAssumption DEF PartsInv
<1> USE DEF TypeInv, Jump, Stay, NextOp
<1>4. Work(t) \/ AddCount(t) \/ Register(t) \/ AddNew(t)
  BY <1>3, OnlyClient DEF Step, Call, Boot, CheckEmpty, Join, WorkerLabels
<1>5. CASE PopJob(t)
  <2>1. at[t] = "pop_clear" => val[t] # Null
    BY NamesAssumption DEF CallInv
  <2>2. QED BY <1>2, <1>5, <2>1 DEF PopJob, Q!PopClear
<1>6. CASE AddAgain(t)
  BY <1>2, <1>6 DEF AddAgain, Adding
<1>7. CASE Finish(t)
  BY <1>2, <1>7 DEF Finish
<1>8. CASE Launch(t) \/ CountIn(t) \/ PassGate(t) \/ MissGate(t) \/ CountOut(t) \/ Again(t)
           \/ AddCount(t) \/ Register(t) \/ AddNew(t)
  BY <1>2, <1>8 DEF Launch, CountIn, PassGate, MissGate, CountOut, Again, AddCount, Register, Op, AddNew, Adding
<1>9. QED BY <1>4, <1>5, <1>6, <1>7, <1>8 DEF Work

LEMMA CallStep ==
  ASSUME ControlInv, NEW t \in Threads, Step(t)
  PROVE  CallInv'
<1> USE DEF ControlInv, Q!PushLabels, Q!PopLabels
<1>1. SUFFICES /\ at'[t] \in Q!PushLabels => pc'[t] \in {"again", "add"}
               /\ at'[t] \in Q!PopLabels => pc'[t] = "pop"
               /\ at'[t] = "empty_check" => pc'[t] = "empty?"
               /\ at'[t] \in Q!PushLabels \cup {"pop_clear"} => val'[t] \in Jobs
  <2>1. \A u \in Threads \ {t} : pc'[u] = pc[u] /\ at'[u] = at[u] /\ val'[u] = val[u]
    BY OthersStay
  <2>2. QED BY <2>1 DEF CallInv
<1>2. /\ at[t] \in Q!PushLabels => pc[t] \in {"again", "add"}
      /\ at[t] \in Q!PopLabels => pc[t] = "pop"
      /\ at[t] = "empty_check" => pc[t] = "empty?"
      /\ at[t] \in Q!PushLabels \cup {"pop_clear"} => val[t] \in Jobs
  BY DEF CallInv
<1> USE DEF TypeInv, Jump, Stay, NextOp, Q!Goto, Q!Return
<1>3. CASE PopJob(t)
  <2>1. at[t] = "pop_load" => buffer[idx[t]] \in Jobs \/ buffer[idx[t]] = Null
    BY DEF Q!RingTypeOK
  <2>2. QED BY <1>2, <1>3, <2>1 DEF PopJob, Q!PopCall, Q!PopSome, Q!PopClaim, Q!PopLoad, Q!PopEmpty, Q!PopLost, Q!PopClear
<1>4. CASE AddAgain(t)
  <2>1. pc[t] = "again"
    BY <1>4 DEF AddAgain, Adding
  <2>2. job[t] \in Jobs
    BY <2>1 DEF JobInv, PartsInv, Threads, ClientLabels
  <2>3. QED BY <1>2, <1>4, <2>1, <2>2 DEF AddAgain, Adding, Q!PushCall, Q!PushRoom, Q!PushRetry, Q!PushClaim,
                                          Q!PushFull, Q!PushStore
<1>5. CASE AddNew(t)
  <2>1. pc[t] = "add"
    BY <1>5 DEF AddNew, Adding
  <2>2. Arg(t).job \in Jobs
    BY <2>1, ArgOK, PushArg DEF PushInv
  <2> HIDE DEF Arg
  <2>3. QED BY <1>2, <1>5, <2>1, <2>2 DEF AddNew, Adding, Q!PushCall, Q!PushRoom, Q!PushRetry, Q!PushClaim,
                                          Q!PushFull, Q!PushStore
<1>6. CASE CheckEmpty(t)
  BY <1>2, <1>6 DEF CheckEmpty, Q!EmptyCall, Q!EmptyTrue, Q!EmptyFalse
<1>7. CASE Launch(t) \/ CountIn(t) \/ PassGate(t) \/ MissGate(t) \/ Finish(t) \/ CountOut(t) \/ Again(t)
           \/ Boot(t) \/ AddCount(t) \/ Register(t) \/ CheckCount(t) \/ ClearAll(t) \/ Disable(t) \/ Join(t)
  <2>1. UNCHANGED calls
    BY <1>7 DEF Launch, CountIn, PassGate, MissGate, Finish, CountOut, Again, Boot, AddCount, Register,
                CheckCount, ClearAll, Disable, Join, NoCall
  <2>2. \/ pc'[t] = pc[t]
        \/ pc[t] \notin {"again", "add", "pop", "empty?"}
    BY <1>7 DEF Launch, CountIn, PassGate, MissGate, Finish, CountOut, Again, Boot, AddCount, Register, Op,
                CheckCount, ClearAll, Disable, Join
  <2>3. CASE pc'[t] = pc[t]
    BY <1>2, <2>1, <2>3 DEF calls
  <2>4. CASE pc[t] \notin {"again", "add", "pop", "empty?"}
    BY <1>2, <2>1, <2>4 DEF calls
  <2>5. QED BY <2>2, <2>3, <2>4
<1>8. QED BY <1>3, <1>4, <1>5, <1>6, <1>7 DEF Step, Work, Call
\* Programs do not change, so a thread's operations do with its job only.
LEMMA OpsStay ==
  ASSUME ControlInv, NEW t \in Threads, Step(t), NEW u \in Threads, job'[u] = job[u]
  PROVE  /\ Ops(u)' = Ops(u)
         /\ next'[u] = next[u] => Arg(u)' = Arg(u)
<1>1. Ops(u)' = Ops(u)
  BY DEF Step, Ops, Script, Body
<1>2. QED BY <1>1 DEF Arg

LEMMA PushStep ==
  ASSUME ControlInv, NEW t \in Threads, Step(t)
  PROVE  PushInv'
<1> USE DEF ControlInv
<1> DEFINE Here(u) == pc[u] = "add" => next[u] <= Len(Ops(u)) /\ Arg(u).op = "push"
           There(u) == cidx[u] # A!Free => Op(u, "push")
<1>1. ASSUME NEW u \in Threads, u # t
      PROVE  (Here(u) /\ There(u))'
  <2>1. /\ pc'[u] = pc[u] /\ next'[u] = next[u] /\ job'[u] = job[u] /\ cidx'[u] = cidx[u]
    BY <1>1, OthersStay
  <2>2. Ops(u)' = Ops(u) /\ Arg(u)' = Arg(u)
    BY <2>1, OpsStay
  <2>3. (A!Free)' = A!Free
    BY DEF A!Free
  <2>4. Here(u) /\ There(u)
    BY DEF PushInv
  <2>5. QED BY <2>1, <2>2, <2>3, <2>4 DEF Op, Arg
<1>2. Here(t)'
  <2>1. SUFFICES ASSUME pc'[t] = "add" PROVE Here(t)'
    OBVIOUS
  <2> USE DEF TypeInv, Jump, Stay, NextOp
  <2>2. \/ Register(t) /\ pc[t] = "ops"
        \/ AddNew(t) /\ pc[t] = "add" /\ next'[t] = next[t]
    BY <2>1 DEF Step, Work, Call, Launch, CountIn, PopJob, PassGate, MissGate, AddAgain, Adding,
         Finish, CountOut, Again, Boot, AddCount, Register, Op, AddNew, CheckCount, CheckEmpty, ClearAll,
         Disable, Join
  <2>3. CASE Register(t) /\ pc[t] = "ops"
    <3>1. next'[t] = next[t] /\ job'[t] = job[t]
      BY <2>1, <2>3 DEF Register
    <3>2. next[t] <= Len(Ops(t)) /\ Arg(t).op = "push"
      BY <2>3 DEF Register, Op, Arg
    <3>3. Ops(t)' = Ops(t) /\ Arg(t)' = Arg(t)
      BY <3>1, OpsStay
    <3>4. QED BY <3>1, <3>2, <3>3
  <2>4. CASE AddNew(t) /\ pc[t] = "add" /\ next'[t] = next[t]
    <3>1. job'[t] = job[t]
      BY <2>4 DEF AddNew
    <3>2. Ops(t)' = Ops(t) /\ Arg(t)' = Arg(t)
      BY <2>4, <3>1, OpsStay
    <3>3. Here(t)
      BY DEF PushInv
    <3>4. QED BY <2>4, <3>2, <3>3
  <2>5. QED BY <2>2, <2>3, <2>4
<1>3. There(t)'
  <2>1. SUFFICES ASSUME cidx'[t] # A!Free PROVE Op(t, "push")'
    BY DEF A!Free
  <2>2. CASE Register(t)
    <3>1. pc'[t] = pc[t] /\ next'[t] = next[t] /\ job'[t] = job[t]
      BY <2>1, <2>2 DEF Register, A!AllocRefused, A!AllocClaim, A!Give, A!arena, TypeInv, A!TypeOK
    <3>2. Ops(t)' = Ops(t)
      BY <3>1, OpsStay
    <3>3. QED BY <2>2, <3>1, <3>2 DEF Register, Op
  <2>3. CASE ~Register(t)
    <3>1. cidx'[t] = cidx[t]
      BY <2>3 DEF Step, Work, Call, Launch, CountIn, PopJob, PassGate, MissGate, AddAgain,
         Finish, CountOut, Again, Boot, AddCount, AddNew, CheckCount, CheckEmpty, ClearAll,
         Disable, Join, NoCall, arena, A!Clear
    <3>2. pc[t] = "ops" /\ next[t] <= Len(Ops(t)) /\ Ops(t)[next[t]].op = "push"
      BY <2>1, <3>1 DEF PushInv, Op
    <3>3. FALSE
      BY <2>3, <3>2 DEF Step, Work, Call, Launch, CountIn, PopJob, PassGate, MissGate, AddAgain, Adding,
         Finish, CountOut, Again, Boot, AddCount, AddNew, CheckCount, CheckEmpty, ClearAll, Jump, Stay, NextOp,
         Disable, Join, Op, TypeInv
    <3>4. QED BY <3>3
  <2>4. QED BY <2>2, <2>3
<1>4. QED BY <1>1, <1>2, <1>3 DEF PushInv

LEMMA ControlStep == ControlInv /\ [Next]_vars => ControlInv'
<1> SUFFICES ASSUME ControlInv, [Next]_vars PROVE ControlInv'
  OBVIOUS
<1>1. CASE Next
  <2>1. PICK t \in Threads : Step(t)
    BY <1>1 DEF Next
  <2>2. QED BY <2>1, TypeStep, PartsStep, JobStep, CallStep, PushStep DEF ControlInv
<1>2. CASE UNCHANGED vars
  <2> USE DEF vars, ringVars, calls, arena, flags, jobVars, ControlInv
  <2>1. TypeInv'
    BY <1>2 DEF TypeInv, Q!RingTypeOK, A!TypeOK, A!Free, A!Fits, A!Bump, A!Blocks
  <2>2. PartsInv' /\ JobInv' /\ CallInv'
    BY <1>2 DEF PartsInv, JobInv, CallInv, Crew
  <2>3. PushInv'
    BY <1>2 DEF PushInv, Op, Arg, Ops, Script, Body, A!Free
  <2>4. QED BY <2>1, <2>2, <2>3
<1>3. QED BY <1>1, <1>2

LEMMA ControlInit == Init => ControlInv
<1> SUFFICES ASSUME Init PROVE ControlInv
  OBVIOUS
<1> USE DEF Init
<1>1. Main \in Threads /\ Workers \subseteq Threads /\ Main \notin Workers /\ Threads = Workers \cup {Main}
  BY NamesAssumption DEF Threads
<1>2. Crew \subseteq Workers
  BY ProgramsAssumption DEF Crew
<1>3. A!TypeOK
  BY ObjectSizes DEF AP!SizesAssumption, A!Init, A!TypeOK, A!Free, A!Blocks
<1>4. 0 \in Q!Slots
  BY QueueAssumption DEF Q!Slots
<1>5. TypeInv
  BY <1>1, <1>2, <1>3, <1>4, ProgramsAssumption
     DEF TypeInv, Q!RingInit, Q!RingTypeOK, Q!Labels, WorkerLabels, ClientLabels
<1>6. PartsInv /\ JobInv /\ CallInv
  BY <1>1, <1>2 DEF PartsInv, JobInv, CallInv, WorkerLabels, ClientLabels, Q!PushLabels, Q!PopLabels
<1>7. PushInv
  BY <1>1, <1>2 DEF PushInv, A!Init
<1>8. QED BY <1>5, <1>6, <1>7 DEF ControlInv

-----------------------------------------------------------------------------
(* The memory. *)

\* Concurrent pushes, of the client and of running jobs, are given memory that does
\* not overlap, whatever clear() does meanwhile, in a buffer so small that no index
\* wraps at 2^16 (worker.h:82-98, 110-121).
THEOREM PushesGetOwnMemory == A!NoWrap => (Spec => []BlocksDisjoint)
<1> SUFFICES ASSUME A!NoWrap PROVE Spec => []BlocksDisjoint
  OBVIOUS
<1>1. Init => ControlInv /\ AP!IInv
  <2>1. Init => AP!Init
    BY SameArena DEF Init
  <2>2. QED BY <2>1, ControlInit, ObjectSizes, AP!ArenaInit
<1>2. ControlInv /\ AP!IInv /\ [Next]_vars => (ControlInv /\ AP!IInv)'
  <2> SUFFICES ASSUME ControlInv, AP!IInv, [Next]_vars PROVE AP!IInv'
    BY ControlStep
  <2>1. [AP!Next]_(AP!arena)
    <3>1. CASE Next
      <4>1. PICK t \in Threads : Step(t)
        BY <3>1 DEF Next
      <4>2. QED BY <4>1, StepCalls, ArenaCalls
    <3>2. CASE UNCHANGED vars
      BY <3>2 DEF vars, arena, AP!arena
    <3>3. QED BY <3>1, <3>2
  <2>2. AP!NoWrap
    BY SameArena
  <2>3. QED BY <2>1, <2>2, ObjectSizes, AP!ArenaStep
<1>3. AP!IInv => BlocksDisjoint
  BY SameArena DEF AP!IInv, BlocksDisjoint
<1>4. QED BY <1>1, <1>2, <1>3, PTL DEF Spec
-----------------------------------------------------------------------------
(* The two counters of threads. *)

Inside == {w \in Workers : pc[w] \in {"pop", "gate", "again", "ops", "add", "dec"}}
Launched == {w \in Crew : pc[w] # "launch"}

\* exec_count is the number of workers between the two add_atomic of the loop, and
\* launch that of the threads that run: what checkComplete() and the constructor
\* read (worker.h:60-77, 128-135, 152).
CountInv == exec_count = Cardinality(Inside) /\ launch = Cardinality(Launched)

LEMMA CrewFinite ==
  ASSUME TypeInv
  PROVE  Crew \subseteq Workers /\ IsFiniteSet(Crew) /\ Cardinality(Crew) <= Cardinality(Workers)
<1>1. Crew \subseteq Workers
  BY ProgramsAssumption DEF TypeInv, Crew
<1>2. QED BY <1>1, ThreadsAssumption, FS_Subset

LEMMA CountStep ==
  ASSUME ControlInv, CountInv, NEW t \in Threads, Step(t)
  PROVE  CountInv'
<1> USE DEF ControlInv
<1>1. IsFiniteSet(Inside) /\ IsFiniteSet(Launched) /\ Crew \subseteq Workers
  <2>1. Inside \subseteq Workers /\ Launched \subseteq Crew
    BY DEF Inside, Launched
  <2>2. QED BY <2>1, CrewFinite, ThreadsAssumption, FS_Subset
<1>2. \A u \in Workers \ {t} : u \in Threads /\ pc'[u] = pc[u]
  BY OthersStay DEF Threads
<1>3. Crew' = Crew
  BY DEF Step, Crew
<1> USE DEF TypeInv, Jump
<1>4. CASE Launch(t)
  <2>1. pc[t] = "launch" /\ pc'[t] = "inc" /\ launch' = launch + 1 /\ exec_count' = exec_count
    BY <1>4 DEF Launch
  <2>2. t \in Crew
    BY <2>1 DEF PartsInv, Threads, ClientLabels
  <2>3. Launched' = Launched \cup {t} /\ t \notin Launched
    BY <1>1, <1>2, <1>3, <2>1, <2>2 DEF Launched
  <2>4. Inside' = Inside
    BY <1>2, <2>1 DEF Inside
  <2>5. QED BY <1>1, <2>1, <2>3, <2>4, FS_AddElement DEF CountInv
<1>5. CASE CountIn(t)
  <2>1. pc[t] = "inc" /\ pc'[t] = "pop" /\ exec_count' = exec_count + 1 /\ launch' = launch
    BY <1>5 DEF CountIn
  <2>2. t \in Workers
    BY <2>1 DEF PartsInv, Threads, ClientLabels
  <2>3. Inside' = Inside \cup {t} /\ t \notin Inside
    BY <1>2, <2>1, <2>2 DEF Inside
  <2>4. Launched' = Launched
    BY <1>1, <1>2, <1>3, <2>1 DEF Launched
  <2>5. QED BY <1>1, <2>1, <2>3, <2>4, FS_AddElement DEF CountInv
<1>6. CASE CountOut(t)
  <2>1. pc[t] = "dec" /\ pc'[t] = "enabled?" /\ exec_count' = exec_count - 1 /\ launch' = launch
    BY <1>6 DEF CountOut
  <2>2. t \in Inside
    BY <2>1 DEF Inside, PartsInv, Threads, ClientLabels
  <2>3. Inside' = Inside \ {t}
    BY <1>2, <2>1, <2>2 DEF Inside
  <2>4. Launched' = Launched
    BY <1>1, <1>2, <1>3, <2>1 DEF Launched
  <2>5. QED BY <1>1, <2>1, <2>2, <2>3, <2>4, FS_RemoveElement DEF CountInv
<1>7. CASE ~Launch(t) /\ ~CountIn(t) /\ ~CountOut(t)
  <2>1. UNCHANGED <<launch, exec_count>>
    BY <1>7 DEF Step, Work, Call, PopJob, PassGate, MissGate, AddAgain,
         Finish, Again, Boot, AddCount, Register, AddNew, CheckCount, CheckEmpty, ClearAll,
         Disable, Join, flags
  <2>2. t \in Workers => (pc'[t] # "launch" <=> pc[t] # "launch")
    <3> USE DEF Stay, NextOp
    <3>1. pc[t] # "launch" \/ pc'[t] = pc[t]
      BY <1>7 DEF Step, Work, Call, PopJob, PassGate, MissGate, AddAgain, Adding,
         Finish, Again, Boot, AddCount, Register, Op, AddNew, CheckCount, CheckEmpty, ClearAll,
         Disable, Join, flags
    <3>2. pc'[t] # "launch" \/ pc'[t] = pc[t]
      BY <1>7 DEF Step, Work, Call, PopJob, PassGate, MissGate, AddAgain, Adding,
         Finish, Again, Boot, AddCount, Register, Op, AddNew, CheckCount, CheckEmpty, ClearAll,
         Disable, Join, flags
    <3>3. QED BY <3>1, <3>2
  <2>3. t \in Workers => (pc'[t] \in {"pop", "gate", "again", "ops", "add", "dec"} <=>
                          pc[t] \in {"pop", "gate", "again", "ops", "add", "dec"})
    <3>1. SUFFICES ASSUME t \in Workers
                   PROVE  pc'[t] \in {"pop", "gate", "again", "ops", "add", "dec"} <=>
                          pc[t] \in {"pop", "gate", "again", "ops", "add", "dec"}
      OBVIOUS
    <3>2. t # Main /\ pc[t] \in WorkerLabels \cup {"ops", "add"}
      BY <3>1, NamesAssumption DEF PartsInv
    <3>3. ~Boot(t) /\ ~CheckEmpty(t) /\ ~Join(t)
      BY <3>2 DEF Boot, CheckEmpty, Join, Stay, NextOp, WorkerLabels
    <3>4. PopJob(t) \/ PassGate(t) \/ MissGate(t) \/ AddAgain(t) \/ Finish(t) \/ Again(t)
          \/ AddCount(t) \/ Register(t) \/ AddNew(t)
      BY <1>7, <3>2, <3>3, OnlyClient DEF Step, Work, Call
    <3>5. QED BY <3>4 DEF PopJob, PassGate, MissGate, AddAgain, Adding, Stay, NextOp,
                   Finish, Again, AddCount, Register, Op, AddNew
  <2>4. Inside' = Inside /\ Launched' = Launched
    BY <1>1, <1>2, <1>3, <2>2, <2>3 DEF Inside, Launched
  <2>5. QED BY <2>1, <2>4 DEF CountInv
<1>8. QED BY <1>4, <1>5, <1>6, <1>7

LEMMA CountInit == Init => CountInv
<1> SUFFICES ASSUME Init PROVE CountInv
  OBVIOUS
<1>1. \A w \in Workers : w # Main /\ w \in Threads
  BY NamesAssumption DEF Threads
<1>2. Crew \subseteq Workers
  BY ControlInit, CrewFinite DEF ControlInv
<1>3. Inside = {} /\ Launched = {}
  BY <1>1, <1>2 DEF Init, Inside, Launched
<1>4. QED BY <1>3, FS_EmptySet DEF Init, CountInv

\* The members of WorkerThread and the locals of its functions keep their types,
\* and the counters of threads stay between zero and the number of threads, whatever
\* the program and however often the ring is lapped (worker.h:20-52).
THEOREM TypeCorrect == Spec => []TypeOK
<1>1. Init => ControlInv /\ CountInv
  BY ControlInit, CountInit
<1>2. ControlInv /\ CountInv /\ [Next]_vars => (ControlInv /\ CountInv)'
  <2> SUFFICES ASSUME ControlInv, CountInv, [Next]_vars PROVE CountInv'
    BY ControlStep
  <2>1. CASE Next
    BY <2>1, CountStep DEF Next
  <2>2. CASE UNCHANGED vars
    BY <2>2 DEF vars, flags, CountInv, Inside, Launched, Crew
  <2>3. QED BY <2>1, <2>2
<1>3. ControlInv /\ CountInv => TypeOK
  <2> SUFFICES ASSUME ControlInv, CountInv PROVE TypeOK
    OBVIOUS
  <2>1. Inside \subseteq Workers /\ Launched \subseteq Workers
    BY CrewFinite DEF ControlInv, Inside, Launched
  <2>2. /\ Cardinality(Inside) \in Nat /\ Cardinality(Inside) <= Cardinality(Workers)
        /\ Cardinality(Launched) \in Nat /\ Cardinality(Launched) <= Cardinality(Workers)
        /\ Cardinality(Workers) \in Nat
    BY <2>1, ThreadsAssumption, FS_Subset, FS_CardinalityType
  <2>3. launch \in 0 .. Cardinality(Workers) /\ exec_count \in 0 .. Cardinality(Workers)
    BY <2>2 DEF CountInv
  <2>4. next \in [Threads -> Nat]
    BY DEF ControlInv, TypeInv
  <2>5. QED BY <2>3, <2>4 DEF TypeOK, ControlInv, TypeInv
<1>4. QED BY <1>1, <1>2, <1>3, PTL DEF Spec

-----------------------------------------------------------------------------
(* The slots between start and end. *)

\* How far slot i is from slot s, going round.
Away(s, i) == IF i >= s THEN i - s ELSE i - s + QueueSize

LEMMA AwayIs ==
  ASSUME NEW s \in Q!Slots, NEW i \in Q!Slots
  PROVE  (i - s) % QueueSize = Away(s, i)
<1> PICK n : n = QueueSize
  OBVIOUS
<1>1. n \in Nat /\ n > 0 /\ s \in 0 .. n - 1 /\ i \in 0 .. n - 1
  BY QueueAssumption DEF Q!Slots
<1>2. CASE i >= s
  BY <1>1, <1>2 DEF Away
<1>3. CASE i < s
  <2> PICK x : x = i - s
    OBVIOUS
  <2>1. x \in Int /\ x % n \in 0 .. n - 1 /\ x \div n \in Int /\ x = (n * (x \div n)) + (x % n)
    BY <1>1
  <2> PICK q, r : q = x \div n /\ r = x % n
    OBVIOUS
  <2>2. q \in Int /\ r \in 0 .. n - 1 /\ x = n * q + r /\ x < 0 /\ x > 0 - n
    BY <1>1, <1>3, <2>1
  <2>3. q = 0 - 1
    <3>1. CASE q >= 0
      <4>1. n * q >= 0
        BY <1>1, <2>2, <3>1
      <4>2. QED BY <1>1, <2>2, <4>1
    <3>2. CASE q <= 0 - 2
      <4>1. n * (0 - 2 - q) >= 0
        BY <1>1, <2>2, <3>2
      <4>2. n * (0 - 2 - q) = 0 - 2 * n - n * q
        BY <1>1, <2>2
      <4>3. QED BY <1>1, <2>2, <4>1, <4>2
    <3>3. QED BY <2>2, <3>1, <3>2
  <2>4. r = x + n
    BY <1>1, <2>2, <2>3
  <2>5. QED BY <1>1, <1>3, <2>4 DEF Away
<1>4. QED BY <1>1, <1>2, <1>3

LEMMA SuccIs ==
  ASSUME NEW i \in Q!Slots
  PROVE  Q!Succ(i) = IF i + 1 = QueueSize THEN 0 ELSE i + 1
<1> PICK n : n = QueueSize
  OBVIOUS
<1>1. n \in Nat /\ n > 0 /\ i \in 0 .. n - 1
  BY QueueAssumption DEF Q!Slots
<1>2. (i + 1) % n = IF i + 1 = n THEN 0 ELSE i + 1
  <2>1. CASE i + 1 = n
    BY <1>1, <2>1
  <2>2. CASE i + 1 # n
    <3>1. i + 1 \in Nat /\ i + 1 < n
      BY <1>1, <2>2
    <3>2. QED BY <1>1, <2>2, <3>1
  <2>3. QED BY <2>1, <2>2
<1>3. QED BY <1>2 DEF Q!Succ

Between(s, e) == {i \in Q!Slots : Away(s, i) < Away(s, e)}

LEMMA QueuedBetween ==
  ASSUME start \in Q!Slots, end \in Q!Slots
  PROVE  Queued = Between(start, end)
BY AwayIs DEF Queued, Between

\* A push adds the slot at end ...
LEMMA PushWindow ==
  ASSUME NEW s \in Q!Slots, NEW e \in Q!Slots, Q!Succ(e) # s
  PROVE  e \notin Between(s, e) /\ Between(s, Q!Succ(e)) = Between(s, e) \cup {e}
<1>1. QueueSize \in Nat /\ QueueSize > 0 /\ s \in 0 .. QueueSize - 1 /\ e \in 0 .. QueueSize - 1
  BY QueueAssumption DEF Q!Slots
<1>2. Away(s, Q!Succ(e)) = Away(s, e) + 1
  BY <1>1, SuccIs DEF Away
<1>3. ASSUME NEW i \in Q!Slots PROVE Away(s, i) < Away(s, e) + 1 <=> Away(s, i) < Away(s, e) \/ i = e
  <2>1. i \in 0 .. QueueSize - 1
    BY DEF Q!Slots
  <2>2. QED BY <1>1, <2>1 DEF Away
<1>4. Away(s, e) \in Nat
  BY <1>1 DEF Away
<1>5. QED BY <1>2, <1>3, <1>4 DEF Between

\* ... and a pop removes the one at start.
LEMMA PopWindow ==
  ASSUME NEW s \in Q!Slots, NEW e \in Q!Slots, s # e
  PROVE  s \in Between(s, e) /\ Between(Q!Succ(s), e) = Between(s, e) \ {s}
<1>1. QueueSize \in Nat /\ QueueSize > 0 /\ s \in 0 .. QueueSize - 1 /\ e \in 0 .. QueueSize - 1
  BY QueueAssumption DEF Q!Slots
<1>2. ASSUME NEW i \in Q!Slots
      PROVE  Away(Q!Succ(s), i) < Away(Q!Succ(s), e) <=> Away(s, i) < Away(s, e) /\ i # s
  <2>1. i \in 0 .. QueueSize - 1
    BY DEF Q!Slots
  <2>2. QED BY <1>1, <2>1, SuccIs DEF Away
<1>3. Away(s, s) < Away(s, e)
  BY <1>1 DEF Away
<1>4. QED BY <1>2, <1>3 DEF Between

LEMMA QueuedGrows ==
  ASSUME start \in Q!Slots, end \in Q!Slots, end' \in Q!Slots, Q!Succ(end) # start,
         end' = Q!Succ(end), start' = start
  PROVE  end \notin Queued /\ Queued' = Queued \cup {end}
<1> PICK s, e : s = start /\ e = end
  OBVIOUS
<1>1. e \notin Between(s, e) /\ Between(s, Q!Succ(e)) = Between(s, e) \cup {e}
  BY PushWindow
<1>2. Queued = Between(s, e)
  BY QueuedBetween
<1>3. Queued' = Between(s, Q!Succ(e))
  <2>1. Queued' = Between(start', end') /\ (Q!Slots)' = Q!Slots
    BY AwayIs DEF Queued, Between, Q!Slots
  <2>2. QED BY <2>1
<1>4. QED BY <1>1, <1>2, <1>3

LEMMA QueuedShrinks ==
  ASSUME start \in Q!Slots, end \in Q!Slots, start' \in Q!Slots, start # end,
         end' = end, start' = Q!Succ(start)
  PROVE  start \in Queued /\ Queued' = Queued \ {start}
<1> PICK s, e : s = start /\ e = end
  OBVIOUS
<1>1. s \in Between(s, e) /\ Between(Q!Succ(s), e) = Between(s, e) \ {s}
  BY PopWindow
<1>2. Queued = Between(s, e)
  BY QueuedBetween
<1>3. Queued' = Between(Q!Succ(s), e)
  <2>1. Queued' = Between(start', end') /\ (Q!Slots)' = Q!Slots
    BY AwayIs DEF Queued, Between, Q!Slots
  <2>2. QED BY <2>1
<1>4. QED BY <1>1, <1>2, <1>3

-----------------------------------------------------------------------------
(* The ring while its claims are in step. *)

\* What add() and pop() do is only right while the compare-and-swap that claims a slot
\* still finds what the check before it saw, and nobody comes round to a slot that is
\* being popped: a ring that is lapped breaks it (run AtomicQueue_lap).
Storing(t) == at[t] = "push_store"
Removing(t) == at[t] \in {"pop_load", "pop_clear"}
InStep ==
  /\ \A t \in Threads : at[t] = "push_cas" /\ idx[t] = end =>
       /\ Q!Succ(end) # start
       /\ \A u \in Threads : Removing(u) => idx[u] # end
  /\ \A t \in Threads : at[t] = "pop_cas" /\ idx[t] = start => start # end

\* The claims: one for each slot, but that a pop may wait for the push of its slot.
ClaimInv ==
  /\ \A t, u \in Threads : t # u /\ idx[t] = idx[u] => /\ ~(Storing(t) /\ Storing(u))
                                                        /\ ~(Removing(t) /\ Removing(u))
  /\ \A t \in Threads : Removing(t) => idx[t] \notin Queued

\* The slots: there is an object between start and end, or where a pop has not cleared
\* it; a push finds its slot empty.
Popping(i) == \E u \in Threads : Removing(u) /\ idx[u] = i
Pushing(i) == \E u \in Threads : Storing(u) /\ idx[u] = i
FillInv ==
  /\ \A i \in Q!Slots : /\ Pushing(i) => buffer[i] = Null /\ (i \in Queued \/ Popping(i))
                        /\ buffer[i] # Null => i \in Queued \/ Popping(i)
  /\ \A t \in Threads : at[t] = "pop_clear" => buffer[idx[t]] = val[t]

RingInv == ClaimInv /\ FillInv
PopsHold == \A t \in Threads : at[t] = "pop_clear" => val[t] # Null

\* Steps that neither claim a slot nor hold one.
LEMMA RingIdle ==
  ASSUME RingInv, NEW t \in Threads,
         \A u \in Threads \ {t} : at'[u] = at[u] /\ idx'[u] = idx[u] /\ val'[u] = val[u],
         ~Storing(t), ~Removing(t), ~Storing(t)', ~Removing(t)', UNCHANGED ringVars
  PROVE  RingInv'
<1>1. Queued' = Queued /\ buffer' = buffer /\ (Q!Slots)' = Q!Slots
  BY DEF Queued, ringVars, Q!Slots
<1>2. \A u \in Threads : /\ Storing(u)' <=> Storing(u)
                         /\ Removing(u)' <=> Removing(u)
                         /\ Storing(u) \/ Removing(u) => idx'[u] = idx[u] /\ val'[u] = val[u] /\ at'[u] = at[u]
  BY DEF Storing, Removing
<1>3. \A i : (Popping(i)' <=> Popping(i)) /\ (Pushing(i)' <=> Pushing(i))
  BY <1>2 DEF Popping, Pushing
<1>4. ClaimInv'
  BY <1>1, <1>2 DEF RingInv, ClaimInv
<1>5. \A u \in Threads : at'[u] = "pop_clear" => at[u] = "pop_clear"
  BY DEF Removing
<1>6. FillInv'
  <2>1. \A i \in Q!Slots : Pushing(i)' => buffer'[i] = Null /\ (i \in Queued' \/ Popping(i)')
    BY <1>1, <1>3 DEF RingInv, FillInv
  <2>2. \A i \in Q!Slots : buffer'[i] # Null => i \in Queued' \/ Popping(i)'
    BY <1>1, <1>3 DEF RingInv, FillInv
  <2>3. \A u \in Threads : at'[u] = "pop_clear" => buffer'[idx'[u]] = val'[u]
    BY <1>1, <1>2, <1>5 DEF RingInv, FillInv, Removing
  <2>4. QED BY <1>1, <2>1, <2>2, <2>3 DEF FillInv
<1>7. QED BY <1>4, <1>6 DEF RingInv

LEMMA ClaimsToSlots ==
  ASSUME RingTypes, RingInv, InStep, NEW t \in Threads, Q!PushClaim(t)
  PROVE  RingInv'
<1> USE DEF RingInv
<1>1. /\ at[t] = "push_cas" /\ end = idx[t] /\ end' = Q!Succ(end) /\ start' = start /\ buffer' = buffer
      /\ at' = [at EXCEPT ![t] = "push_store"] /\ idx' = idx /\ val' = val
  BY DEF Q!PushClaim, Q!Goto
<1>2. start \in Q!Slots /\ end \in Q!Slots /\ end' \in Q!Slots /\ at \in [Threads -> Q!Labels] /\ (Q!Slots)' = Q!Slots
  BY <1>1, SuccSlot DEF RingTypes, Q!RingTypeOK, Q!Slots
<1>3. Q!Succ(end) # start /\ \A u \in Threads : Removing(u) => idx[u] # end
  BY <1>1 DEF InStep
<1>4. end \notin Queued /\ Queued' = Queued \cup {end}
  BY <1>1, <1>2, <1>3, QueuedGrows
<1>5. \A u \in Threads : /\ Storing(u)' <=> Storing(u) \/ u = t
                         /\ Removing(u)' <=> Removing(u)
                         /\ at'[u] = "pop_clear" <=> at[u] = "pop_clear"
  BY <1>1, <1>2 DEF Storing, Removing
<1>6. \A i : (Popping(i)' <=> Popping(i)) /\ (Pushing(i)' <=> Pushing(i) \/ i = end)
  BY <1>1, <1>5 DEF Popping, Pushing
<1>7. ~Popping(end) /\ buffer[end] = Null
  BY <1>2, <1>3, <1>4 DEF Popping, FillInv
<1>8. \A u \in Threads : Storing(u) => idx[u] # end
  BY <1>2, <1>4, <1>7 DEF FillInv, Pushing
<1>9. ClaimInv'
  <2>1. ASSUME NEW u \in Threads, NEW v \in Threads, u # v, idx[u] = idx[v]
        PROVE  ~(Storing(u)' /\ Storing(v)') /\ ~(Removing(u)' /\ Removing(v)')
    BY <1>1, <1>5, <1>8, <2>1 DEF ClaimInv
  <2>2. ASSUME NEW u \in Threads, Removing(u)' PROVE idx[u] \notin Queued'
    BY <1>3, <1>4, <1>5, <2>2 DEF ClaimInv
  <2>3. QED BY <1>1, <2>1, <2>2 DEF ClaimInv
<1>10. FillInv'
  <2>1. ASSUME NEW i \in Q!Slots, Pushing(i)' PROVE buffer[i] = Null /\ (i \in Queued' \/ Popping(i)')
    BY <1>4, <1>6, <1>7, <2>1 DEF FillInv
  <2>2. ASSUME NEW i \in Q!Slots, buffer[i] # Null PROVE i \in Queued' \/ Popping(i)'
    BY <1>4, <1>6, <2>2 DEF FillInv
  <2>3. QED BY <1>1, <1>2, <1>5, <2>1, <2>2 DEF FillInv
<1>11. QED BY <1>9, <1>10

LEMMA StoreFills ==
  ASSUME RingTypes, RingInv, PopsHold, NEW t \in Threads, Q!PushStore(t)
  PROVE  RingInv'
<1> USE DEF RingInv
<1>1. /\ at[t] = "push_store" /\ start' = start /\ end' = end
      /\ buffer' = [buffer EXCEPT ![idx[t]] = val[t]]
      /\ at'[t] = "idle" /\ \A u \in Threads \ {t} : at'[u] = at[u] /\ idx'[u] = idx[u] /\ val'[u] = val[u]
  BY DEF Q!PushStore, Q!Return, Q!Goto, RingTypes
<1>2. idx[t] \in Q!Slots /\ buffer \in [Q!Slots -> Jobs \cup {Null}]
  BY DEF RingTypes, Q!RingTypeOK
<1>3. Queued' = Queued /\ (Q!Slots)' = Q!Slots
  BY <1>1 DEF Queued, Q!Slots
<1>4. \A i : Popping(i)' <=> Popping(i)
  BY <1>1 DEF Popping, Removing
<1>4a. Pushing(idx[t])
  BY <1>1 DEF Pushing, Storing
<1>5. /\ ~Storing(t)' /\ ~Removing(t)' /\ Storing(t) /\ ~Removing(t)
      /\ \A u \in Threads \ {t} : (Storing(u)' <=> Storing(u)) /\ (Removing(u)' <=> Removing(u))
  BY <1>1 DEF Storing, Removing
<1>6. ClaimInv'
  <2>1. ASSUME NEW u \in Threads, NEW v \in Threads, u # v, idx'[u] = idx'[v]
        PROVE  ~(Storing(u)' /\ Storing(v)') /\ ~(Removing(u)' /\ Removing(v)')
    BY <1>1, <1>5, <2>1 DEF ClaimInv
  <2>2. ASSUME NEW u \in Threads, Removing(u)' PROVE idx'[u] \notin Queued'
    BY <1>1, <1>3, <1>5, <2>2 DEF ClaimInv
  <2>3. QED BY <2>1, <2>2 DEF ClaimInv
<1>7. FillInv'
  <2>1. ASSUME NEW i \in Q!Slots, Pushing(i)' PROVE buffer'[i] = Null /\ (i \in Queued' \/ Popping(i)')
    <3>1. PICK u \in Threads : u # t /\ Storing(u) /\ idx[u] = i
      BY <1>1, <1>5, <2>1 DEF Pushing
    <3>2. i # idx[t]
      BY <1>5, <3>1 DEF ClaimInv
    <3>3. buffer'[i] = buffer[i]
      BY <1>1, <1>2, <3>2
    <3>4. QED BY <1>3, <1>4, <3>1, <3>3 DEF FillInv, Pushing
  <2>2. ASSUME NEW i \in Q!Slots, buffer'[i] # Null PROVE i \in Queued' \/ Popping(i)'
    <3>1. CASE i = idx[t]
      BY <1>3, <1>4, <1>4a, <3>1 DEF FillInv
    <3>2. CASE i # idx[t]
      BY <1>1, <1>2, <1>3, <1>4, <2>2, <3>2 DEF FillInv
    <3>3. QED BY <3>1, <3>2
  <2>3. ASSUME NEW u \in Threads, at'[u] = "pop_clear" PROVE buffer'[idx'[u]] = val'[u]
    <3>1. u # t /\ at[u] = "pop_clear" /\ idx'[u] = idx[u] /\ val'[u] = val[u]
      BY <1>1, <2>3
    <3>2. buffer[idx[u]] = val[u] /\ idx[u] \notin Queued
      BY <3>1 DEF FillInv, ClaimInv, Removing
    <3>3. CASE idx[u] = idx[t]
      BY <1>2, <1>4a, <3>1, <3>2, <3>3 DEF FillInv, PopsHold
    <3>4. CASE idx[u] # idx[t]
      BY <1>1, <1>2, <3>1, <3>2, <3>4
    <3>5. QED BY <3>3, <3>4
  <2>4. QED BY <1>3, <2>1, <2>2, <2>3 DEF FillInv
<1>8. QED BY <1>6, <1>7

LEMMA ClaimsToPop ==
  ASSUME RingTypes, RingInv, InStep, NEW t \in Threads, Q!PopClaim(t)
  PROVE  RingInv'
<1> USE DEF RingInv
<1>1. /\ at[t] = "pop_cas" /\ start = idx[t] /\ start' = Q!Succ(start) /\ end' = end /\ buffer' = buffer
      /\ at' = [at EXCEPT ![t] = "pop_load"] /\ idx' = idx /\ val' = val
  BY DEF Q!PopClaim, Q!Goto
<1>2. start \in Q!Slots /\ end \in Q!Slots /\ start' \in Q!Slots /\ at \in [Threads -> Q!Labels] /\ (Q!Slots)' = Q!Slots
  BY <1>1, SuccSlot DEF RingTypes, Q!RingTypeOK, Q!Slots
<1>3. start # end
  BY <1>1 DEF InStep
<1>4. start \in Queued /\ Queued' = Queued \ {start}
  BY <1>1, <1>2, <1>3, QueuedShrinks
<1>5. \A u \in Threads : /\ Storing(u)' <=> Storing(u)
                         /\ Removing(u)' <=> Removing(u) \/ u = t
                         /\ at'[u] = "pop_clear" <=> at[u] = "pop_clear"
  BY <1>1, <1>2 DEF Storing, Removing
<1>6. \A i : (Popping(i)' <=> Popping(i) \/ i = start) /\ (Pushing(i)' <=> Pushing(i))
  BY <1>1, <1>5 DEF Popping, Pushing
<1>7. \A u \in Threads : Removing(u) => idx[u] # start
  BY <1>4 DEF ClaimInv
<1>8. ClaimInv'
  <2>1. ASSUME NEW u \in Threads, NEW v \in Threads, u # v, idx[u] = idx[v]
        PROVE  ~(Storing(u)' /\ Storing(v)') /\ ~(Removing(u)' /\ Removing(v)')
    BY <1>1, <1>5, <1>7, <2>1 DEF ClaimInv
  <2>2. ASSUME NEW u \in Threads, Removing(u)' PROVE idx[u] \notin Queued'
    BY <1>1, <1>4, <1>5, <2>2 DEF ClaimInv
  <2>3. QED BY <1>1, <2>1, <2>2 DEF ClaimInv
<1>9. FillInv'
  <2>1. ASSUME NEW i \in Q!Slots, Pushing(i)' PROVE buffer[i] = Null /\ (i \in Queued' \/ Popping(i)')
    BY <1>4, <1>6, <2>1 DEF FillInv
  <2>2. ASSUME NEW i \in Q!Slots, buffer[i] # Null PROVE i \in Queued' \/ Popping(i)'
    BY <1>4, <1>6, <2>2 DEF FillInv
  <2>3. ASSUME NEW u \in Threads, at'[u] = "pop_clear" PROVE buffer[idx[u]] = val[u]
    BY <1>5, <2>3 DEF FillInv
  <2>4. QED BY <1>1, <1>2, <2>1, <2>2, <2>3 DEF FillInv
<1>10. QED BY <1>8, <1>9

LEMMA LoadReads ==
  ASSUME RingTypes, RingInv, NEW t \in Threads, Q!PopLoad(t)
  PROVE  RingInv'
<1> USE DEF RingInv
<1>1. /\ at[t] = "pop_load" /\ start' = start /\ end' = end /\ buffer' = buffer /\ idx' = idx
      /\ at'[t] = "pop_clear" /\ val'[t] = buffer[idx[t]]
      /\ \A u \in Threads \ {t} : at'[u] = at[u] /\ val'[u] = val[u]
  BY DEF Q!PopLoad, Q!ring, Q!Goto, RingTypes
<1>2. \A u \in Threads : /\ Storing(u)' <=> Storing(u)
                         /\ Removing(u)' <=> Removing(u)
  BY <1>1 DEF Storing, Removing
<1>3. /\ Queued' = Queued /\ (Q!Slots)' = Q!Slots
      /\ \A i : (Popping(i)' <=> Popping(i)) /\ (Pushing(i)' <=> Pushing(i))
  BY <1>1, <1>2 DEF Queued, Q!Slots, Popping, Pushing
<1>4. ClaimInv'
  BY <1>1, <1>2, <1>3 DEF ClaimInv
<1>5. FillInv'
  <2>1. \A i \in Q!Slots : Pushing(i)' => buffer[i] = Null /\ (i \in Queued' \/ Popping(i)')
    BY <1>3 DEF FillInv
  <2>2. \A i \in Q!Slots : buffer[i] # Null => i \in Queued' \/ Popping(i)'
    BY <1>3 DEF FillInv
  <2>3. \A u \in Threads : at'[u] = "pop_clear" => buffer[idx[u]] = val'[u]
    BY <1>1 DEF FillInv
  <2>4. QED BY <1>1, <1>3, <2>1, <2>2, <2>3 DEF FillInv
<1>6. QED BY <1>4, <1>5

LEMMA ClearEmpties ==
  ASSUME RingTypes, RingInv, PopsHold, NEW t \in Threads, Q!PopClear(t)
  PROVE  RingInv'
<1> USE DEF RingInv
<1>1. /\ at[t] = "pop_clear" /\ start' = start /\ end' = end
      /\ buffer' = [buffer EXCEPT ![idx[t]] = Null]
      /\ at'[t] = "idle" /\ \A u \in Threads \ {t} : at'[u] = at[u] /\ idx'[u] = idx[u] /\ val'[u] = val[u]
  BY DEF Q!PopClear, Q!Return, Q!Goto, RingTypes
<1>2. idx[t] \in Q!Slots /\ buffer \in [Q!Slots -> Jobs \cup {Null}]
  BY DEF RingTypes, Q!RingTypeOK
<1>3. Queued' = Queued /\ (Q!Slots)' = Q!Slots
  BY <1>1 DEF Queued, Q!Slots
<1>4. /\ ~Storing(t)' /\ ~Removing(t)' /\ ~Storing(t) /\ Removing(t)
      /\ \A u \in Threads \ {t} : (Storing(u)' <=> Storing(u)) /\ (Removing(u)' <=> Removing(u))
  BY <1>1 DEF Storing, Removing
<1>5. \A i : Popping(i) /\ i # idx[t] => Popping(i)'
  BY <1>1, <1>4 DEF Popping
<1>6. buffer[idx[t]] # Null
  BY <1>1 DEF FillInv, PopsHold
<1>7. ClaimInv'
  <2>1. ASSUME NEW u \in Threads, NEW v \in Threads, u # v, idx'[u] = idx'[v]
        PROVE  ~(Storing(u)' /\ Storing(v)') /\ ~(Removing(u)' /\ Removing(v)')
    BY <1>1, <1>4, <2>1 DEF ClaimInv
  <2>2. ASSUME NEW u \in Threads, Removing(u)' PROVE idx'[u] \notin Queued'
    BY <1>1, <1>3, <1>4, <2>2 DEF ClaimInv
  <2>3. QED BY <2>1, <2>2 DEF ClaimInv
<1>8. FillInv'
  <2>1. ASSUME NEW i \in Q!Slots, Pushing(i)' PROVE buffer'[i] = Null /\ (i \in Queued' \/ Popping(i)')
    <3>1. Pushing(i)
      BY <1>1, <1>4, <2>1 DEF Pushing
    <3>2. buffer[i] = Null /\ (i \in Queued \/ Popping(i))
      BY <3>1 DEF FillInv
    <3>3. i # idx[t]
      BY <1>6, <3>2
    <3>4. buffer'[i] = buffer[i]
      BY <1>1, <1>2, <3>3
    <3>5. QED BY <1>3, <1>5, <3>2, <3>3, <3>4
  <2>2. ASSUME NEW i \in Q!Slots, buffer'[i] # Null PROVE i \in Queued' \/ Popping(i)'
    <3>1. i # idx[t] /\ buffer[i] # Null
      BY <1>1, <1>2, <2>2
    <3>2. QED BY <1>3, <1>5, <3>1 DEF FillInv
  <2>3. ASSUME NEW u \in Threads, at'[u] = "pop_clear" PROVE buffer'[idx'[u]] = val'[u]
    <3>1. u # t /\ at[u] = "pop_clear" /\ idx'[u] = idx[u] /\ val'[u] = val[u]
      BY <1>1, <2>3
    <3>2. idx[u] # idx[t]
      BY <1>4, <3>1 DEF ClaimInv, Removing
    <3>3. buffer'[idx[u]] = buffer[idx[u]]
      BY <1>1, <1>2, <3>2 DEF RingTypes
    <3>4. QED BY <3>1, <3>3 DEF FillInv
  <2>4. QED BY <1>3, <2>1, <2>2, <2>3 DEF FillInv
<1>9. QED BY <1>7, <1>8

LEMMA RingKept ==
  ASSUME ControlInv, RingInv, InStep, NEW t \in Threads, Step(t)
  PROVE  RingInv'
<1>1. RingTypes /\ PopsHold
  BY NamesAssumption DEF ControlInv, TypeInv, RingTypes, CallInv, PopsHold
<1>2. \A u \in Threads \ {t} : at'[u] = at[u] /\ idx'[u] = idx[u] /\ val'[u] = val[u]
  BY OthersStay
<1>3. CASE UNCHANGED <<ringVars, calls>>
  BY <1>3 DEF ringVars, calls, RingInv, ClaimInv, FillInv, Popping, Pushing, Removing, Storing, Queued, Q!Slots
<1>4. CASE RingCall(t)
  <2>1. CASE Q!PushClaim(t) \/ Q!PushStore(t) \/ Q!PopClaim(t) \/ Q!PopLoad(t) \/ Q!PopClear(t)
    BY <1>1, <2>1, ClaimsToSlots, StoreFills, ClaimsToPop, LoadReads, ClearEmpties
  <2>2. CASE \/ \E j \in Jobs : Q!PushCall(t, j)
             \/ Q!PushRoom(t) \/ Q!PushRetry(t) \/ Q!PushFull(t) \/ Q!PopCall(t) \/ Q!PopSome(t)
             \/ PopFails(t) \/ EmptyGoes(t)
    <3>1. UNCHANGED ringVars
      BY <2>2 DEF PopFails, EmptyGoes, Q!PushCall, Q!PushRoom, Q!PushRetry, Q!PushFull, Q!PopCall, Q!PopSome,
                  Q!PopEmpty, Q!PopLost, Q!EmptyCall, Q!EmptyTrue, Q!EmptyFalse, Q!ring, ringVars
    <3>2. at[t] \notin {"push_store", "pop_load", "pop_clear"} /\ at'[t] \notin {"push_store", "pop_load", "pop_clear"}
      BY <1>1, <2>2 DEF PopFails, EmptyGoes, Q!PushCall, Q!PushRoom, Q!PushRetry, Q!PushFull, Q!PopCall,
                  Q!PopSome, Q!PopEmpty, Q!PopLost, Q!EmptyCall, Q!EmptyTrue, Q!EmptyFalse, Q!Goto, Q!Return,
                  RingTypes
    <3>3. QED BY <1>2, <3>1, <3>2, RingIdle DEF Storing, Removing
  <2>3. QED BY <1>4, <2>1, <2>2 DEF RingCall, PushGoes, PopGoes
<1>5. QED BY <1>3, <1>4, StepCalls

-----------------------------------------------------------------------------
(* Where a job is. *)

\* Every job is pushed by one operation of the program at most, as in thread_test.cpp
\* and game_test.cpp, where each push constructs an object of its own.
PushAt(ops, i, j) == i \in DOMAIN ops /\ ops[i].op = "push" /\ ops[i].job = j
EachPushedOnce ==
  \A j \in Jobs :
    /\ \A i, k : PushAt(Script, i, j) /\ PushAt(Script, k, j) => i = k
    /\ \A a, b \in Jobs : \A i, k : PushAt(Body[a], i, j) /\ PushAt(Body[b], k, j) => a = b /\ i = k
    /\ \A a \in Jobs : \A i, k : ~(PushAt(Script, i, j) /\ PushAt(Body[a], k, j))

\* A call of push has its argument in p.
ValInv == \A t \in Threads :
            at[t] \in Q!PushLabels => val[t] = IF pc[t] = "again" THEN job[t] ELSE Arg(t).job

\* run() of a job is entered once, by the worker that has the job.
Runs(w) == pc[w] \in {"ops", "add"}
StageInv ==
  /\ \A j \in Jobs : \/ begun[j] = 0 /\ ran[j] = 0
                     \/ begun[j] = 1 /\ ran[j] = 0 /\ \E w \in Workers : job[w] = j /\ Runs(w)
                     \/ begun[j] = 1 /\ ran[j] = 1 /\ Built(j)
  /\ \A w \in Workers : Runs(w) => begun[job[w]] = 1

\* What an operation still to come is going to push has no memory yet.
ToCome(t, i) == i > next[t] \/ (i = next[t] /\ pc[t] # "add")
OriginInv ==
  /\ \A t \in Threads : t = Main \/ Runs(t) =>
       \A j \in Jobs : \A i : PushAt(Ops(t), i, j) /\ ToCome(t, i) => ~Built(j)
  /\ \A k \in Jobs : begun[k] = 0 => \A j \in Jobs : \A i : PushAt(Body[k], i, j) => ~Built(j)

HoldInv == \A j \in Jobs : IF Live(j) THEN \E x : Holders(j) = {x} ELSE Holders(j) = {}

\* The three ways to hold a job.
InSlot(i, j) == i \in Q!Slots /\ buffer[i] = j
AtWorker(w, j) == w \in Workers /\ job[w] = j
Adds(u, j) == u \in Threads /\ pc[u] = "add" /\ Arg(u).job = j

LEMMA InHolders ==
  ASSUME NEW j, NEW x
  PROVE  x \in Holders(j) <=> \/ \E i : x = <<"slot", i>> /\ InSlot(i, j)
                              \/ \E w : x = <<"worker", w>> /\ AtWorker(w, j)
                              \/ \E u : x = <<"adds", u>> /\ Adds(u, j)
BY DEF Holders, InSlot, AtWorker, Adds

LEMMA ValStep ==
  ASSUME ControlInv, ValInv, NEW t \in Threads, Step(t)
  PROVE  ValInv'
<1> USE DEF ControlInv
<1> DEFINE Good(u) == at[u] \in Q!PushLabels => val[u] = IF pc[u] = "again" THEN job[u] ELSE Arg(u).job
<1>0. (Q!PushLabels)' = Q!PushLabels
  BY DEF Q!PushLabels
<1>1. ASSUME NEW u \in Threads, u # t PROVE Good(u)'
  <2>1. at'[u] = at[u] /\ val'[u] = val[u] /\ pc'[u] = pc[u] /\ job'[u] = job[u] /\ next'[u] = next[u]
    BY <1>1, OthersStay
  <2>2. Arg(u)' = Arg(u)
    BY <2>1, OpsStay
  <2>3. QED BY <1>0, <2>1, <2>2 DEF ValInv
<1>2. Good(t)'
  <2>1. SUFFICES ASSUME at'[t] \in Q!PushLabels
                 PROVE  val'[t] = IF pc'[t] = "again" THEN job'[t] ELSE Arg(t)'.job
    BY <1>0
  <2>2. pc'[t] \in {"again", "add"}
    <3>1. CallInv'
      BY CallStep
    <3>2. QED BY <1>0, <2>1, <3>1 DEF CallInv
  <2> USE DEF TypeInv, Jump, Stay, NextOp, Q!Goto, Q!Return, Q!PushLabels
  <2>3. AddAgain(t) \/ AddNew(t)
    <3>1. ASSUME UNCHANGED calls, pc[t] \notin {"again", "add"} PROVE FALSE
      <4>1. at[t] \in Q!PushLabels
        BY <2>1, <3>1 DEF calls
      <4>2. QED BY <3>1, <4>1 DEF CallInv
    <3>2. ~PopJob(t)
      BY <2>1 DEF PopJob, Q!PopCall, Q!PopSome, Q!PopClaim, Q!PopLoad, Q!PopEmpty, Q!PopLost, Q!PopClear
    <3>3. ~CheckEmpty(t)
      BY <2>1 DEF CheckEmpty, Q!EmptyCall, Q!EmptyTrue, Q!EmptyFalse
    <3>4. ASSUME Launch(t) \/ CountIn(t) \/ PassGate(t) \/ MissGate(t) \/ Finish(t) \/ CountOut(t) \/ Again(t)
             \/ Boot(t) \/ AddCount(t) \/ Register(t) \/ CheckCount(t) \/ ClearAll(t) \/ Disable(t) \/ Join(t)
          PROVE  FALSE
      <4>1. UNCHANGED calls /\ pc[t] \notin {"again", "add"}
        BY <3>4 DEF Launch, CountIn, PassGate, MissGate, Finish, CountOut, Again, Boot, AddCount, Register, Op,
                    CheckCount, ClearAll, Disable, Join, NoCall
      <4>2. QED BY <3>1, <4>1
    <3>5. QED BY <3>2, <3>3, <3>4 DEF Step, Work, Call
  <2>4. CASE AddAgain(t)
    <3>1. pc[t] = "again" /\ pc'[t] = "again" /\ job'[t] = job[t]
          /\ ((val'[t] = val[t] /\ at[t] \in Q!PushLabels) \/ val'[t] = job[t])
      BY <2>1, <2>2, <2>4 DEF AddAgain, Adding, Q!PushCall, Q!PushRoom, Q!PushRetry, Q!PushClaim, Q!PushFull,
                             Q!PushStore
    <3>2. QED BY <3>1 DEF ValInv
  <2>5. CASE AddNew(t)
    <3>1. pc[t] = "add" /\ pc'[t] = "add" /\ job'[t] = job[t] /\ next'[t] = next[t]
          /\ ((val'[t] = val[t] /\ at[t] \in Q!PushLabels) \/ val'[t] = Arg(t).job)
      <4> HIDE DEF Arg
      <4>1. QED BY <2>1, <2>2, <2>5 DEF AddNew, Adding, Q!PushCall, Q!PushRoom, Q!PushRetry, Q!PushClaim,
                             Q!PushFull, Q!PushStore
    <3>2. Arg(t)' = Arg(t)
      BY <3>1, OpsStay
    <3>3. QED BY <3>1, <3>2 DEF ValInv
  <2>6. QED BY <2>3, <2>4, <2>5
<1>3. QED BY <1>1, <1>2 DEF ValInv

\* The steps that hand a job over; every other one leaves it where it is.
Constructs(t) == /\ Register(t) /\ pc'[t] = "add"
                 /\ place' = [place EXCEPT ![Arg(t).job] = [at |-> cidx[t], size |-> want[t]]]
Passes(t) == \/ Constructs(t)
             \/ (AddNew(t) \/ AddAgain(t)) /\ Q!PushStore(t)
             \/ PopJob(t) /\ Q!PopClear(t)
             \/ Finish(t)

LEMMA OthersHold ==
  ASSUME ControlInv, NEW t \in Threads, Step(t), ~Passes(t)
  PROVE  /\ buffer' = buffer /\ job' = job /\ place' = place /\ ran' = ran
         /\ \A u \in Threads : (pc'[u] = "add" <=> pc[u] = "add") /\ (pc[u] = "add" => Arg(u)' = Arg(u))
<1> USE DEF ControlInv
<1>1. buffer' = buffer
  <2>1. CASE UNCHANGED <<ringVars, calls>>
    BY <2>1 DEF ringVars
  <2>2. CASE RingCall(t) /\ ~Q!PushStore(t) /\ ~Q!PopClear(t)
    BY <2>2 DEF RingCall, PushGoes, PopGoes, PopFails, EmptyGoes, Q!ring, Q!PushCall, Q!PushRoom,
                Q!PushRetry, Q!PushClaim, Q!PushFull, Q!PopCall, Q!PopSome, Q!PopClaim, Q!PopLoad,
                Q!PopEmpty, Q!PopLost, Q!EmptyCall, Q!EmptyTrue, Q!EmptyFalse
  <2>3. ASSUME Q!PushStore(t) \/ Q!PopClear(t) PROVE FALSE
    <3>1. at[t] \in {"push_store", "pop_clear"} /\ at'[t] = "idle"
      BY <2>3 DEF Q!PushStore, Q!PopClear, Q!Return, Q!Goto, TypeInv
    <3>2. pc[t] \in {"again", "add", "pop"}
      BY <3>1 DEF CallInv, Q!PushLabels, Q!PopLabels
    <3>3. AddNew(t) \/ AddAgain(t) \/ PopJob(t)
      BY <3>2 DEF Step, Work, Call, Jump, Stay, NextOp, Launch, CountIn, PassGate, MissGate,
         Finish, CountOut, Again, Boot, AddCount, Register, Op, CheckCount, CheckEmpty, ClearAll, Disable, Join
    <3>4. (AddNew(t) \/ AddAgain(t)) /\ at[t] = "push_store" => Q!PushStore(t)
      BY DEF AddNew, AddAgain, Adding, Q!PushCall, Q!PushRoom, Q!PushRetry, Q!PushClaim, Q!PushFull
    <3>5. PopJob(t) /\ at[t] = "pop_clear" => Q!PopClear(t)
      BY DEF PopJob, Q!PopCall, Q!PopSome, Q!PopClaim, Q!PopLoad, Q!PopEmpty, Q!PopLost
    <3>6. (AddNew(t) \/ AddAgain(t)) => at[t] # "pop_clear"
      BY DEF AddNew, AddAgain, Adding, Q!PushCall, Q!PushRoom, Q!PushRetry, Q!PushClaim, Q!PushFull, Q!PushStore
    <3>7. PopJob(t) => at[t] # "push_store"
      BY DEF PopJob, Q!PopCall, Q!PopSome, Q!PopClaim, Q!PopLoad, Q!PopEmpty, Q!PopLost, Q!PopClear
    <3>8. QED BY <3>1, <3>3, <3>4, <3>5, <3>6, <3>7 DEF Passes
  <2>4. QED BY <2>1, <2>2, <2>3, StepCalls
<1>2. job' = job
  BY DEF Passes, Constructs, Step, Work, Call, Launch, CountIn, PopJob, PassGate, MissGate, AddAgain,
         Finish, CountOut, Again, Boot, AddCount, Register, AddNew, CheckCount, CheckEmpty, ClearAll,
         Disable, Join
<1>3. place' = place
  <2>1. CASE Register(t)
    BY <2>1 DEF Passes, Constructs, Register, Jump, TypeInv
  <2>2. CASE ~Register(t)
    BY <2>2 DEF Passes, Step, Work, Call, Launch, CountIn, PopJob, PassGate, MissGate, AddAgain, jobVars,
         Finish, CountOut, Again, Boot, AddCount, AddNew, CheckCount, CheckEmpty, ClearAll,
         Disable, Join
  <2>3. QED BY <2>1, <2>2
<1>4. ran' = ran
  BY DEF Passes, Constructs, Step, Work, Call, Launch, CountIn, PopJob, PassGate, MissGate, AddAgain, jobVars,
         Finish, CountOut, Again, Boot, AddCount, Register, AddNew, CheckCount, CheckEmpty, ClearAll,
         Disable, Join
<1>5. /\ pc'[t] = "add" <=> pc[t] = "add"
      /\ pc[t] = "add" => next'[t] = next[t]
  <2> USE DEF TypeInv, Jump, Stay, NextOp
  <2>1. pc[t] = "add" => AddNew(t) /\ ~Q!PushStore(t)
    BY DEF Passes, Constructs, Step, Work, Call, Launch, CountIn, PopJob, PassGate, MissGate, AddAgain, Adding,
         Finish, CountOut, Again, Boot, AddCount, Register, Op, CheckCount, CheckEmpty, ClearAll,
         Disable, Join
  <2>2. pc'[t] = "add" => AddNew(t) /\ ~Q!PushStore(t)
    BY DEF Passes, Constructs, Step, Work, Call, Launch, CountIn, PopJob, PassGate, MissGate, AddAgain, Adding,
         Finish, CountOut, Again, Boot, AddCount, Register, Op, CheckCount, CheckEmpty, ClearAll,
         Disable, Join
  <2>3. AddNew(t) /\ ~Q!PushStore(t) => pc[t] = "add" /\ pc' = pc /\ next' = next
    BY DEF AddNew, Adding
  <2>4. QED BY <2>1, <2>2, <2>3
<1>6. ASSUME NEW u \in Threads
      PROVE  (pc'[u] = "add" <=> pc[u] = "add") /\ (pc[u] = "add" => Arg(u)' = Arg(u))
  <2>1. CASE u = t
    BY <1>2, <1>5, <2>1, OpsStay
  <2>2. CASE u # t
    <3>1. pc'[u] = pc[u] /\ next'[u] = next[u] /\ job'[u] = job[u]
      BY <2>2, OthersStay
    <3>2. Arg(u)' = Arg(u)
      BY <3>1, OpsStay
    <3>3. QED BY <3>1, <3>2
  <2>3. QED BY <2>1, <2>2
<1>7. QED BY <1>1, <1>2, <1>3, <1>4, <1>6
\* Passing a job on: one holder goes, one comes.
LEMMA HandedOver ==
  ASSUME HoldInv, NEW j0 \in Jobs, NEW a, NEW b, a \in Holders(j0),
         \A j \in Jobs : Live(j)' <=> Live(j),
         \A j \in Jobs : \A x : x \in Holders(j)' <=> \/ x \in Holders(j) /\ ~(j = j0 /\ x = a)
                                                      \/ j = j0 /\ x = b
  PROVE  HoldInv'
<1>1. Live(j0) /\ Holders(j0) = {a}
  BY DEF HoldInv
<1>2. Holders(j0)' = {b}
  BY <1>1
<1>3. \A j \in Jobs \ {j0} : Holders(j)' = Holders(j)
  OBVIOUS
<1>4. SUFFICES ASSUME NEW j \in Jobs
               PROVE  IF Live(j)' THEN \E x : Holders(j)' = {x} ELSE Holders(j)' = {}
  BY DEF HoldInv
<1>5. CASE j = j0
  BY <1>1, <1>2, <1>5
<1>6. CASE j # j0
  BY <1>3, <1>6 DEF HoldInv
<1>7. QED BY <1>5, <1>6

LEMMA InHoldersNext ==
  ASSUME NEW j, NEW x
  PROVE  x \in Holders(j)' <=> \/ \E i : x = <<"slot", i>> /\ InSlot(i, j)'
                               \/ \E w : x = <<"worker", w>> /\ AtWorker(w, j)'
                               \/ \E u : x = <<"adds", u>> /\ Adds(u, j)'
BY DEF Holders, InSlot, AtWorker, Adds

LEMMA SlotFilled ==
  ASSUME ControlInv, RingInv, NEW t \in Threads, Q!PushStore(t)
  PROVE  \A i : \A j \in Jobs : InSlot(i, j)' <=> InSlot(i, j) \/ (i = idx[t] /\ j = val[t])
<1> USE DEF ControlInv, TypeInv
<1>1. at[t] = "push_store" /\ idx[t] \in Q!Slots /\ buffer' = [buffer EXCEPT ![idx[t]] = val[t]]
  BY DEF Q!PushStore
<1>2. buffer[idx[t]] = Null
  BY <1>1 DEF RingInv, FillInv, Pushing, Storing
<1>3. buffer \in [Q!Slots -> Jobs \cup {Null}] /\ (Q!Slots)' = Q!Slots
  BY DEF Q!RingTypeOK, Q!Slots
<1>4. QED BY <1>1, <1>2, <1>3, NamesAssumption DEF InSlot

LEMMA SlotEmptied ==
  ASSUME ControlInv, RingInv, NEW t \in Threads, Q!PopClear(t)
  PROVE  /\ InSlot(idx[t], val[t])
         /\ \A i : \A j \in Jobs : InSlot(i, j)' <=> InSlot(i, j) /\ ~(i = idx[t] /\ j = val[t])
<1> USE DEF ControlInv, TypeInv
<1>1. at[t] = "pop_clear" /\ idx[t] \in Q!Slots /\ buffer' = [buffer EXCEPT ![idx[t]] = Null]
  BY DEF Q!PopClear
<1>2. buffer[idx[t]] = val[t]
  BY <1>1 DEF RingInv, FillInv
<1>3. buffer \in [Q!Slots -> Jobs \cup {Null}] /\ (Q!Slots)' = Q!Slots
  BY DEF Q!RingTypeOK, Q!Slots
<1>4. QED BY <1>1, <1>2, <1>3, NamesAssumption DEF InSlot

\* The other threads add what they added before.
LEMMA OthersAdd ==
  ASSUME ControlInv, NEW t \in Threads, Step(t)
  PROVE  \A u : u # t => \A j : Adds(u, j)' <=> Adds(u, j)
<1> SUFFICES ASSUME NEW u, u # t, NEW j PROVE Adds(u, j)' <=> Adds(u, j)
  OBVIOUS
<1>1. CASE u \notin Threads
  BY <1>1 DEF Adds, Threads
<1>2. CASE u \in Threads
  <2>1. pc'[u] = pc[u] /\ Arg(u)' = Arg(u)
    BY <1>2, OthersStay, OpsStay
  <2>2. QED BY <1>2, <2>1 DEF Adds, Threads
<1>3. QED BY <1>1, <1>2
\* add(func(r.first)): from the thread that adds to the slot.
LEMMA HoldAddNew ==
  ASSUME ControlInv, RingInv, ValInv, HoldInv, NEW t \in Threads, Step(t), AddNew(t), Q!PushStore(t)
  PROVE  HoldInv'
<1> DEFINE j0 == Arg(t).job  a == <<"adds", t>>  b == <<"slot", idx[t]>>
<1>1. pc[t] = "add" /\ pc'[t] = "ops" /\ at[t] = "push_store" /\ idx[t] \in Q!Slots
  BY DEF AddNew, Adding, NextOp, Jump, Q!PushStore, Q!PushCall, Q!PushRoom, Q!PushRetry, Q!PushClaim, Q!PushFull,
         ControlInv, TypeInv
<1>2. val[t] = j0 /\ j0 \in Jobs
  BY <1>1 DEF ValInv, Q!PushLabels, ControlInv, CallInv
<1>3. job' = job /\ place' = place /\ ran' = ran
  BY DEF AddNew, jobVars
<1>4. \A j \in Jobs : Live(j)' <=> Live(j)
  BY <1>3 DEF Live, Built
<1>5. \A i : \A j \in Jobs : InSlot(i, j)' <=> InSlot(i, j) \/ (i = idx[t] /\ j = j0)
  BY <1>2, SlotFilled
<1>6. \A w, j : AtWorker(w, j)' <=> AtWorker(w, j)
  BY <1>3 DEF AtWorker
<1>7. \A u : u # t => \A j : Adds(u, j)' <=> Adds(u, j)
  BY OthersAdd
<1>8. Adds(t, j0) /\ \A j : (Adds(t, j) => j = j0) /\ ~Adds(t, j)'
  BY <1>1 DEF Adds
<1>9. a \in Holders(j0)
  BY <1>8, InHolders
<1> HIDE DEF j0
<1>10. ASSUME NEW j \in Jobs, NEW x
       PROVE  x \in Holders(j)' <=> \/ x \in Holders(j) /\ ~(j = j0 /\ x = a)
                                    \/ j = j0 /\ x = b
  <2>1. ASSUME NEW i, x = <<"slot", i>> PROVE x # a /\ (x = b <=> i = idx[t])
    BY <2>1
  <2>2. ASSUME NEW w, x = <<"worker", w>> PROVE x # a /\ x # b
    BY <2>2
  <2>3. ASSUME NEW u, x = <<"adds", u>> PROVE x # b /\ (x = a <=> u = t)
    BY <2>3
  <2>4. x \in Holders(j)' => (x \in Holders(j) /\ ~(j = j0 /\ x = a)) \/ (j = j0 /\ x = b)
    <3> HIDE DEF a, b
    <3>1. QED BY <1>5, <1>6, <1>7, <1>8, <2>1, <2>2, <2>3, InHolders, InHoldersNext
  <2>5. ASSUME x \in Holders(j), ~(j = j0 /\ x = a) PROVE x \in Holders(j)'
    <3> HIDE DEF a, b
    <3>1. QED BY <1>5, <1>6, <1>7, <1>8, <2>1, <2>2, <2>3, <2>5, InHolders, InHoldersNext
  <2>6. ASSUME j = j0, x = b PROVE x \in Holders(j)'
    BY <1>2, <1>5, <2>6, InHoldersNext
  <2>7. QED BY <2>4, <2>5, <2>6
<1>11. QED
  <2> HIDE DEF a, b
  <2>1. QED BY <1>2, <1>4, <1>9, <1>10, HandedOver
\* add(p): from the worker back to a slot.
LEMMA HoldAddAgain ==
  ASSUME ControlInv, RingInv, ValInv, HoldInv, NEW t \in Threads, Step(t), AddAgain(t), Q!PushStore(t)
  PROVE  HoldInv'
<1> DEFINE j0 == job[t]  a == <<"worker", t>>  b == <<"slot", idx[t]>>
<1>1. /\ pc[t] = "again" /\ pc'[t] = "dec" /\ at[t] = "push_store" /\ idx[t] \in Q!Slots
      /\ job' = [job EXCEPT ![t] = Null]
  BY DEF AddAgain, Adding, Jump, Q!PushStore, Q!PushCall, Q!PushRoom, Q!PushRetry, Q!PushClaim, Q!PushFull,
         ControlInv, TypeInv
<1>2. t \in Workers /\ t # Main
  BY <1>1 DEF ControlInv, PartsInv, ClientLabels, Threads
<1>3. val[t] = j0 /\ j0 \in Jobs
  BY <1>1 DEF ValInv, Q!PushLabels, ControlInv, CallInv
<1>4. place' = place /\ ran' = ran
  BY DEF AddAgain, jobVars
<1>5. \A j \in Jobs : Live(j)' <=> Live(j)
  BY <1>4 DEF Live, Built
<1>6. \A i : \A j \in Jobs : InSlot(i, j)' <=> InSlot(i, j) \/ (i = idx[t] /\ j = j0)
  BY <1>3, SlotFilled
<1>7. \A w : \A j \in Jobs : AtWorker(w, j)' <=> AtWorker(w, j) /\ w # t
  BY <1>1, NamesAssumption DEF AtWorker, ControlInv, TypeInv, Threads
<1>8. \A u, j : Adds(u, j)' <=> Adds(u, j)
  BY <1>1, OthersAdd DEF Adds
<1>9. AtWorker(t, j0) /\ \A j : AtWorker(t, j) => j = j0
  BY <1>2 DEF AtWorker
<1>10. a \in Holders(j0)
  BY <1>9, InHolders
<1> HIDE DEF j0
<1>11. ASSUME NEW j \in Jobs, NEW x
       PROVE  x \in Holders(j)' <=> \/ x \in Holders(j) /\ ~(j = j0 /\ x = a)
                                    \/ j = j0 /\ x = b
  <2>1. ASSUME NEW i, x = <<"slot", i>> PROVE x # a /\ (x = b <=> i = idx[t])
    BY <2>1
  <2>2. ASSUME NEW w, x = <<"worker", w>> PROVE x # b /\ (x = a <=> w = t)
    BY <2>2
  <2>3. ASSUME NEW u, x = <<"adds", u>> PROVE x # a /\ x # b
    BY <2>3
  <2>4. x \in Holders(j)' => (x \in Holders(j) /\ ~(j = j0 /\ x = a)) \/ (j = j0 /\ x = b)
    <3> HIDE DEF a, b
    <3>1. QED BY <1>6, <1>7, <1>8, <1>9, <2>1, <2>2, <2>3, InHolders, InHoldersNext
  <2>5. ASSUME x \in Holders(j), ~(j = j0 /\ x = a) PROVE x \in Holders(j)'
    <3> HIDE DEF a, b
    <3>1. QED BY <1>6, <1>7, <1>8, <1>9, <2>1, <2>2, <2>3, <2>5, InHolders, InHoldersNext
  <2>6. ASSUME j = j0, x = b PROVE x \in Holders(j)'
    BY <1>3, <1>6, <2>6, InHoldersNext
  <2>7. QED BY <2>4, <2>5, <2>6
<1>12. QED
  <2> HIDE DEF a, b
  <2>1. QED BY <1>3, <1>5, <1>10, <1>11, HandedOver

\* auto* p = queue.pop(): from the slot to the worker.
LEMMA HoldPop ==
  ASSUME ControlInv, RingInv, HoldInv, NEW t \in Threads, Step(t), PopJob(t), Q!PopClear(t)
  PROVE  HoldInv'
<1> DEFINE j0 == val[t]  a == <<"slot", idx[t]>>  b == <<"worker", t>>
<1>1. /\ pc[t] = "pop" /\ pc'[t] = "gate" /\ at[t] = "pop_clear" /\ idx[t] \in Q!Slots
      /\ job' = [job EXCEPT ![t] = val[t]]
  BY DEF PopJob, Jump, Stay, Q!PopClear, Q!PopCall, Q!PopSome, Q!PopClaim, Q!PopLoad, Q!PopEmpty, Q!PopLost,
         ControlInv, TypeInv
<1>2. t \in Workers /\ t # Main
  BY <1>1 DEF ControlInv, PartsInv, ClientLabels, Threads
<1>3. j0 \in Jobs /\ job[t] = Null
  BY <1>1, <1>2 DEF ControlInv, CallInv, JobInv
<1>4. place' = place /\ ran' = ran
  BY DEF PopJob, jobVars
<1>5. \A j \in Jobs : Live(j)' <=> Live(j)
  BY <1>4 DEF Live, Built
<1>6. InSlot(idx[t], j0) /\ \A i : \A j \in Jobs : InSlot(i, j)' <=> InSlot(i, j) /\ ~(i = idx[t] /\ j = j0)
  BY SlotEmptied
<1>7. \A w : \A j \in Jobs : AtWorker(w, j)' <=> AtWorker(w, j) \/ (w = t /\ j = j0)
  BY <1>1, <1>2, <1>3, NamesAssumption DEF AtWorker, ControlInv, TypeInv, Threads
<1>8. \A u, j : Adds(u, j)' <=> Adds(u, j)
  BY <1>1, OthersAdd DEF Adds
<1>9. a \in Holders(j0)
  BY <1>6, InHolders
<1> HIDE DEF j0
<1>10. ASSUME NEW j \in Jobs, NEW x
       PROVE  x \in Holders(j)' <=> \/ x \in Holders(j) /\ ~(j = j0 /\ x = a)
                                    \/ j = j0 /\ x = b
  <2>1. ASSUME NEW i, x = <<"slot", i>> PROVE x # b /\ (x = a <=> i = idx[t])
    BY <2>1
  <2>2. ASSUME NEW w, x = <<"worker", w>> PROVE x # a /\ (x = b <=> w = t)
    BY <2>2
  <2>3. ASSUME NEW u, x = <<"adds", u>> PROVE x # a /\ x # b
    BY <2>3
  <2>4. x \in Holders(j)' => (x \in Holders(j) /\ ~(j = j0 /\ x = a)) \/ (j = j0 /\ x = b)
    <3> HIDE DEF a, b
    <3>1. QED BY <1>6, <1>7, <1>8, <2>1, <2>2, <2>3, InHolders, InHoldersNext
  <2>5. ASSUME x \in Holders(j), ~(j = j0 /\ x = a) PROVE x \in Holders(j)'
    <3> HIDE DEF a, b
    <3>1. QED BY <1>6, <1>7, <1>8, <2>1, <2>2, <2>3, <2>5, InHolders, InHoldersNext
  <2>6. ASSUME j = j0, x = b PROVE x \in Holders(j)'
    BY <1>3, <1>7, <2>6, InHoldersNext
  <2>7. QED BY <2>4, <2>5, <2>6
<1>11. QED
  <2>1. PICK k, y, z : k = j0 /\ y = a /\ z = b
    OBVIOUS
  <2> HIDE DEF a, b
  <2>2. \A j \in Jobs : \A x : x \in Holders(j)' <=> (x \in Holders(j) /\ ~(j = k /\ x = y)) \/ (j = k /\ x = z)
    BY <1>10, <2>1
  <2>3. k \in Jobs /\ y \in Holders(k)
    BY <1>3, <1>9, <2>1
  <2>4. QED BY <1>5, <2>2, <2>3, HandedOver
\* p->run() returns: the worker lets go of the job, which is over.
LEMMA HoldFinish ==
  ASSUME ControlInv, HoldInv, NEW t \in Threads, Step(t), Finish(t)
  PROVE  /\ HoldInv'
         /\ Live(job[t]) /\ job[t] \in Jobs
<1> DEFINE a == <<"worker", t>>
<1>1. /\ t \in Workers /\ pc[t] = "ops" /\ pc'[t] = "dec" /\ job' = [job EXCEPT ![t] = Null]
      /\ ran' = [ran EXCEPT ![job[t]] = @ + 1] /\ place' = place /\ buffer' = buffer
  BY DEF Finish, Jump, NoCall, ringVars, Threads, ControlInv, TypeInv
<1>2. PICK j0 \in Jobs : j0 = job[t]
  BY <1>1 DEF ControlInv, TypeInv, JobInv, Threads
<1>3. \A i, j : InSlot(i, j)' <=> InSlot(i, j)
  BY <1>1 DEF InSlot, Q!Slots
<1>4. \A w : \A j \in Jobs : AtWorker(w, j)' <=> AtWorker(w, j) /\ w # t
  BY <1>1, NamesAssumption DEF AtWorker, ControlInv, TypeInv, Threads
<1>5. \A u, j : Adds(u, j)' <=> Adds(u, j)
  BY <1>1, OthersAdd DEF Adds
<1>6. AtWorker(t, j0) /\ \A j : AtWorker(t, j) => j = j0
  BY <1>1, <1>2 DEF AtWorker
<1>7. a \in Holders(j0)
  BY <1>6, InHolders
<1>8. Live(j0) /\ Holders(j0) = {a}
  BY <1>2, <1>7 DEF HoldInv
<1>9. ~Live(j0)' /\ \A j \in Jobs \ {j0} : Live(j)' <=> Live(j)
  BY <1>1, <1>2, <1>8 DEF Live, Built, ControlInv, TypeInv
<1>10. ASSUME NEW j \in Jobs, NEW x
       PROVE  x \in Holders(j)' <=> x \in Holders(j) /\ x # a
  <2>1. ASSUME NEW i, x = <<"slot", i>> PROVE x # a
    BY <2>1
  <2>2. ASSUME NEW w, x = <<"worker", w>> PROVE x = a <=> w = t
    BY <2>2
  <2>3. ASSUME NEW u, x = <<"adds", u>> PROVE x # a
    BY <2>3
  <2> HIDE DEF a
  <2>4. x \in Holders(j)' => x \in Holders(j) /\ x # a
    BY <1>3, <1>4, <1>5, <2>1, <2>2, <2>3, InHolders, InHoldersNext
  <2>5. ASSUME x \in Holders(j), x # a PROVE x \in Holders(j)'
    BY <1>3, <1>4, <1>5, <2>1, <2>2, <2>3, <2>5, InHolders, InHoldersNext
  <2>6. QED BY <2>4, <2>5
<1>11. \A j \in Jobs \ {j0} : a \notin Holders(j)
  <2> SUFFICES ASSUME NEW j \in Jobs, j # j0, a \in Holders(j) PROVE FALSE
    OBVIOUS
  <2>1. AtWorker(t, j)
    BY InHolders
  <2>2. QED BY <1>6, <2>1
<1>12. Holders(j0)' = {} /\ \A j \in Jobs \ {j0} : Holders(j)' = Holders(j)
  <2> HIDE DEF a
  <2>1. QED BY <1>2, <1>8, <1>10, <1>11
<1>13. QED
  <2> HIDE DEF a
  <2>1. SUFFICES ASSUME NEW j \in Jobs
                 PROVE  IF Live(j)' THEN \E x : Holders(j)' = {x} ELSE Holders(j)' = {}
    BY <1>2, <1>8 DEF HoldInv
  <2>2. QED BY <1>9, <1>12 DEF HoldInv

\* registerWorker: the job has memory, and the thread is going to add it.
LEMMA HoldRegister ==
  ASSUME ControlInv, StageInv, OriginInv, HoldInv, NEW t \in Threads, Step(t), Constructs(t)
  PROVE  /\ HoldInv'
         /\ \E j \in Jobs : j = Arg(t).job /\ ~Built(j) /\ Live(j)'
<1>0. PICK j0 : j0 = Arg(t).job
  OBVIOUS
<1>1. /\ Op(t, "push") /\ pc[t] = "ops" /\ pc'[t] = "add" /\ next' = next /\ job' = job /\ ran' = ran
      /\ buffer' = buffer /\ place' = [place EXCEPT ![j0] = [at |-> cidx[t], size |-> want[t]]]
  BY <1>0 DEF Constructs, Register, NextOp, Op, Jump, ringVars, ControlInv, TypeInv
<1>2. j0 \in Jobs
  BY <1>0, <1>1, ArgOK, PushArg DEF ControlInv, Op, Arg
<1>3. ~Built(j0)
  <2>1. next[t] \in DOMAIN Ops(t)
    BY <1>1, OpsOK DEF ControlInv, TypeInv, Op
  <2>2. PushAt(Ops(t), next[t], j0) /\ ToCome(t, next[t])
    BY <1>0, <1>1, <2>1 DEF PushAt, ToCome, Op, Arg
  <2>3. t = Main \/ Runs(t)
    BY <1>1 DEF Runs
  <2>4. QED BY <1>2, <2>2, <2>3 DEF OriginInv
<1>4. Live(j0)'
  <2>1. ran[j0] = 0
    BY <1>2, <1>3 DEF StageInv
  <2>2. place'[j0] # Null
    <3>1. [at |-> cidx[t], size |-> want[t]] \in [at : Nat, size : Nat]
      <4>1. cidx[t] \in Nat /\ want[t] \in Nat
        BY BufferAssumption, JobsAssumption DEF ControlInv, TypeInv, A!TypeOK, A!Free
      <4>2. QED BY <4>1
    <3>2. QED BY <1>1, <1>2, <3>1, NamesAssumption DEF ControlInv, TypeInv
  <2>3. QED BY <1>1, <2>1, <2>2 DEF Live, Built
<1>5. \A j \in Jobs \ {j0} : Live(j)' <=> Live(j)
  BY <1>1, <1>2 DEF Live, Built, ControlInv, TypeInv
<1>6. Holders(j0) = {}
  BY <1>2, <1>3 DEF HoldInv, Live
<1>7. \A i, j : InSlot(i, j)' <=> InSlot(i, j)
  BY <1>1 DEF InSlot, Q!Slots
<1>8. \A w, j : AtWorker(w, j)' <=> AtWorker(w, j)
  BY <1>1 DEF AtWorker
<1>9. \A u : u # t => \A j : Adds(u, j)' <=> Adds(u, j)
  BY OthersAdd
<1>10. Adds(t, j0)' /\ \A j : ~Adds(t, j) /\ (Adds(t, j)' => j = j0)
  <2>1. Arg(t)' = Arg(t)
    BY <1>1, OpsStay
  <2>2. QED BY <1>0, <1>1, <2>1 DEF Adds, Threads
<1> DEFINE b == <<"adds", t>>
<1>11. ASSUME NEW j \in Jobs, NEW x
       PROVE  x \in Holders(j)' <=> x \in Holders(j) \/ (j = j0 /\ x = b)
  <2>1. ASSUME NEW i, x = <<"slot", i>> PROVE x # b
    BY <2>1
  <2>2. ASSUME NEW w, x = <<"worker", w>> PROVE x # b
    BY <2>2
  <2>3. ASSUME NEW u, x = <<"adds", u>> PROVE x = b <=> u = t
    BY <2>3
  <2>4. x \in Holders(j)' => x \in Holders(j) \/ (j = j0 /\ x = b)
    <3> HIDE DEF b
    <3>1. QED BY <1>7, <1>8, <1>9, <1>10, <2>1, <2>2, <2>3, InHolders, InHoldersNext
  <2>5. ASSUME x \in Holders(j) PROVE x \in Holders(j)'
    <3> HIDE DEF b
    <3>1. QED BY <1>7, <1>8, <1>9, <1>10, <2>1, <2>2, <2>3, <2>5, InHolders, InHoldersNext
  <2>6. ASSUME j = j0, x = b PROVE x \in Holders(j)'
    BY <1>10, <2>6, InHoldersNext
  <2>7. QED BY <2>4, <2>5, <2>6
<1>12. Holders(j0)' = {b} /\ \A j \in Jobs \ {j0} : Holders(j)' = Holders(j)
  <2> HIDE DEF b
  <2>1. QED BY <1>2, <1>6, <1>11
<1>13. QED
  <2> HIDE DEF b
  <2>1. SUFFICES ASSUME NEW j \in Jobs
                 PROVE  IF Live(j)' THEN \E x : Holders(j)' = {x} ELSE Holders(j)' = {}
    BY <1>0, <1>2, <1>3, <1>4 DEF HoldInv
  <2>2. QED BY <1>4, <1>5, <1>12 DEF HoldInv

LEMMA HoldStep ==
  ASSUME ControlInv, RingInv, ValInv, StageInv, OriginInv, HoldInv, NEW t \in Threads, Step(t)
  PROVE  HoldInv'
<1>1. CASE ~Passes(t)
  <2>1. \A j \in Jobs : Live(j)' <=> Live(j)
    BY <1>1, OthersHold DEF Live, Built
  <2>2. ASSUME NEW j \in Jobs PROVE Holders(j)' = Holders(j)
    <3>1. \A i : InSlot(i, j)' <=> InSlot(i, j)
      BY <1>1, OthersHold DEF InSlot, Q!Slots
    <3>2. \A w : AtWorker(w, j)' <=> AtWorker(w, j)
      BY <1>1, OthersHold DEF AtWorker
    <3>3. \A u : Adds(u, j)' <=> Adds(u, j)
      BY <1>1, OthersHold DEF Adds, Threads
    <3>4. \A x : x \in Holders(j)' <=> x \in Holders(j)
      BY <3>1, <3>2, <3>3, InHolders, InHoldersNext
    <3>5. QED BY <3>4
  <2>3. QED BY <2>1, <2>2 DEF HoldInv
<1>2. CASE Passes(t)
  BY <1>2, HoldAddNew, HoldAddAgain, HoldPop, HoldFinish, HoldRegister DEF Passes
<1>3. QED BY <1>1, <1>2
-----------------------------------------------------------------------------
(* A job runs once. *)

LEMMA OneWorkerHas ==
  ASSUME HoldInv, NEW j \in Jobs, NEW v, NEW w, AtWorker(v, j), AtWorker(w, j)
  PROVE  v = w /\ Live(j)
<1>1. <<"worker", v>> \in Holders(j) /\ <<"worker", w>> \in Holders(j)
  BY InHolders
<1>2. Live(j)
  BY <1>1 DEF HoldInv
<1>3. <<"worker", v>> = <<"worker", w>>
  BY <1>1, <1>2 DEF HoldInv
<1>4. QED BY <1>2, <1>3

\* The worker at the gate has a job that has not run.
LEMMA NotBegun ==
  ASSUME ControlInv, StageInv, HoldInv, NEW t \in Threads, PassGate(t)
  PROVE  t \in Workers /\ job[t] \in Jobs /\ begun[job[t]] = 0 /\ ran[job[t]] = 0
<1>1. pc[t] = "gate"
  BY DEF PassGate, Jump
<1>2. t \in Workers /\ job[t] \in Jobs
  BY <1>1 DEF ControlInv, TypeInv, PartsInv, JobInv, ClientLabels, Threads
<1>3. PICK k \in Jobs : k = job[t]
  BY <1>2
<1>4. AtWorker(t, k)
  BY <1>2, <1>3 DEF AtWorker
<1>5. Live(k)
  BY <1>4, OneWorkerHas
<1>6. ASSUME NEW w \in Workers, job[w] = k, Runs(w) PROVE FALSE
  <2>1. w = t
    BY <1>4, <1>6, OneWorkerHas DEF AtWorker
  <2>2. QED BY <1>1, <1>6, <2>1 DEF Runs
<1>7. QED BY <1>2, <1>3, <1>5, <1>6 DEF StageInv, Live

\* Only entering and leaving run() changes who runs what.
LEMMA RunsStay ==
  ASSUME ControlInv, NEW t \in Threads, Step(t), ~PassGate(t), ~Finish(t)
  PROVE  /\ begun' = begun /\ ran' = ran
         /\ \A j \in Jobs : Built(j) => Built(j)'
         /\ \A w \in Workers : (Runs(w)' <=> Runs(w)) /\ (Runs(w) => job'[w] = job[w])
         /\ \/ next'[t] = next[t] /\ (pc[t] = "add" => pc'[t] = "add")
            \/ next'[t] = next[t] + 1
<1> USE DEF ControlInv
<1>1. begun' = begun /\ ran' = ran
  BY DEF Step, Work, Call, Launch, CountIn, PopJob, MissGate, AddAgain, jobVars,
         CountOut, Again, Boot, AddCount, Register, AddNew, CheckCount, CheckEmpty, ClearAll,
         Disable, Join
<1>2. \A j \in Jobs : Built(j) => Built(j)'
  <2>1. CASE Constructs(t)
    <3>1. [at |-> cidx[t], size |-> want[t]] # Null
      <4>1. cidx[t] \in Nat /\ want[t] \in Nat
        BY BufferAssumption, JobsAssumption DEF TypeInv, A!TypeOK, A!Free
      <4>2. [at |-> cidx[t], size |-> want[t]] \in [at : Nat, size : Nat]
        BY <4>1
      <4>3. QED BY <4>2, NamesAssumption
    <3>2. QED BY <2>1, <3>1 DEF Constructs, Built, TypeInv
  <2>2. CASE ~Constructs(t)
    <3>1. place' = place
      <4>1. CASE Register(t)
        BY <2>2, <4>1 DEF Constructs, Register, Jump, TypeInv
      <4>2. CASE ~Register(t)
        BY <4>2 DEF Step, Work, Call, Launch, CountIn, PopJob, MissGate, AddAgain, jobVars,
             CountOut, Again, Boot, AddCount, AddNew, CheckCount, CheckEmpty, ClearAll,
             Disable, Join
      <4>3. QED BY <4>1, <4>2
    <3>2. QED BY <3>1 DEF Built
  <2>3. QED BY <2>1, <2>2
<1>3. ASSUME NEW w \in Workers PROVE (Runs(w)' <=> Runs(w)) /\ (Runs(w) => job'[w] = job[w])
  <2>0. w \in Threads
    BY DEF Threads
  <2>1. CASE w # t
    BY <2>0, <2>1, OthersStay DEF Runs
  <2>2. CASE w = t
    <3> USE DEF TypeInv, Jump, Stay, NextOp
    <3>1. t # Main /\ pc[t] \in WorkerLabels \cup {"ops", "add"}
      BY <2>2, NamesAssumption DEF PartsInv
    <3>2. ~Boot(t) /\ ~CheckEmpty(t) /\ ~Join(t)
      BY <3>1 DEF Boot, CheckEmpty, Join, WorkerLabels
    <3>3. \/ Launch(t) \/ CountIn(t) \/ PopJob(t) \/ MissGate(t) \/ AddAgain(t) \/ CountOut(t) \/ Again(t)
          \/ AddCount(t) \/ Register(t) \/ AddNew(t)
      BY <3>1, <3>2, OnlyClient DEF Step, Work, Call
    <3>4. pc'[t] \in {"ops", "add"} => pc[t] \in {"ops", "add"}
      BY <3>3 DEF Launch, CountIn, PopJob, MissGate, AddAgain, CountOut, Adding, Again, AddCount, Register, Op, AddNew
    <3>5. pc[t] \in {"ops", "add"} => pc'[t] \in {"ops", "add"} /\ job'[t] = job[t]
      BY <3>3 DEF Launch, CountIn, PopJob, MissGate, AddAgain, CountOut, Adding, Again, AddCount, Register, Op, AddNew
    <3>6. QED BY <2>2, <3>4, <3>5 DEF Runs
  <2>3. QED BY <2>1, <2>2
<1>4. \/ next'[t] = next[t] /\ (pc[t] = "add" => pc'[t] = "add")
      \/ next'[t] = next[t] + 1
  BY DEF TypeInv, Jump, Stay, NextOp, Step, Work, Call, Launch, CountIn, PopJob, MissGate, AddAgain, jobVars,
         CountOut, Again, Boot, AddCount, Register, Op, AddNew, Adding, CheckCount, CheckEmpty, ClearAll,
         Disable, Join
<1>5. QED BY <1>1, <1>2, <1>3, <1>4
LEMMA StageStep ==
  ASSUME ControlInv, StageInv, HoldInv, NEW t \in Threads, Step(t)
  PROVE  StageInv'
<1> USE DEF ControlInv
<1> DEFINE Once(j) == \/ begun[j] = 0 /\ ran[j] = 0
                      \/ begun[j] = 1 /\ ran[j] = 0 /\ \E w \in Workers : job[w] = j /\ Runs(w)
                      \/ begun[j] = 1 /\ ran[j] = 1 /\ Built(j)
<1>1. CASE PassGate(t)
  <2>1. t \in Workers /\ job[t] \in Jobs
    BY <1>1, NotBegun
  <2>2. PICK k \in Jobs : k = job[t]
    BY <2>1
  <2>3. begun[k] = 0 /\ ran[k] = 0
    BY <1>1, <2>2, NotBegun
  <2>4. /\ begun' = [begun EXCEPT ![k] = @ + 1] /\ ran' = ran /\ place' = place /\ job' = job
        /\ pc[t] = "gate" /\ pc'[t] = "ops"
    BY <1>1, <2>2 DEF PassGate, Jump, TypeInv
  <2>5. begun'[k] = 1 /\ \A j \in Jobs \ {k} : begun'[j] = begun[j]
    BY <2>3, <2>4 DEF TypeInv
  <2>6. Runs(t)' /\ \A w \in Workers \ {t} : Runs(w)' <=> Runs(w)
    BY <2>4, OthersStay DEF Runs, Threads
  <2>7. \A w \in Workers \ {t} : Runs(w) => job[w] # k
    <3> SUFFICES ASSUME NEW w \in Workers, w # t, job[w] = k PROVE FALSE
      OBVIOUS
    <3>1. AtWorker(w, k) /\ AtWorker(t, k)
      BY <2>1, <2>2 DEF AtWorker
    <3>2. QED BY <3>1, OneWorkerHas
  <2>8. ~Runs(t)
    BY <2>4 DEF Runs
  <2>9. ASSUME NEW j \in Jobs PROVE Once(j)'
    <3>1. CASE j = k
      BY <2>1, <2>2, <2>3, <2>4, <2>5, <2>6, <3>1
    <3>2. CASE j # k
      BY <2>4, <2>5, <2>6, <2>8, <3>2 DEF StageInv, Built
    <3>3. QED BY <3>1, <3>2
  <2>10. ASSUME NEW w \in Workers, Runs(w)' PROVE begun'[job'[w]] = 1
    <3>1. CASE w = t
      BY <2>2, <2>4, <2>5, <3>1
    <3>2. CASE w # t
      <4>1. Runs(w) /\ job[w] # k /\ job'[w] = job[w]
        BY <2>4, <2>6, <2>7, <2>10, <3>2
      <4>2. job[w] \in Jobs
        BY <4>1 DEF Runs, JobInv, TypeInv, Threads
      <4>3. QED BY <2>5, <4>1, <4>2 DEF StageInv
    <3>3. QED BY <3>1, <3>2
  <2>11. QED BY <2>9, <2>10 DEF StageInv
<1>2. CASE Finish(t)
  <2>1. PICK k \in Jobs : k = job[t]
    BY <1>2, HoldFinish
  <2>2. Live(k)
    BY <1>2, <2>1, HoldFinish
  <2>3. /\ ran' = [ran EXCEPT ![k] = @ + 1] /\ begun' = begun /\ place' = place
        /\ job' = [job EXCEPT ![t] = Null] /\ pc[t] = "ops" /\ pc'[t] = "dec" /\ t \in Workers
    BY <1>2, <2>1 DEF Finish, Jump, TypeInv, Threads
  <2>4. ran[k] = 0 /\ Built(k) /\ begun[k] = 1
    BY <2>1, <2>2, <2>3 DEF Live, StageInv, Runs
  <2>5. ran'[k] = 1 /\ \A j \in Jobs \ {k} : ran'[j] = ran[j]
    BY <2>3, <2>4 DEF TypeInv
  <2>6. ~Runs(t)' /\ \A w \in Workers \ {t} : (Runs(w)' <=> Runs(w)) /\ job'[w] = job[w]
    BY <2>3, OthersStay DEF Runs, Threads
  <2>7. ASSUME NEW j \in Jobs PROVE Once(j)'
    <3>1. CASE j = k
      BY <2>3, <2>4, <2>5, <3>1 DEF Built
    <3>2. CASE j # k
      BY <2>1, <2>3, <2>5, <2>6, <3>2 DEF StageInv, Built
    <3>3. QED BY <3>1, <3>2
  <2>8. ASSUME NEW w \in Workers, Runs(w)' PROVE begun'[job'[w]] = 1
    BY <2>3, <2>6, <2>8 DEF StageInv
  <2>9. QED BY <2>7, <2>8 DEF StageInv
<1>3. CASE ~PassGate(t) /\ ~Finish(t)
  <2>1. begun' = begun /\ ran' = ran /\ \A j \in Jobs : Built(j) => Built(j)'
    BY <1>3, RunsStay
  <2>2. \A w \in Workers : (Runs(w)' <=> Runs(w)) /\ (Runs(w) => job'[w] = job[w])
    BY <1>3, RunsStay
  <2>3. ASSUME NEW j \in Jobs PROVE Once(j)'
    BY <2>1, <2>2 DEF StageInv
  <2>4. ASSUME NEW w \in Workers, Runs(w)' PROVE begun'[job'[w]] = 1
    BY <2>1, <2>2, <2>4 DEF StageInv
  <2>5. QED BY <2>3, <2>4 DEF StageInv
<1>4. QED BY <1>1, <1>2, <1>3
\* A push of the job that is being constructed is not to come again.
LEMMA PushedNow ==
  ASSUME EachPushedOnce, ControlInv, StageInv, HoldInv, NEW t \in Threads, Step(t), Constructs(t),
         NEW j \in Jobs, j = Arg(t).job, NEW i
  PROVE  /\ \A u \in Threads : (u = Main \/ Runs(u)) /\ PushAt(Ops(u), i, j) => u = t /\ i = next[t]
         /\ \A k \in Jobs : PushAt(Body[k], i, j) => begun[k] # 0
<1> USE DEF ControlInv
<1>1. pc[t] = "ops" /\ Op(t, "push")
  BY DEF Constructs, Register, Op
<1>2. PushAt(Ops(t), next[t], j)
  <2>1. next[t] \in DOMAIN Ops(t)
    BY <1>1, OpsOK DEF TypeInv, Op
  <2>2. QED BY <1>1, <2>1 DEF PushAt, Op, Arg
<1>3. program \in Programs
  BY DEF TypeInv
<1>4. t # Main => t \in Workers /\ job[t] \in Jobs /\ begun[job[t]] = 1 /\ Ops(t) = program.body[job[t]]
  <2>1. t # Main => t \in Workers /\ job[t] # Null
    BY <1>1 DEF Threads, JobInv
  <2>2. QED BY <1>1, <2>1 DEF TypeInv, StageInv, Runs, Ops, Body
<1>5. t = Main => Ops(t) = program.script
  BY DEF Ops, Script
<1>6. PICK n : n = next[t]
  OBVIOUS
<1>7. /\ PushAt(program.script, i, j) /\ PushAt(program.script, n, j) => i = n
      /\ \A a, b \in Jobs : PushAt(program.body[a], i, j) /\ PushAt(program.body[b], n, j) => a = b /\ i = n
      /\ \A a \in Jobs : /\ ~(PushAt(program.script, i, j) /\ PushAt(program.body[a], n, j))
                        /\ ~(PushAt(program.script, n, j) /\ PushAt(program.body[a], i, j))
  BY DEF EachPushedOnce, Script, Body
<1>8. CASE t = Main
  <2>1. PushAt(program.script, n, j)
    BY <1>2, <1>5, <1>6, <1>8
  <2>2. \A a \in Jobs : ~PushAt(program.body[a], i, j)
    BY <1>7, <2>1
  <2>3. ASSUME NEW u \in Threads, u = Main \/ Runs(u), PushAt(Ops(u), i, j)
        PROVE  u = t /\ i = n
    <3>1. CASE u = Main
      BY <1>7, <1>8, <2>1, <2>3, <3>1 DEF Ops, Script
    <3>2. CASE u # Main
      <4>1. u \in Workers /\ job[u] # Null
        BY <2>3, <3>2 DEF Threads, JobInv, Runs
      <4>2. job[u] \in Jobs /\ Ops(u) = program.body[job[u]]
        BY <3>2, <4>1 DEF TypeInv, Ops, Body
      <4>3. QED BY <2>2, <2>3, <4>2
    <3>3. QED BY <3>1, <3>2
  <2>4. QED BY <1>6, <2>2, <2>3 DEF Body
<1>9. CASE t # Main
  <2>1. PICK m \in Jobs : m = job[t]
    BY <1>4, <1>9
  <2>2. PushAt(program.body[m], n, j)
    BY <1>2, <1>4, <1>6, <1>9, <2>1
  <2>3. ~PushAt(program.script, i, j) /\ \A a \in Jobs : PushAt(program.body[a], i, j) => a = m /\ i = n
    BY <1>7, <2>2
  <2>4. ASSUME NEW u \in Threads, u = Main \/ Runs(u), PushAt(Ops(u), i, j)
        PROVE  u = t /\ i = n
    <3>1. CASE u = Main
      BY <2>3, <2>4, <3>1 DEF Ops, Script
    <3>2. CASE u # Main
      <4>1. u \in Workers /\ job[u] # Null
        BY <2>4, <3>2 DEF Threads, JobInv, Runs
      <4>2. job[u] \in Jobs /\ Ops(u) = program.body[job[u]]
        BY <3>2, <4>1 DEF TypeInv, Ops, Body
      <4>3. job[u] = m /\ i = n
        BY <2>3, <2>4, <4>2
      <4>4. AtWorker(u, m) /\ AtWorker(t, m)
        BY <1>4, <1>9, <2>1, <4>1, <4>3 DEF AtWorker
      <4>5. QED BY <4>3, <4>4, OneWorkerHas
    <3>3. QED BY <3>1, <3>2
  <2>5. begun[m] # 0
    BY <1>4, <1>9, <2>1
  <2>6. QED BY <1>6, <2>3, <2>4, <2>5 DEF Body
<1>10. QED BY <1>8, <1>9

LEMMA OriginStep ==
  ASSUME EachPushedOnce, ControlInv, StageInv, OriginInv, HoldInv, NEW t \in Threads, Step(t)
  PROVE  OriginInv'
<1> USE DEF ControlInv
<1>0. Body' = Body
  BY DEF Step, Body
<1>1. CASE PassGate(t)
  <2>1. place' = place /\ next' = [next EXCEPT ![t] = 1] /\ job' = job /\ pc'[t] = "ops"
    BY <1>1 DEF PassGate, Jump, TypeInv
  <2>2. t \in Workers /\ t # Main
    BY <1>1, NotBegun, NamesAssumption
  <2>3. PICK k \in Jobs : k = job[t]
    BY <1>1, NotBegun
  <2>4. begun[k] = 0 /\ begun' = [begun EXCEPT ![k] = @ + 1]
    BY <1>1, <2>3, NotBegun DEF PassGate
  <2>5. ASSUME NEW u \in Threads, u = Main \/ Runs(u)', NEW j \in Jobs, NEW i,
               PushAt(Ops(u)', i, j), ToCome(u, i)'
        PROVE  ~Built(j)'
    <3>1. Ops(u)' = Ops(u)
      BY <2>1, OpsStay
    <3>2. CASE u = t
      <4>1. PushAt(Body[k], i, j)
        BY <2>2, <2>3, <2>5, <3>1, <3>2 DEF Ops
      <4>2. QED BY <2>1, <2>4, <4>1 DEF OriginInv, Built
    <3>3. CASE u # t
      <4>1. pc'[u] = pc[u] /\ next'[u] = next[u]
        BY <3>3, OthersStay
      <4>2. (u = Main \/ Runs(u)) /\ ToCome(u, i)
        BY <2>5, <4>1 DEF Runs, ToCome
      <4>3. QED BY <2>1, <2>5, <3>1, <4>2 DEF OriginInv, Built
    <3>4. QED BY <3>2, <3>3
  <2>6. ASSUME NEW l \in Jobs, begun'[l] = 0, NEW j \in Jobs, NEW i, PushAt(Body[l], i, j)
        PROVE  ~Built(j)'
    <3>1. begun[l] = 0
      BY <2>4, <2>6 DEF TypeInv
    <3>2. QED BY <2>1, <2>6, <3>1 DEF OriginInv, Built
  <2>7. QED BY <1>0, <2>5, <2>6 DEF OriginInv
<1>2. CASE ~PassGate(t)
  <2>1. begun' = begun
    <3>1. CASE Finish(t)
      BY <3>1 DEF Finish
    <3>2. CASE ~Finish(t)
      BY <1>2, <3>2, RunsStay
    <3>3. QED BY <3>1, <3>2
  <2>2. ASSUME NEW u \in Threads, u = Main \/ Runs(u)', NEW j \in Jobs, NEW i,
               PushAt(Ops(u)', i, j), ToCome(u, i)'
        PROVE  (u = Main \/ Runs(u)) /\ PushAt(Ops(u), i, j) /\ ToCome(u, i)
    <3>1. CASE u # t
      <4>1. pc'[u] = pc[u] /\ next'[u] = next[u] /\ job'[u] = job[u]
        BY <3>1, OthersStay
      <4>2. Ops(u)' = Ops(u)
        BY <4>1, OpsStay
      <4>3. QED BY <2>2, <4>1, <4>2 DEF Runs, ToCome
    <3>2. CASE u = t
      <4>1. ~Finish(t)
        BY <2>2, <3>2 DEF Finish, Jump, TypeInv, Runs
      <4>2. (u = Main \/ Runs(u)) /\ (u # Main => job'[u] = job[u])
        <5>1. u # Main => u \in Workers
          BY DEF Threads
        <5>2. QED BY <1>2, <2>2, <4>1, <5>1, RunsStay
      <4>3. Ops(u)' = Ops(u)
        BY <4>2, OpsStay DEF Ops, Step, Script
      <4>4. i \in Nat
        <5>1. PushAt(Ops(u), i, j)
          BY <2>2, <4>3
        <5>2. Ops(u) \in Seq(ClientOps)
          <6>1. CASE u = Main
            BY <6>1, ProgramsAssumption DEF TypeInv, Ops, Script
          <6>2. CASE u # Main
            BY <4>2, <6>2, OpsOK DEF Runs
          <6>3. QED BY <6>1, <6>2
        <5>3. QED BY <5>1, <5>2 DEF PushAt
      <4>5. \/ next'[t] = next[t] /\ (pc[t] = "add" => pc'[t] = "add")
            \/ next'[t] = next[t] + 1
        BY <1>2, <4>1, RunsStay
      <4>6. ToCome(u, i)
        BY <2>2, <3>2, <4>4, <4>5 DEF ToCome, TypeInv
      <4>7. QED BY <2>2, <4>2, <4>3, <4>6
    <3>3. QED BY <3>1, <3>2
  <2>3. CASE ~Constructs(t)
    <3>1. place' = place
      BY <1>2, <2>3, OthersHold DEF Passes, AddNew, AddAgain, PopJob, Finish, jobVars
    <3>2. QED BY <1>0, <2>1, <2>2, <3>1 DEF OriginInv, Built
  <2>4. CASE Constructs(t)
    <3>1. PICK k \in Jobs : k = Arg(t).job
      BY <2>4, HoldRegister
    <3>2. \A j \in Jobs \ {k} : Built(j)' <=> Built(j)
      BY <2>4, <3>1 DEF Constructs, Built, TypeInv
    <3>3. pc'[t] = "add" /\ next'[t] = next[t]
      BY <2>4 DEF Constructs, Register, NextOp, Jump, TypeInv
    <3>4. ASSUME NEW u \in Threads, u = Main \/ Runs(u)', NEW j \in Jobs, NEW i,
                 PushAt(Ops(u)', i, j), ToCome(u, i)'
          PROVE  ~Built(j)'
      <4>1. (u = Main \/ Runs(u)) /\ PushAt(Ops(u), i, j) /\ ToCome(u, i)
        BY <2>2, <3>4
      <4>2. j # k
        <5>1. SUFFICES ASSUME j = k PROVE FALSE
          OBVIOUS
        <5>2. u = t /\ i = next[t]
          BY <2>4, <3>1, <4>1, <5>1, PushedNow
        <5>3. QED BY <3>3, <3>4, <5>2 DEF ToCome, TypeInv
      <4>3. QED BY <3>2, <4>1, <4>2 DEF OriginInv
    <3>5. ASSUME NEW l \in Jobs, begun'[l] = 0, NEW j \in Jobs, NEW i, PushAt(Body[l], i, j)
          PROVE  ~Built(j)'
      <4>1. begun[l] = 0
        BY <2>1, <3>5
      <4>2. j # k
        BY <2>4, <3>1, <3>5, <4>1, PushedNow
      <4>3. QED BY <3>2, <3>5, <4>1, <4>2 DEF OriginInv
    <3>6. QED BY <1>0, <3>4, <3>5 DEF OriginInv
  <2>5. QED BY <2>3, <2>4
<1>3. QED BY <1>1, <1>2
-----------------------------------------------------------------------------
(* Programs that keep the ring in step. *)

\* No job waits for a counter; one worker; only the client pushes; and the queue has
\* room for every job that is pushed.
NoGates == \A j \in Jobs : Gate[j] = Null
OneWorker == \A v, w \in Crew : v = w
ClientPushes == NoGates /\ \A a, j \in Jobs : \A i : ~PushAt(Body[a], i, j)
Pushed == {j \in Jobs : \E i : PushAt(Script, i, j) \/ \E a \in Jobs : PushAt(Body[a], i, j)}
Room == IsFiniteSet(Pushed) /\ Cardinality(Pushed) < QueueSize

\* What every program keeps while the ring is in step: only jobs that are pushed have
\* memory, and a slot between start and end has a job or gets one.
BuiltInv == \A j \in Jobs : Built(j) => j \in Pushed
FullInv == \A i \in Queued : buffer[i] # Null \/ Pushing(i)

LEMMA BuiltStep ==
  ASSUME ControlInv, BuiltInv, NEW t \in Threads, Step(t)
  PROVE  BuiltInv'
<1>1. Pushed' = Pushed
  BY DEF Step, Pushed, Script, Body
<1>2. CASE Constructs(t)
  <2>1. pc[t] = "ops" /\ Op(t, "push")
    BY <1>2 DEF Constructs, Register, Op
  <2>2. PICK k : k = Arg(t).job
    OBVIOUS
  <2>3. k \in Jobs /\ \A j \in Jobs \ {k} : Built(j)' <=> Built(j)
    <3>1. k \in Jobs
      BY <2>1, <2>2, ArgOK, PushArg DEF ControlInv, Op, Arg
    <3>2. QED BY <1>2, <2>2, <3>1 DEF Constructs, Built, ControlInv, TypeInv
  <2>4. PushAt(Ops(t), next[t], k)
    <3>1. next[t] \in DOMAIN Ops(t)
      BY <2>1, OpsOK DEF ControlInv, TypeInv, Op
    <3>2. QED BY <2>1, <2>2, <3>1 DEF PushAt, Op, Arg
  <2>5. k \in Pushed
    <3>1. t # Main => t \in Workers /\ job[t] \in Jobs
      BY <2>1 DEF Threads, ControlInv, TypeInv, JobInv
    <3>2. PICK n : n = next[t]
      OBVIOUS
    <3>3. CASE t = Main
      BY <2>3, <2>4, <3>2, <3>3 DEF Ops, Pushed
    <3>4. CASE t # Main
      BY <2>3, <2>4, <3>1, <3>2, <3>4 DEF Ops, Pushed
    <3>5. QED BY <3>3, <3>4
  <2>6. QED BY <1>1, <2>3, <2>5 DEF BuiltInv
<1>3. CASE ~Constructs(t)
  <2>1. place' = place
    <3>1. CASE Register(t)
      BY <1>3, <3>1 DEF Constructs, Register, Jump, ControlInv, TypeInv
    <3>2. CASE ~Register(t)
      BY <3>2 DEF Step, Work, Call, Launch, CountIn, PopJob, PassGate, MissGate, AddAgain, jobVars,
           Finish, CountOut, Again, Boot, AddCount, AddNew, CheckCount, CheckEmpty, ClearAll, Disable, Join
    <3>3. QED BY <3>1, <3>2
  <2>2. QED BY <1>1, <2>1 DEF BuiltInv, Built
<1>4. QED BY <1>2, <1>3

LEMMA FullStep ==
  ASSUME ControlInv, RingInv, InStep, FullInv, NEW t \in Threads, Step(t)
  PROVE  FullInv'
<1> USE DEF FullInv
<1>1. RingTypes
  BY DEF ControlInv, TypeInv, RingTypes
<1>2. \A u \in Threads \ {t} : at'[u] = at[u] /\ idx'[u] = idx[u]
  BY OthersStay
<1>3. start \in Q!Slots /\ end \in Q!Slots /\ (Q!Slots)' = Q!Slots
  BY <1>1 DEF RingTypes, Q!RingTypeOK, Q!Slots
<1>4. start' \in Q!Slots /\ end' \in Q!Slots
  <2>1. TypeInv'
    BY TypeStep DEF ControlInv
  <2>2. QED BY <1>3, <2>1 DEF TypeInv, Q!RingTypeOK
<1>5. CASE UNCHANGED <<ringVars, calls>>
  BY <1>5 DEF ringVars, calls, Pushing, Storing, Queued, Q!Slots
<1>6. CASE Q!PushClaim(t)
  <2>1. /\ at[t] = "push_cas" /\ idx[t] = end /\ idx' = idx /\ buffer' = buffer /\ at'[t] = "push_store"
        /\ end' = Q!Succ(end) /\ start' = start
    BY <1>1, <1>6 DEF Q!PushClaim, Q!Goto, RingTypes
  <2>2. PICK e : e = end
    OBVIOUS
  <2>3. Queued' = Queued \cup {e}
    BY <1>3, <1>4, <2>1, <2>2, QueuedGrows DEF InStep
  <2>4. Pushing(e)' /\ \A i : Pushing(i) => Pushing(i)'
    BY <1>2, <2>1, <2>2 DEF Pushing, Storing
  <2>5. QED BY <2>1, <2>3, <2>4
<1>7. CASE Q!PushStore(t)
  <2>1. val[t] # Null
    BY <1>7, NamesAssumption DEF Q!PushStore, Q!PushLabels, ControlInv, CallInv
  <2>2. /\ idx[t] \in Q!Slots /\ buffer' = [buffer EXCEPT ![idx[t]] = val[t]]
        /\ UNCHANGED <<start, end>>
    BY <1>1, <1>7 DEF Q!PushStore, RingTypes
  <2>3. Queued' = Queued
    BY <2>2 DEF Queued, Q!Slots
  <2>4. ASSUME NEW i \in Queued PROVE buffer'[i] # Null \/ Pushing(i)'
    <3>1. CASE i = idx[t]
      BY <1>1, <2>1, <2>2, <3>1 DEF RingTypes, Q!RingTypeOK
    <3>2. CASE i # idx[t]
      <4>1. buffer'[i] = buffer[i]
        BY <1>1, <2>2, <3>2 DEF RingTypes, Q!RingTypeOK, Queued
      <4>2. Pushing(i) => Pushing(i)'
        BY <1>2, <3>2 DEF Pushing, Storing
      <4>3. QED BY <4>1, <4>2
    <3>3. QED BY <3>1, <3>2
  <2>5. QED BY <2>3, <2>4
<1>8. CASE Q!PopClaim(t)
  <2>1. /\ at[t] = "pop_cas" /\ idx[t] = start /\ buffer' = buffer
        /\ end' = end /\ start' = Q!Succ(start)
    BY <1>1, <1>8 DEF Q!PopClaim, Q!Goto, RingTypes
  <2>2. Queued' = Queued \ {start}
    BY <1>3, <1>4, <2>1, QueuedShrinks DEF InStep
  <2>3. \A i : Pushing(i) => Pushing(i)'
    BY <1>2, <2>1 DEF Pushing, Storing
  <2>4. QED BY <2>1, <2>2, <2>3
<1>9. CASE Q!PopClear(t)
  <2>1. /\ at[t] = "pop_clear" /\ buffer' = [buffer EXCEPT ![idx[t]] = Null] /\ UNCHANGED <<start, end>>
    BY <1>9 DEF Q!PopClear
  <2>2. Queued' = Queued /\ idx[t] \notin Queued
    BY <2>1 DEF Queued, Q!Slots, RingInv, ClaimInv, Removing
  <2>3. \A i : Pushing(i) => Pushing(i)'
    BY <1>2, <2>1 DEF Pushing, Storing
  <2>4. \A i \in Queued : buffer'[i] = buffer[i]
    BY <1>1, <2>1, <2>2 DEF RingTypes, Q!RingTypeOK, Queued
  <2>5. QED BY <2>2, <2>3, <2>4
<1>10. CASE RingCall(t) /\ ~Q!PushClaim(t) /\ ~Q!PushStore(t) /\ ~Q!PopClaim(t) /\ ~Q!PopClear(t)
  <2>1. UNCHANGED ringVars /\ at[t] # "push_store"
    BY <1>10 DEF RingCall, PushGoes, PopGoes, PopFails, EmptyGoes, Q!PushCall, Q!PushRoom, Q!PushRetry, Q!PushFull,
              Q!PopCall, Q!PopSome, Q!PopLoad, Q!PopEmpty, Q!PopLost, Q!EmptyCall, Q!EmptyTrue, Q!EmptyFalse,
              Q!ring, ringVars
  <2>2. \A i : Pushing(i) => Pushing(i)'
    BY <1>2, <2>1 DEF Pushing, Storing
  <2>3. QED BY <2>1, <2>2 DEF ringVars, Queued, Q!Slots
<1>11. QED BY <1>5, <1>6, <1>7, <1>8, <1>9, <1>10, StepCalls
\* Whoever pushes a job is the only one to have it.
LEMMA PusherHas ==
  ASSUME ControlInv, ValInv, HoldInv, NEW u \in Threads, at[u] \in Q!PushLabels, NEW j, j = val[u]
  PROVE  /\ j \in Jobs /\ Live(j)
         /\ \A i : ~InSlot(i, j)
         /\ \A v \in Threads : at[v] \in Q!PushLabels /\ val[v] = j => v = u
<1>1. ASSUME NEW v \in Threads, at[v] \in Q!PushLabels, val[v] = j
      PROVE  <<"worker", v>> \in Holders(j) \/ <<"adds", v>> \in Holders(j)
  <2>1. pc[v] \in {"again", "add"}
    BY <1>1 DEF ControlInv, CallInv
  <2>2. CASE pc[v] = "again"
    <3>1. v \in Workers /\ job[v] = j
      BY <1>1, <2>2 DEF ValInv, ControlInv, PartsInv, ClientLabels, Threads
    <3>2. AtWorker(v, j)
      BY <3>1 DEF AtWorker
    <3>3. QED BY <3>2, InHolders
  <2>3. CASE pc[v] = "add"
    <3>1. Adds(v, j)
      BY <1>1, <2>3 DEF ValInv, Adds
    <3>2. QED BY <3>1, InHolders
  <2>4. QED BY <2>1, <2>2, <2>3
<1>2. j \in Jobs
  BY DEF ControlInv, CallInv
<1>3. PICK h : h \in Holders(j) /\ (h = <<"worker", u>> \/ h = <<"adds", u>>)
  BY <1>1
<1>4. Live(j) /\ Holders(j) = {h}
  BY <1>2, <1>3 DEF HoldInv
<1>5. ASSUME NEW i, InSlot(i, j) PROVE FALSE
  <2>1. <<"slot", i>> \in Holders(j)
    BY <1>5, InHolders
  <2>2. h = <<"slot", i>>
    BY <1>4, <2>1
  <2>3. QED BY <1>3, <2>2
<1>6. ASSUME NEW v \in Threads, at[v] \in Q!PushLabels, val[v] = j PROVE v = u
  <2>1. h = <<"worker", v>> \/ h = <<"adds", v>>
    BY <1>1, <1>4, <1>6
  <2>2. QED BY <1>3, <2>1
<1>7. QED BY <1>2, <1>4, <1>5, <1>6

\* A push that has not claimed its slot finds room: the slots between start and end all
\* have another job.
LEMMA RoomLeft ==
  ASSUME ControlInv, RingInv, FullInv, ValInv, HoldInv, BuiltInv, Room,
         NEW t \in Threads, at[t] = "push_cas"
  PROVE  Q!Succ(end) # start
<1> SUFFICES ASSUME Q!Succ(end) = start PROVE FALSE
  OBVIOUS
<1>1. start \in Q!Slots /\ end \in Q!Slots /\ buffer \in [Q!Slots -> Jobs \cup {Null}]
  BY DEF ControlInv, TypeInv, Q!RingTypeOK
<1>2. PICK e : e = end
  OBVIOUS
<1>3. \A i \in Q!Slots : i # e => i \in Queued
  <2>1. PICK s : s = start
    OBVIOUS
  <2>2. \A i \in Q!Slots : i # e => Away(s, i) < Away(s, e)
    <3>1. s = IF e + 1 = QueueSize THEN 0 ELSE e + 1
      BY <1>1, <1>2, <2>1, SuccIs
    <3>2. QueueSize \in Nat /\ s \in 0 .. QueueSize - 1 /\ e \in 0 .. QueueSize - 1
      BY <1>1, <1>2, <2>1, QueueAssumption DEF Q!Slots
    <3>3. \A i \in 0 .. QueueSize - 1 : i # e => Away(s, i) < Away(s, e)
      BY <3>1, <3>2 DEF Away
    <3>4. QED BY <3>3 DEF Q!Slots
  <2>3. QED BY <1>1, <1>2, <2>1, <2>2, QueuedBetween DEF Between
<1> DEFINE In(i, j) == \/ InSlot(i, j)
                       \/ \E u \in Threads : at[u] = "push_store" /\ idx[u] = i /\ val[u] = j
                       \/ i = e /\ j = val[t]
<1>4. ASSUME NEW i \in Q!Slots PROVE \E j \in Pushed : In(i, j)
  <2>1. PICK j \in Jobs : In(i, j)
    <3>1. CASE i = e
      <4>1. val[t] \in Jobs
        BY DEF ControlInv, CallInv, Q!PushLabels
      <4>2. QED BY <3>1, <4>1
    <3>2. CASE i # e /\ buffer[i] # Null
      <4>1. buffer[i] \in Jobs
        BY <1>1, <3>2
      <4>2. QED BY <4>1 DEF InSlot
    <3>3. CASE i # e /\ Pushing(i)
      <4>1. PICK u \in Threads : at[u] = "push_store" /\ idx[u] = i
        BY <3>3 DEF Pushing, Storing
      <4>2. val[u] \in Jobs
        BY <4>1 DEF ControlInv, CallInv, Q!PushLabels
      <4>3. QED BY <4>1, <4>2
    <3>4. QED BY <1>3, <3>1, <3>2, <3>3 DEF FullInv
  <2>2. Live(j)
    <3>1. CASE InSlot(i, j)
      <4>1. <<"slot", i>> \in Holders(j)
        BY <3>1, InHolders
      <4>2. QED BY <4>1 DEF HoldInv
    <3>2. CASE ~InSlot(i, j)
      BY <2>1, <3>2, PusherHas DEF Q!PushLabels
    <3>3. QED BY <3>1, <3>2
  <2>3. QED BY <2>1, <2>2 DEF BuiltInv, Live
<1>5. ASSUME NEW i \in Q!Slots, NEW k \in Q!Slots, NEW j \in Jobs, In(i, j), In(k, j)
      PROVE  i = k
  <2>1. CASE InSlot(i, j) /\ InSlot(k, j)
    <3>1. <<"slot", i>> \in Holders(j) /\ <<"slot", k>> \in Holders(j)
      BY <2>1, InHolders
    <3>2. <<"slot", i>> = <<"slot", k>>
      BY <3>1 DEF HoldInv
    <3>3. QED BY <3>2
  <2>2. CASE ~InSlot(i, j)
    <3>1. PICK u \in Threads : /\ at[u] \in Q!PushLabels /\ val[u] = j
                               /\ (at[u] = "push_store" /\ idx[u] = i) \/ (u = t /\ i = e)
      BY <1>5, <2>2 DEF Q!PushLabels
    <3>2. ~InSlot(k, j) /\ \A v \in Threads : at[v] \in Q!PushLabels /\ val[v] = j => v = u
      BY <3>1, PusherHas
    <3>3. QED BY <1>5, <3>1, <3>2 DEF Q!PushLabels
  <2>3. CASE ~InSlot(k, j)
    <3>1. PICK u \in Threads : /\ at[u] \in Q!PushLabels /\ val[u] = j
                               /\ (at[u] = "push_store" /\ idx[u] = k) \/ (u = t /\ k = e)
      BY <1>5, <2>3 DEF Q!PushLabels
    <3>2. ~InSlot(i, j) /\ \A v \in Threads : at[v] \in Q!PushLabels /\ val[v] = j => v = u
      BY <3>1, PusherHas
    <3>3. QED BY <1>5, <3>1, <3>2 DEF Q!PushLabels
  <2>4. QED BY <2>1, <2>2, <2>3
<1>6. Pushed \subseteq Jobs
  BY DEF Pushed
<1> HIDE DEF In
<1> DEFINE f == [i \in Q!Slots |-> CHOOSE j \in Pushed : In(i, j)]
<1>7. f \in [Q!Slots -> Pushed] /\ \A i \in Q!Slots : In(i, f[i])
  BY <1>4
<1>8. IsFiniteSet(Q!Slots) /\ Cardinality(Q!Slots) = QueueSize
  <2>1. 0 \in Int /\ QueueSize - 1 \in Int
    BY QueueAssumption
  <2>2. QED BY <2>1, QueueAssumption, FS_Interval DEF Q!Slots
<1> HIDE DEF f
<1>9. \E i, k \in Q!Slots : i # k /\ f[i] = f[k]
  <2>1. IsFiniteSet(Pushed) /\ Cardinality(Pushed) < Cardinality(Q!Slots)
    BY <1>8 DEF Room
  <2>2. QED BY <1>7, <1>8, <2>1, FS_PigeonHole
<1>10. PICK i \in Q!Slots, k \in Q!Slots : i # k /\ f[i] = f[k]
  BY <1>9
<1>11. f[i] \in Jobs /\ In(i, f[i]) /\ In(k, f[i])
  BY <1>6, <1>7, <1>10
<1>12. PICK j \in Jobs : In(i, j) /\ In(k, j)
  BY <1>11
<1>13. QED BY <1>5, <1>10, <1>12
\* One worker is the only one to pop: nobody moves start under its feet.
SoloInv == OneWorker =>
             \A t \in Threads : /\ at[t] \in {"pop_check", "pop_cas"} => idx[t] = start
                                /\ at[t] = "pop_cas" => start # end
                                /\ Removing(t) => start = Q!Succ(idx[t])

\* A client that pushes alone moves end alone.
AgainInv == NoGates => \A w \in Workers : pc[w] # "again"
ClientInv == ClientPushes =>
               /\ \A w \in Workers : pc[w] # "add"
               /\ at[Main] \in {"push_check", "push_cas"} => idx[Main] = end
               /\ at[Main] = "push_cas" => Q!Succ(end) # start

LEMMA SoloStep ==
  ASSUME ControlInv, InStep, SoloInv, NEW t \in Threads, Step(t)
  PROVE  SoloInv'
<1> USE DEF ControlInv, TypeInv
<1>1. SUFFICES ASSUME OneWorker', NEW u \in Threads
               PROVE  /\ at'[u] \in {"pop_check", "pop_cas"} => idx'[u] = start'
                      /\ at'[u] = "pop_cas" => start' # end'
                      /\ at'[u] \in {"pop_load", "pop_clear"} => start' = Q!Succ(idx'[u])
  BY DEF SoloInv, Removing, Q!Succ
<1>2. OneWorker
  BY <1>1 DEF OneWorker, Crew, Step
<1>3. \A v \in Threads : at[v] \in Q!PopLabels => v \in Crew
  BY DEF CallInv, PartsInv, ClientLabels, Threads
<1>4. \A v \in Threads : at[v] \in Q!PopLabels /\ at[t] \in Q!PopLabels => v = t
  BY <1>2, <1>3 DEF OneWorker
<1>5. /\ at[u] \in {"pop_check", "pop_cas"} => idx[u] = start
      /\ at[u] = "pop_cas" => start # end
      /\ at[u] \in {"pop_load", "pop_clear"} => start = Q!Succ(idx[u])
  BY <1>2 DEF SoloInv, Removing
<1>6. CASE u # t
  <2>1. at'[u] = at[u] /\ idx'[u] = idx[u]
    BY <1>6, OthersStay
  <2>2. CASE at[u] \notin Q!PopLabels
    BY <2>1, <2>2 DEF Q!PopLabels
  <2>3. CASE at[u] \in Q!PopLabels
    <3>1. start' = start /\ (end' = end \/ (end' = Q!Succ(end) /\ Q!Succ(end) # start))
      <4>1. CASE UNCHANGED <<ringVars, calls>>
        BY <4>1 DEF ringVars
      <4>2. CASE RingCall(t)
        <5>1. ~Q!PopClaim(t)
          BY <1>4, <1>6, <2>3 DEF Q!PopClaim, Q!PopLabels
        <5>2. CASE Q!PushClaim(t)
          BY <5>2 DEF Q!PushClaim, InStep
        <5>3. CASE ~Q!PushClaim(t)
          BY <4>2, <5>1, <5>3 DEF RingCall, PushGoes, PopGoes, PopFails, EmptyGoes, Q!ring, Q!PushCall, Q!PushRoom,
                Q!PushRetry, Q!PushFull, Q!PushStore, Q!PopCall, Q!PopSome, Q!PopLoad, Q!PopClear,
                Q!PopEmpty, Q!PopLost, Q!EmptyCall, Q!EmptyTrue, Q!EmptyFalse
        <5>4. QED BY <5>2, <5>3
      <4>3. QED BY <4>1, <4>2, StepCalls
    <3>2. QED BY <1>5, <2>1, <3>1
  <2>4. QED BY <2>2, <2>3
<1>7. CASE u = t
  <2>1. CASE UNCHANGED <<ringVars, calls>>
    BY <1>5, <2>1 DEF ringVars, calls
  <2>2. CASE Q!PopClaim(t)
    BY <1>7, <2>2 DEF Q!PopClaim, Q!Goto
  <2>3. CASE Q!PopCall(t) \/ Q!PopSome(t) \/ Q!PopLoad(t)
    BY <1>5, <1>7, <2>3 DEF Q!PopCall, Q!PopSome, Q!PopLoad, Q!Goto, Q!ring
  <2>4. CASE RingCall(t) /\ ~PopGoes(t)
    <3>1. at'[t] \notin Q!PopLabels
      BY <2>4 DEF RingCall, PushGoes, PopFails, EmptyGoes, Q!Goto, Q!Return, Q!PushCall, Q!PushRoom, Q!PopLabels,
            Q!PushRetry, Q!PushClaim, Q!PushFull, Q!PushStore, Q!PopClear,
            Q!PopEmpty, Q!PopLost, Q!EmptyCall, Q!EmptyTrue, Q!EmptyFalse
    <3>2. QED BY <1>7, <3>1 DEF Q!PopLabels
  <2>5. QED BY <2>1, <2>2, <2>3, <2>4, StepCalls DEF PopGoes
<1>8. QED BY <1>6, <1>7

LEMMA AgainStep ==
  ASSUME ControlInv, AgainInv, NEW t \in Threads, Step(t)
  PROVE  AgainInv'
<1> USE DEF ControlInv, TypeInv
<1>1. SUFFICES ASSUME NoGates', NEW w \in Workers, pc'[w] = "again" PROVE FALSE
  BY DEF AgainInv
<1>2. NoGates
  BY <1>1 DEF NoGates, Gate, Step
<1>3. pc[w] # "again" /\ w \in Threads
  BY <1>2 DEF AgainInv, Threads
<1>4. w = t
  BY <1>1, <1>3, OthersStay
<1>5. MissGate(t)
  BY <1>1, <1>3, <1>4 DEF Step, Work, Call, Jump, Stay, NextOp, Launch, CountIn, PopJob, PassGate, AddAgain, Adding,
         Finish, CountOut, Again, Boot, AddCount, Register, Op, AddNew, CheckCount, CheckEmpty, ClearAll,
         Disable, Join
<1>6. job[t] \in Jobs
  BY <1>4, <1>5 DEF MissGate, Jump, JobInv
<1>7. Gate[job[t]] # Null
  BY <1>5 DEF MissGate, Open
<1>8. QED BY <1>2, <1>6, <1>7 DEF NoGates

LEMMA ClientStep ==
  ASSUME ControlInv, InStep, AgainInv, ClientInv, NEW t \in Threads, Step(t)
  PROVE  ClientInv'
<1> USE DEF ControlInv, TypeInv
<1>1. SUFFICES ASSUME ClientPushes'
               PROVE  /\ \A w \in Workers : pc'[w] # "add"
                      /\ at'[Main] \in {"push_check", "push_cas"} => idx'[Main] = end'
                      /\ at'[Main] = "push_cas" => Q!Succ(end') # start'
  BY DEF ClientInv, Q!Succ
<1>2. ClientPushes /\ NoGates
  BY <1>1 DEF ClientPushes, NoGates, Gate, Body, Step
<1>3. ASSUME NEW w \in Workers, pc'[w] = "add" PROVE FALSE
  <2>1. pc[w] # "add" /\ w \in Threads /\ w # Main
    BY <1>2, NamesAssumption DEF ClientInv, Threads
  <2>2. w = t
    BY <1>3, <2>1, OthersStay
  <2>3. Register(t)
    BY <1>3, <2>1, <2>2 DEF Step, Work, Call, Jump, Stay, NextOp, Launch, CountIn, PopJob, PassGate, MissGate, AddAgain, Adding,
         Finish, CountOut, Again, Boot, AddCount, Op, AddNew, CheckCount, CheckEmpty, ClearAll,
         Disable, Join
  <2>4. pc[t] = "ops" /\ Op(t, "push")
    BY <2>3 DEF Register, Op
  <2>5. job[t] \in Jobs /\ Ops(t) = Body[job[t]]
    BY <2>1, <2>2, <2>4 DEF JobInv, Ops
  <2>6. PICK n, a, j : n = next[t] /\ a = job[t] /\ j = Arg(t).job
    OBVIOUS
  <2>7. n \in DOMAIN Ops(t) /\ j \in Jobs
    BY <2>4, <2>6, OpsOK, ArgOK, PushArg DEF Op, Arg
  <2>8. PushAt(Body[a], n, j)
    BY <2>4, <2>5, <2>6, <2>7 DEF PushAt, Op, Arg
  <2>9. QED BY <1>2, <2>5, <2>6, <2>7, <2>8 DEF ClientPushes
<1>4. \A u \in Threads : at[u] \in Q!PushLabels => u = Main
  BY <1>2 DEF AgainInv, ClientInv, CallInv, Threads
<1>5. /\ at[Main] \in {"push_check", "push_cas"} => idx[Main] = end
      /\ at[Main] = "push_cas" => Q!Succ(end) # start
  BY <1>2 DEF ClientInv
<1>6. start \in Q!Slots /\ end \in Q!Slots
  BY DEF Q!RingTypeOK
<1>7. ASSUME start # end PROVE Q!Succ(end) # Q!Succ(start)
  <2>1. PICK s, e : s = start /\ e = end
    OBVIOUS
  <2>2. Q!Succ(e) # Q!Succ(s)
    <3>1. QueueSize \in Nat /\ s \in 0 .. QueueSize - 1 /\ e \in 0 .. QueueSize - 1 /\ s # e
      BY <1>6, <1>7, <2>1, QueueAssumption DEF Q!Slots
    <3>2. QED BY <1>6, <2>1, <3>1, SuccIs
  <2>3. QED BY <2>1, <2>2
<1>8. Main \in Threads
  BY DEF Threads
<1>9. CASE UNCHANGED <<ringVars, calls>>
  BY <1>3, <1>5, <1>9 DEF ringVars, calls
<1>10. CASE Q!PopClaim(t)
  <2>1. at[t] = "pop_cas" /\ idx[t] = start /\ start' = Q!Succ(start) /\ end' = end
    BY <1>10 DEF Q!PopClaim
  <2>2. at'[t] \notin Q!PushLabels
    BY <1>10 DEF Q!PopClaim, Q!Goto, Q!PushLabels
  <2>3. start # end
    BY <2>1 DEF InStep
  <2>4. CASE t = Main
    BY <1>3, <2>2, <2>4 DEF Q!PushLabels
  <2>5. CASE t # Main
    BY <1>3, <1>5, <1>7, <1>8, <2>1, <2>3, <2>5, OthersStay
  <2>6. QED BY <2>4, <2>5
<1>11. CASE Q!PushClaim(t)
  <2>1. t = Main /\ at'[t] = "push_store"
    BY <1>4, <1>11 DEF Q!PushClaim, Q!PushLabels, Q!Goto
  <2>2. QED BY <1>3, <2>1
<1>12. CASE RingCall(t) /\ ~Q!PopClaim(t) /\ ~Q!PushClaim(t)
  <2>1. UNCHANGED <<start, end>>
    BY <1>12 DEF RingCall, PushGoes, PopGoes, PopFails, EmptyGoes, Q!ring, Q!PushCall, Q!PushRoom,
                Q!PushRetry, Q!PushFull, Q!PushStore, Q!PopCall, Q!PopSome, Q!PopLoad, Q!PopClear,
                Q!PopEmpty, Q!PopLost, Q!EmptyCall, Q!EmptyTrue, Q!EmptyFalse
  <2>2. CASE t # Main
    BY <1>3, <1>5, <1>8, <2>1, <2>2, OthersStay
  <2>3. CASE t = Main
    <3>1. CASE \E j \in Jobs : PushGoes(t, j)
      BY <1>3, <1>5, <1>12, <2>1, <2>3, <3>1 DEF PushGoes, Q!PushCall, Q!PushRoom, Q!PushRetry, Q!PushFull, Q!Goto, Q!Return
    <3>2. CASE ~\E j \in Jobs : PushGoes(t, j)
      <4>1. at'[t] \notin {"push_check", "push_cas"}
        BY <1>12, <3>2 DEF RingCall, PopGoes, PopFails, EmptyGoes, Q!Goto, Q!Return,
                Q!PushStore, Q!PopCall, Q!PopSome, Q!PopLoad, Q!PopClear,
                Q!PopEmpty, Q!PopLost, Q!EmptyCall, Q!EmptyTrue, Q!EmptyFalse
      <4>2. QED BY <1>3, <2>3, <4>1
    <3>3. QED BY <3>1, <3>2
  <2>4. QED BY <2>2, <2>3
<1>13. QED BY <1>9, <1>10, <1>11, <1>12, StepCalls
\* Without counters every job enters the queue once, so that with room for them all the
\* ring is never lapped: end counts the pushes and start the pops.
Late(u, j) == Adds(u, j) /\ ~Storing(u)
Entered == {j \in Jobs : Built(j) /\ \A u \in Threads : ~Late(u, j)}
FlatInv == NoGates /\ Room =>
             /\ end = Cardinality(Entered) /\ start <= end
             /\ \A t \in Threads : /\ at[t] \in {"pop_check", "pop_cas"} => idx[t] <= start
                                   /\ at[t] = "pop_cas" => idx[t] < end
                                   /\ Removing(t) => idx[t] < start

\* Who is adding a job adds it alone.
LEMMA AdderHas ==
  ASSUME HoldInv, NEW j \in Jobs, NEW u, NEW v, Adds(u, j), Adds(v, j)
  PROVE  u = v /\ Built(j)
<1>1. <<"adds", u>> \in Holders(j) /\ <<"adds", v>> \in Holders(j)
  BY InHolders
<1>2. Live(j) /\ <<"adds", u>> = <<"adds", v>>
  BY <1>1 DEF HoldInv
<1>3. QED BY <1>2 DEF Live

LEMMA EnteredStep ==
  ASSUME ControlInv, ValInv, StageInv, OriginInv, HoldInv, AgainInv, NoGates, NEW t \in Threads, Step(t)
  PROVE  IF Q!PushClaim(t) THEN Entered' = Entered \cup {val[t]} /\ val[t] \in Jobs \ Entered /\ Built(val[t])
                           ELSE Entered' = Entered
<1> USE DEF ControlInv, TypeInv
<1>1. ASSUME NEW u \in Threads, u # t, NEW j PROVE Late(u, j)' <=> Late(u, j)
  BY <1>1, OthersAdd, OthersStay DEF Late, Storing
<1>2. ASSUME at[t] \in Q!PushLabels PROVE pc[t] = "add" /\ val[t] = Arg(t).job /\ val[t] \in Jobs /\ AddNew(t)
  <2>1. pc[t] = "add"
    BY <1>2 DEF CallInv, AgainInv, PartsInv, ClientLabels, Threads
  <2>2. AddNew(t)
    BY <2>1 DEF Step, Work, Call, Jump, Stay, NextOp, Launch, CountIn, PopJob, PassGate, MissGate, AddAgain, Adding,
         Finish, CountOut, Again, Boot, AddCount, Register, Op, CheckCount, CheckEmpty, ClearAll, Disable, Join
  <2>3. QED BY <1>2, <2>1, <2>2 DEF ValInv, CallInv
<1>3. CASE Q!PushClaim(t)
  <2>1. at[t] = "push_cas" /\ at'[t] = "push_store"
    BY <1>3 DEF Q!PushClaim, Q!Goto
  <2>2. PICK k \in Jobs : k = val[t] /\ k = Arg(t).job
    BY <1>2, <2>1 DEF Q!PushLabels
  <2>3. pc[t] = "add" /\ AddNew(t)
    BY <1>2, <2>1 DEF Q!PushLabels
  <2>4. place' = place
    BY <2>3 DEF AddNew, jobVars
  <2>5. \A j : (Late(t, j) => j = k) /\ ~Late(t, j)'
    BY <2>1, <2>2 DEF Late, Adds, Storing
  <2>6. Adds(t, k) /\ Late(t, k)
    BY <2>1, <2>2, <2>3 DEF Late, Adds, Storing
  <2>7. \A u \in Threads : Late(u, k) => u = t
    BY <2>6, AdderHas DEF Late
  <2>8. Built(k)
    BY <2>6, AdderHas
  <2>9. k \notin Entered
    BY <2>6 DEF Entered
  <2>10. ASSUME NEW j \in Jobs PROVE j \in Entered' <=> j \in Entered \/ j = k
    <3>1. CASE j = k
      BY <1>1, <2>4, <2>5, <2>7, <2>8, <3>1 DEF Entered, Built
    <3>2. CASE j # k
      BY <1>1, <2>4, <2>5, <3>2 DEF Entered, Built
    <3>3. QED BY <3>1, <3>2
  <2>11. Entered' = Entered \cup {k}
    <3>1. Entered \subseteq Jobs /\ Entered' \subseteq Jobs
      BY DEF Entered
    <3>2. QED BY <2>10, <3>1
  <2>12. QED BY <1>3, <2>2, <2>8, <2>9, <2>11
<1>4. CASE Constructs(t)
  <2>1. pc[t] = "ops" /\ at' = at
    BY <1>4 DEF Constructs, Register, Op, calls
  <2>2. at[t] \notin Q!PushLabels
    BY <2>1 DEF CallInv
  <2>3. PICK k \in Jobs : k = Arg(t).job /\ ~Built(k)
    BY <1>4, HoldRegister
  <2>4. Arg(t)' = Arg(t) /\ pc'[t] = "add"
    BY <1>4, OpsStay DEF Constructs, Register, NextOp, Jump
  <2>5. \A j : ~Late(t, j) /\ (Late(t, j)' <=> j = k)
    BY <2>1, <2>2, <2>3, <2>4 DEF Late, Adds, Storing, Threads, Q!PushLabels
  <2>6. \A j \in Jobs \ {k} : Built(j)' <=> Built(j)
    BY <1>4, <2>3 DEF Constructs, Built
  <2>7. ASSUME NEW j \in Jobs PROVE j \in Entered' <=> j \in Entered
    <3>1. CASE j = k
      BY <2>3, <2>5, <3>1 DEF Entered
    <3>2. CASE j # k
      BY <1>1, <2>5, <2>6, <3>2 DEF Entered
    <3>3. QED BY <3>1, <3>2
  <2>8. ~Q!PushClaim(t)
    BY <2>2 DEF Q!PushClaim, Q!PushLabels
  <2>9. Entered' = Entered
    <3>1. Entered \subseteq Jobs /\ Entered' \subseteq Jobs
      BY DEF Entered
    <3>2. QED BY <2>7, <3>1
  <2>10. QED BY <2>8, <2>9
<1>5. CASE ~Q!PushClaim(t) /\ ~Constructs(t)
  <2>1. place' = place
    <3>1. CASE Register(t)
      BY <1>5, <3>1 DEF Constructs, Register, Jump
    <3>2. CASE ~Register(t)
      BY <3>2 DEF Step, Work, Call, Launch, CountIn, PopJob, PassGate, MissGate, AddAgain, jobVars,
           Finish, CountOut, Again, Boot, AddCount, AddNew, CheckCount, CheckEmpty, ClearAll, Disable, Join
    <3>3. QED BY <3>1, <3>2
  <2>2. ASSUME NEW j PROVE Late(t, j)' <=> Late(t, j)
    <3>1. CASE Q!PushStore(t)
      <4>1. at[t] = "push_store" /\ at'[t] = "idle"
        BY <3>1 DEF Q!PushStore, Q!Return, Q!Goto
      <4>2. AddNew(t)
        BY <1>2, <4>1 DEF Q!PushLabels
      <4>3. pc'[t] = "ops"
        BY <4>1, <4>2 DEF AddNew, Adding, NextOp, Jump, Q!PushCall, Q!PushRoom, Q!PushRetry, Q!PushClaim, Q!PushFull
      <4>4. QED BY <4>1, <4>3 DEF Late, Storing, Adds
    <3>2. CASE ~Q!PushStore(t)
      <4>1. Adds(t, j)' <=> Adds(t, j)
        <5>1. CASE ~Passes(t)
          BY <5>1, OthersHold DEF Adds, Threads
        <5>2. CASE Finish(t) \/ PopJob(t)
          <6>1. pc[t] # "add" /\ pc'[t] # "add"
            BY <5>2 DEF Finish, PopJob, Jump, Stay
          <6>2. QED BY <6>1 DEF Adds
        <5>3. QED BY <1>5, <3>2, <5>1, <5>2 DEF Passes
      <4>2. Storing(t)' <=> Storing(t)
        <5>1. CASE UNCHANGED <<ringVars, calls>>
          BY <5>1 DEF calls, Storing
        <5>2. CASE RingCall(t)
          BY <1>5, <3>2, <5>2 DEF Storing, RingCall, PushGoes, PopGoes, PopFails, EmptyGoes, Q!Goto, Q!Return, Q!PushCall, Q!PushRoom,
                Q!PushRetry, Q!PushFull, Q!PopCall, Q!PopSome, Q!PopClaim, Q!PopLoad, Q!PopClear,
                Q!PopEmpty, Q!PopLost, Q!EmptyCall, Q!EmptyTrue, Q!EmptyFalse
        <5>3. QED BY <5>1, <5>2, StepCalls
      <4>3. QED BY <4>1, <4>2 DEF Late
    <3>3. QED BY <3>1, <3>2
  <2>3. \A u \in Threads : \A j : Late(u, j)' <=> Late(u, j)
    BY <1>1, <2>2
  <2>4. Entered' = Entered
    BY <2>1, <2>3 DEF Entered, Built
  <2>5. QED BY <1>5, <2>4
<1>6. QED BY <1>3, <1>4, <1>5
LEMMA EnteredBound ==
  ASSUME BuiltInv, Room
  PROVE  /\ IsFiniteSet(Entered) /\ Cardinality(Entered) \in Nat /\ Cardinality(Entered) < QueueSize
         /\ \A k \in Jobs \ Entered : Built(k) => /\ Cardinality(Entered \cup {k}) = Cardinality(Entered) + 1
                                                  /\ Cardinality(Entered) + 1 < QueueSize
<1>1. Entered \subseteq Pushed
  BY DEF Entered, BuiltInv
<1>2. IsFiniteSet(Entered) /\ Cardinality(Entered) <= Cardinality(Pushed)
  BY <1>1, FS_Subset DEF Room
<1>3. Cardinality(Entered) \in Nat /\ Cardinality(Pushed) \in Nat /\ QueueSize \in Nat
  BY <1>2, FS_CardinalityType, QueueAssumption DEF Room
<1>4. ASSUME NEW k \in Jobs \ Entered, Built(k)
      PROVE  Cardinality(Entered \cup {k}) = Cardinality(Entered) + 1 /\ Cardinality(Entered) + 1 < QueueSize
  <2>1. Entered \cup {k} \subseteq Pushed
    BY <1>1, <1>4 DEF BuiltInv
  <2>2. Cardinality(Entered \cup {k}) = Cardinality(Entered) + 1
    BY <1>2, <1>4, FS_AddElement
  <2>3. Cardinality(Entered \cup {k}) <= Cardinality(Pushed)
    BY <2>1, FS_Subset DEF Room
  <2>4. QED BY <1>3, <2>2, <2>3 DEF Room
<1>5. QED BY <1>2, <1>3, <1>4 DEF Room

LEMMA FlatStep ==
  ASSUME ControlInv, ValInv, StageInv, OriginInv, HoldInv, AgainInv, BuiltInv, FlatInv,
         NEW t \in Threads, Step(t)
  PROVE  FlatInv'
<1> USE DEF ControlInv, TypeInv
<1>1. SUFFICES ASSUME NoGates', Room'
               PROVE  /\ end' = Cardinality(Entered') /\ start' <= end'
                      /\ \A u \in Threads : /\ at'[u] \in {"pop_check", "pop_cas"} => idx'[u] <= start'
                                            /\ at'[u] = "pop_cas" => idx'[u] < end'
                                            /\ at'[u] \in {"pop_load", "pop_clear"} => idx'[u] < start'
  BY DEF FlatInv, Removing
<1>2. NoGates /\ Room
  BY <1>1 DEF NoGates, Room, Pushed, Gate, Body, Script, Step
<1>3. /\ end = Cardinality(Entered) /\ start <= end
      /\ \A u \in Threads : /\ at[u] \in {"pop_check", "pop_cas"} => idx[u] <= start
                            /\ at[u] = "pop_cas" => idx[u] < end
                            /\ at[u] \in {"pop_load", "pop_clear"} => idx[u] < start
  BY <1>2 DEF FlatInv, Removing
<1>4. QueueSize \in Nat /\ start \in 0 .. QueueSize - 1 /\ end \in 0 .. QueueSize - 1
      /\ \A u \in Threads : idx[u] \in 0 .. QueueSize - 1
  BY QueueAssumption DEF Q!RingTypeOK, Q!Slots
<1>5. \A u \in Threads \ {t} : at'[u] = at[u] /\ idx'[u] = idx[u]
  BY OthersStay
<1>6. CASE Q!PushClaim(t)
  <2>1. /\ at[t] = "push_cas" /\ end = idx[t] /\ end' = Q!Succ(end) /\ at'[t] = "push_store"
        /\ start' = start
    BY <1>6 DEF Q!PushClaim, Q!Goto
  <2>2. PICK k \in Jobs \ Entered : Built(k) /\ Entered' = Entered \cup {k}
    BY <1>2, <1>6, EnteredStep
  <2>3. Cardinality(Entered') = end + 1 /\ end + 1 < QueueSize
    BY <1>2, <1>3, <2>2, EnteredBound
  <2>4. end' = end + 1
    <3>1. PICK e : e = end
      OBVIOUS
    <3>2. Q!Succ(e) = e + 1
      BY <1>4, <2>3, <3>1, SuccIs DEF Q!Slots
    <3>3. QED BY <2>1, <3>1, <3>2
  <2>5. QED BY <1>3, <1>4, <1>5, <2>1, <2>3, <2>4
<1>7. CASE ~Q!PushClaim(t)
  <2>1. Entered' = Entered
    BY <1>2, <1>7, EnteredStep
  <2>2. CASE Q!PopClaim(t)
    <3>1. /\ at[t] = "pop_cas" /\ start = idx[t] /\ start' = Q!Succ(start) /\ at'[t] = "pop_load" /\ idx' = idx
          /\ end' = end
      BY <2>2 DEF Q!PopClaim, Q!Goto
    <3>2. start < end
      BY <1>3, <3>1
    <3>3. start' = start + 1
      <4>1. PICK s : s = start
        OBVIOUS
      <4>2. Q!Succ(s) = s + 1
        BY <1>4, <3>2, <4>1, SuccIs DEF Q!Slots
      <4>3. QED BY <3>1, <4>1, <4>2
    <3>4. end' = Cardinality(Entered') /\ start' <= end'
      BY <1>3, <1>4, <2>1, <3>1, <3>2, <3>3
    <3>5. ASSUME NEW u \in Threads
          PROVE  /\ at'[u] \in {"pop_check", "pop_cas"} => idx'[u] <= start'
                 /\ at'[u] = "pop_cas" => idx'[u] < end'
                 /\ at'[u] \in {"pop_load", "pop_clear"} => idx'[u] < start'
      <4>1. CASE u = t
        BY <1>4, <3>1, <3>3, <4>1
      <4>2. CASE u # t
        <5>1. PICK s, i : s = start /\ i = idx[u]
          OBVIOUS
        <5>2. s \in Nat /\ i \in Nat
          BY <1>4, <5>1
        <5>3. QED BY <1>3, <1>5, <3>1, <3>3, <4>2, <5>1, <5>2
      <4>3. QED BY <4>1, <4>2
    <3>6. QED BY <3>4, <3>5
  <2>3. CASE ~Q!PopClaim(t)
    <3>1. start' = start /\ end' = end
      <4>1. CASE UNCHANGED <<ringVars, calls>>
        BY <4>1 DEF ringVars
      <4>2. CASE RingCall(t)
        BY <1>7, <2>3, <4>2 DEF RingCall, PushGoes, PopGoes, PopFails, EmptyGoes, Q!ring, Q!PushCall, Q!PushRoom,
                Q!PushRetry, Q!PushFull, Q!PushStore, Q!PopCall, Q!PopSome, Q!PopLoad, Q!PopClear,
                Q!PopEmpty, Q!PopLost, Q!EmptyCall, Q!EmptyTrue, Q!EmptyFalse
      <4>3. QED BY <4>1, <4>2, StepCalls
    <3>2. /\ at'[t] \in {"pop_check", "pop_cas"} => idx'[t] <= start
          /\ at'[t] = "pop_cas" => idx'[t] < end
          /\ at'[t] \in {"pop_load", "pop_clear"} => idx'[t] < start
      <4>1. CASE UNCHANGED <<ringVars, calls>>
        BY <1>3, <4>1 DEF calls
      <4>2. CASE Q!PopCall(t) \/ Q!PopSome(t) \/ Q!PopLoad(t)
        <5>1. PICK s, e, i : s = start /\ e = end /\ i = idx[t]
          OBVIOUS
        <5>2. s \in Nat /\ e \in Nat /\ i \in Nat /\ s <= e
          BY <1>3, <1>4, <5>1
        <5>3. CASE Q!PopCall(t)
          BY <5>1, <5>2, <5>3 DEF Q!PopCall, Q!Goto
        <5>4. CASE Q!PopSome(t)
          <6>1. i <= s /\ i # e /\ at'[t] = "pop_cas" /\ idx'[t] = i
            BY <1>3, <5>1, <5>4 DEF Q!PopSome, Q!Goto
          <6>2. i < e
            BY <5>2, <6>1
          <6>3. QED BY <5>1, <6>1, <6>2
        <5>5. CASE Q!PopLoad(t)
          BY <1>3, <5>5 DEF Q!PopLoad, Q!Goto
        <5>6. QED BY <4>2, <5>3, <5>4, <5>5
      <4>3. CASE RingCall(t) /\ ~PopGoes(t)
        <5>1. at'[t] \notin {"pop_check", "pop_cas", "pop_load", "pop_clear"}
          BY <4>3 DEF RingCall, PushGoes, PopFails, EmptyGoes, Q!Goto, Q!Return, Q!PushCall, Q!PushRoom,
            Q!PushRetry, Q!PushClaim, Q!PushFull, Q!PushStore, Q!PopClear,
            Q!PopEmpty, Q!PopLost, Q!EmptyCall, Q!EmptyTrue, Q!EmptyFalse
        <5>2. QED BY <5>1
      <4>4. QED BY <2>3, <4>1, <4>2, <4>3, StepCalls DEF PopGoes
    <3>3. QED BY <1>3, <1>5, <2>1, <3>1, <3>2
  <2>4. QED BY <2>2, <2>3
<1>8. QED BY <1>6, <1>7
\* The programs the theorem is about: the queue has room for all jobs, and there is one
\* worker or no job goes back into it; or the client pushes to one worker alone.
Calm == /\ EachPushedOnce
        /\ \/ Room /\ NoGates
           \/ Room /\ OneWorker
           \/ ClientPushes /\ OneWorker

KeptInv == /\ RingInv /\ FullInv /\ ValInv /\ StageInv /\ OriginInv /\ HoldInv /\ BuiltInv
           /\ FlatInv /\ SoloInv /\ AgainInv /\ ClientInv

LEMMA CalmInStep ==
  ASSUME ControlInv, KeptInv, Calm
  PROVE  InStep
<1> USE DEF ControlInv, TypeInv, KeptInv
<1>0. start \in Q!Slots /\ end \in Q!Slots
  BY DEF Q!RingTypeOK
<1>1. CASE OneWorker /\ (Room \/ ClientPushes)
  <2>1. ASSUME NEW t \in Threads, at[t] = "push_cas" PROVE Q!Succ(end) # start
    <3>1. CASE Room
      BY <2>1, <3>1, RoomLeft
    <3>2. CASE ClientPushes
      <4>1. t = Main
        <5>1. pc[t] \in {"again", "add"}
          BY <2>1 DEF CallInv, Q!PushLabels
        <5>2. QED BY <3>2, <5>1 DEF ClientInv, AgainInv, ClientPushes, Threads
      <4>2. QED BY <2>1, <3>2, <4>1 DEF ClientInv
    <3>3. QED BY <1>1, <3>1, <3>2
  <2>2. \A u \in Threads : Removing(u) => start = Q!Succ(idx[u])
    BY <1>1 DEF SoloInv
  <2>3. \A t \in Threads : at[t] = "pop_cas" => start # end
    BY <1>1 DEF SoloInv
  <2>4. QED BY <2>1, <2>2, <2>3 DEF InStep
<1>2. CASE Room /\ NoGates
  <2>1. /\ end = Cardinality(Entered) /\ start <= end
        /\ \A t \in Threads : /\ at[t] = "pop_cas" => idx[t] < end
                              /\ Removing(t) => idx[t] < start
    BY <1>2 DEF FlatInv
  <2>2. QueueSize \in Nat /\ start \in Nat /\ end \in Nat /\ \A u \in Threads : idx[u] \in Nat
    BY <1>0, QueueAssumption DEF Q!Slots
  <2>3. ASSUME NEW t \in Threads, at[t] = "push_cas" PROVE Q!Succ(end) # start
    <3>1. pc[t] = "add"
      BY <1>2, <2>3 DEF CallInv, Q!PushLabels, AgainInv, PartsInv, ClientLabels, Threads
    <3>2. PICK k \in Jobs : k = val[t]
      BY <2>3 DEF CallInv, Q!PushLabels
    <3>3. Adds(t, k) /\ ~Storing(t)
      BY <2>3, <3>1, <3>2 DEF ValInv, Q!PushLabels, Adds, Storing
    <3>4. k \notin Entered /\ Built(k)
      BY <3>3, AdderHas DEF Entered, Late
    <3>5. end + 1 < QueueSize
      BY <1>2, <2>1, <3>4, EnteredBound
    <3>6. PICK e : e = end
      OBVIOUS
    <3>7. Q!Succ(e) = e + 1
      BY <1>0, <2>2, <3>5, <3>6, SuccIs
    <3>8. QED BY <2>1, <2>2, <3>6, <3>7
  <2>4. ASSUME NEW u \in Threads, Removing(u) PROVE idx[u] # end
    BY <2>1, <2>2, <2>4
  <2>5. ASSUME NEW t \in Threads, at[t] = "pop_cas", idx[t] = start PROVE start # end
    BY <2>1, <2>2, <2>5
  <2>6. QED BY <2>3, <2>4, <2>5 DEF InStep
<1>3. QED BY <1>1, <1>2 DEF Calm

LEMMA KeptStep ==
  ASSUME ControlInv, KeptInv, Calm, [Next]_vars
  PROVE  KeptInv'
<1>1. ASSUME NEW t \in Threads, Step(t) PROVE KeptInv'
  <2>1. InStep
    BY CalmInStep
  <2>2. EachPushedOnce
    BY DEF Calm
  <2> USE DEF KeptInv
  <2>3. RingInv' /\ FullInv' /\ ValInv' /\ StageInv' /\ HoldInv' /\ BuiltInv'
    BY <1>1, <2>1, RingKept, FullStep, ValStep, StageStep, HoldStep, BuiltStep
  <2>4. OriginInv'
    BY <1>1, <2>2, OriginStep
  <2>5. FlatInv' /\ SoloInv' /\ AgainInv' /\ ClientInv'
    BY <1>1, <2>1, FlatStep, SoloStep, AgainStep, ClientStep
  <2>6. QED BY <2>3, <2>4, <2>5
<1>2. CASE UNCHANGED vars
  <2> USE <1>2 DEF KeptInv, vars, ringVars, calls, arena, flags, jobVars
  <2>1. Queued' = Queued /\ (\A i : Pushing(i)' <=> Pushing(i)) /\ (\A i : Popping(i)' <=> Popping(i))
    BY DEF Queued, Q!Slots, Pushing, Popping, Storing, Removing
  <2>2. RingInv' /\ FullInv'
    BY <2>1 DEF RingInv, ClaimInv, FillInv, FullInv, Storing, Removing, Q!Slots
  <2>3. \A t : Arg(t)' = Arg(t) /\ Ops(t)' = Ops(t)
    BY DEF Arg, Ops, Script, Body
  <2>4. \A j : (Live(j)' <=> Live(j)) /\ (Built(j)' <=> Built(j)) /\ Holders(j)' = Holders(j)
    BY <2>3 DEF Live, Built, Holders, Q!Slots
  <2>5. ValInv' /\ StageInv' /\ HoldInv'
    BY <2>3, <2>4 DEF ValInv, StageInv, HoldInv, Runs, Q!PushLabels
  <2>6. OriginInv' /\ BuiltInv'
    BY <2>3, <2>4 DEF OriginInv, BuiltInv, Runs, ToCome, Body, Pushed, Script
  <2>7. Entered' = Entered
    BY <2>3, <2>4 DEF Entered, Late, Adds, Storing, Threads
  <2>8. FlatInv' /\ SoloInv' /\ AgainInv' /\ ClientInv'
    BY <2>7 DEF FlatInv, SoloInv, AgainInv, ClientInv, Removing, NoGates, OneWorker, ClientPushes, Room, Pushed,
         Gate, Crew, Body, Script, Q!Succ
  <2>9. QED BY <2>2, <2>5, <2>6, <2>8
<1>3. QED BY <1>1, <1>2 DEF Next

LEMMA KeptInit == Init => KeptInv
<1> SUFFICES ASSUME Init PROVE KeptInv
  OBVIOUS
<1>1. ControlInv
  BY ControlInit
<1>2. /\ buffer = [i \in Q!Slots |-> Null] /\ start = 0 /\ end = 0
      /\ \A t \in Threads : at[t] = "idle" /\ idx[t] = 0 /\ pc[t] \in {"boot", "launch", "done"}
      /\ \A w \in Workers : w \in Threads
      /\ \A j \in Jobs : place[j] = Null /\ begun[j] = 0 /\ ran[j] = 0
      /\ \A w \in Workers : job[w] = Null
  BY DEF Init, Q!RingInit, Threads
<1>3. Queued = {}
  <2>1. \A i \in Q!Slots : Away(0, i) >= 0 /\ Away(0, 0) = 0
    BY QueueAssumption DEF Away, Q!Slots
  <2>2. 0 \in Q!Slots
    BY QueueAssumption DEF Q!Slots
  <2>3. \A i \in Q!Slots : Away(0, i) \in Nat
    BY QueueAssumption DEF Away, Q!Slots
  <2>4. Between(0, 0) = {}
    BY <2>1, <2>3 DEF Between
  <2>5. QED BY <1>2, <2>2, <2>4, QueuedBetween
<1>4. RingInv /\ FullInv
  BY <1>2, <1>3 DEF RingInv, ClaimInv, FillInv, FullInv, Storing, Removing, Pushing
<1>5. ValInv /\ StageInv
  BY <1>2 DEF ValInv, StageInv, Runs, Q!PushLabels
<1>6. OriginInv /\ BuiltInv
  BY <1>2 DEF OriginInv, BuiltInv, Built
<1>7. HoldInv
  <2>1. ASSUME NEW j \in Jobs, NEW x PROVE x \notin Holders(j)
    BY <1>2, NamesAssumption, InHolders DEF InSlot, AtWorker, Adds
  <2>2. QED BY <1>2, <2>1 DEF HoldInv, Live, Built
<1>8. FlatInv
  <2>1. Entered = {}
    BY <1>2 DEF Entered, Built
  <2>2. QED BY <1>2, <2>1, FS_EmptySet DEF FlatInv, Removing
<1>9. SoloInv /\ AgainInv /\ ClientInv
  BY <1>2 DEF SoloInv, AgainInv, ClientInv, Removing, Threads
<1>10. QED BY <1>4, <1>5, <1>6, <1>7, <1>8, <1>9 DEF KeptInv

\* A job that has memory and has not run is in exactly one place: in a slot, with the
\* worker that popped it, or with the thread that is adding it.  The program has to keep
\* the ring in step: a ring that is lapped under a thread's feet loses jobs
\* (worker.h:57-79, 100-121, atomic_queue.h:47-96).
THEOREM JobsHaveOneHolder == Spec => [](Calm => OneHolder)
<1>1. Init => ControlInv /\ (Calm => KeptInv)
  BY ControlInit, KeptInit
<1>2. ControlInv /\ (Calm => KeptInv) /\ [Next]_vars => (ControlInv /\ (Calm => KeptInv))'
  <2> SUFFICES ASSUME ControlInv, Calm => KeptInv, [Next]_vars, Calm' PROVE KeptInv'
    BY ControlStep
  <2>1. program' = program
    BY DEF Next, Step, vars
  <2>2. Calm
    BY <2>1 DEF Calm, EachPushedOnce, Room, NoGates, OneWorker, ClientPushes, Pushed, Gate, Crew, Body, Script
  <2>3. QED BY <2>2, KeptStep
<1>3. ControlInv /\ (Calm => KeptInv) => (Calm => OneHolder)
  <2> SUFFICES ASSUME KeptInv, NEW j \in Jobs, Live(j) PROVE Cardinality(Holders(j)) = 1
    BY DEF OneHolder
  <2>1. PICK x : Holders(j) = {x}
    BY DEF KeptInv, HoldInv
  <2>2. QED BY <2>1, FS_Singleton
<1>4. QED BY <1>1, <1>2, <1>3, PTL DEF Spec
-----------------------------------------------------------------------------
(* checkComplete(): what an empty queue says. *)

\* The two loads of empty() agree, and the client is past the operations it has done.
EmptyInv == NoGates => /\ at[Main] = "empty_check" /\ idx[Main] = end => start = end
                       /\ at[Main] = "empty_check" /\ Room => idx[Main] <= start
JoinInv == pc[Main] = "join" => Script[next[Main]] = Destroy
DoneInv == NoGates => \A j \in CoveredJobs : \A i \in Queued : buffer[i] # j

LEMMA JoinStep ==
  ASSUME ControlInv, JoinInv, NEW t \in Threads, Step(t)
  PROVE  JoinInv'
<1> USE DEF ControlInv, TypeInv
<1>0. Main \in Threads /\ Script' = Script
  BY DEF Threads, Step, Script
<1>1. SUFFICES ASSUME pc'[Main] = "join" PROVE Script[next'[Main]] = Destroy
  BY <1>0 DEF JoinInv
<1>2. CASE t # Main
  BY <1>0, <1>1, <1>2, OthersStay DEF JoinInv
<1>3. CASE t = Main
  <2>1. Disable(t)
    BY <1>1, <1>3 DEF Step, Work, Call, Jump, Stay, NextOp, Launch, CountIn, PopJob, PassGate, MissGate, AddAgain,
         Adding, Finish, CountOut, Again, Boot, AddCount, Register, Op, AddNew, CheckCount, CheckEmpty, ClearAll, Join
  <2>2. next' = next /\ pc[Main] = "ops" /\ next[Main] <= Len(Ops(Main)) /\ Arg(Main).op = "destroy"
    BY <1>3, <2>1 DEF Disable, Op, Arg
  <2>3. Arg(Main) \in ClientOps
    BY <1>0, <2>2, ArgOK
  <2>4. Arg(Main) = Destroy
    <3>1. PICK o \in ClientOps : o = Arg(Main)
      BY <2>3
    <3>2. o.op = "destroy" /\ Await.op # "destroy" /\ Clear.op # "destroy"
      BY <2>2, <3>1 DEF Await, Clear
    <3>3. o \notin JobOps
      BY <3>2, OnlyJobOps
    <3>4. o = Destroy
      BY <3>2, <3>3 DEF ClientOps
    <3>5. QED BY <3>1, <3>4
  <2>5. QED BY <2>2, <2>4 DEF Arg, Ops
<1>4. QED BY <1>2, <1>3

LEMMA EmptyStep ==
  ASSUME ControlInv, InStep, ValInv, StageInv, OriginInv, HoldInv, BuiltInv, FlatInv, FlatInv', AgainInv, ClientInv,
         Room \/ ClientPushes, EmptyInv, NEW t \in Threads, Step(t)
  PROVE  EmptyInv'
<1> USE DEF ControlInv, TypeInv
<1>0. Main \in Threads
  BY DEF Threads
<1>1. SUFFICES ASSUME NoGates', at'[Main] = "empty_check"
               PROVE  /\ idx'[Main] = end' => start' = end'
                      /\ Room' => idx'[Main] <= start'
  BY DEF EmptyInv
<1>2. NoGates /\ (Room' <=> Room)
  BY <1>1 DEF NoGates, Room, Pushed, Gate, Body, Script, Step
<1>3. QueueSize \in Nat /\ start \in Nat /\ end \in Nat /\ start < QueueSize /\ \A u \in Threads : idx[u] \in Nat
  BY QueueAssumption DEF Q!RingTypeOK, Q!Slots
<1>4. CASE t = Main /\ at[Main] # "empty_check"
  <2>1. Q!EmptyCall(t)
    <3>1. ~UNCHANGED <<ringVars, calls>>
      BY <1>1, <1>4 DEF calls
    <3>2. RingCall(t)
      BY <3>1, StepCalls
    <3>3. QED BY <1>0, <1>1, <1>4, <3>2 DEF RingCall, PushGoes, PopGoes, PopFails, EmptyGoes, Q!Goto, Q!Return, Q!PushCall, Q!PushRoom,
                Q!PushRetry, Q!PushClaim, Q!PushFull, Q!PushStore, Q!PopCall, Q!PopSome, Q!PopClaim, Q!PopLoad,
                Q!PopEmpty, Q!PopLost, Q!PopClear, Q!EmptyTrue, Q!EmptyFalse
  <2>2. idx'[Main] = start /\ start' = start /\ end' = end
    BY <1>0, <1>4, <2>1 DEF Q!EmptyCall, Q!ring
  <2>3. QED BY <1>3, <2>2
<1>5. CASE at[Main] = "empty_check"
  <2>1. (idx[Main] = end => start = end) /\ (Room => idx[Main] <= start)
    BY <1>2, <1>5 DEF EmptyInv
  <2>2. idx'[Main] = idx[Main]
    <3>1. CASE t # Main
      BY <1>0, <3>1, OthersStay
    <3>2. CASE t = Main
      <4>1. CASE UNCHANGED <<ringVars, calls>>
        BY <4>1 DEF calls
      <4>2. CASE RingCall(t)
        BY <1>0, <1>1, <1>5, <3>2, <4>2 DEF RingCall, PushGoes, PopGoes, PopFails, EmptyGoes, Q!Goto, Q!Return, Q!PushCall, Q!PushRoom,
                Q!PushRetry, Q!PushClaim, Q!PushFull, Q!PushStore, Q!PopCall, Q!PopSome, Q!PopClaim, Q!PopLoad,
                Q!PopEmpty, Q!PopLost, Q!PopClear, Q!EmptyCall, Q!EmptyTrue, Q!EmptyFalse
      <4>3. QED BY <4>1, <4>2, StepCalls
    <3>3. QED BY <3>1, <3>2
  <2>3. CASE Q!PopClaim(t)
    <3>1. start # end /\ end' = end /\ start' = Q!Succ(start)
      BY <2>3 DEF Q!PopClaim, InStep
    <3>2. Room => start' = start + 1
      <4> SUFFICES ASSUME Room PROVE start' = start + 1
        OBVIOUS
      <4>1. start < end /\ end < QueueSize
        BY <1>2, <1>3, <3>1, QueueAssumption DEF FlatInv, Q!RingTypeOK, Q!Slots
      <4>2. PICK s : s = start
        OBVIOUS
      <4>3. s \in Q!Slots
        BY <4>2 DEF Q!RingTypeOK
      <4>4. s + 1 # QueueSize
        BY <1>3, <4>1, <4>2
      <4>5. Q!Succ(s) = s + 1
        BY <4>3, <4>4, SuccIs
      <4>6. QED BY <3>1, <4>2, <4>5
    <3>3. Room => idx[Main] <= start + 1
      BY <1>0, <1>3, <2>1
    <3>4. QED BY <1>2, <2>1, <2>2, <3>1, <3>2, <3>3
  <2>4. CASE Q!PushClaim(t)
    <3>1. /\ at[t] = "push_cas" /\ start' = start
      BY <2>4 DEF Q!PushClaim
    <3>2. t # Main
      BY <1>5, <3>1
    <3>3. ~ClientPushes
      <4>1. pc[t] \in {"again", "add"} /\ t \in Workers
        BY <3>1, <3>2 DEF CallInv, Q!PushLabels, Threads
      <4>2. QED BY <1>2, <4>1 DEF AgainInv, ClientInv
    <3>4. Room
      BY <3>3
    <3>5. end' = end + 1
      <4>1. PICK k \in Jobs \ Entered : Built(k) /\ Entered' = Entered \cup {k}
        BY <1>2, <2>4, EnteredStep
      <4>2. Cardinality(Entered') = Cardinality(Entered) + 1
        BY <3>4, <4>1, EnteredBound
      <4>3. end = Cardinality(Entered) /\ end' = Cardinality(Entered')
        BY <1>1, <1>2, <3>4 DEF FlatInv
      <4>4. QED BY <4>2, <4>3
    <3>6. start <= end /\ idx[Main] <= start
      BY <1>2, <2>1, <3>4 DEF FlatInv
    <3>7. idx[Main] # end + 1
      BY <1>0, <1>3, <3>6
    <3>8. QED BY <2>1, <2>2, <3>1, <3>5, <3>6, <3>7
  <2>5. CASE ~Q!PopClaim(t) /\ ~Q!PushClaim(t)
    <3>1. start' = start /\ end' = end
      <4>1. CASE UNCHANGED <<ringVars, calls>>
        BY <4>1 DEF ringVars
      <4>2. CASE RingCall(t)
        BY <2>5, <4>2 DEF RingCall, PushGoes, PopGoes, PopFails, EmptyGoes, Q!ring, Q!PushCall, Q!PushRoom,
                Q!PushRetry, Q!PushFull, Q!PushStore, Q!PopCall, Q!PopSome, Q!PopLoad, Q!PopClear,
                Q!PopEmpty, Q!PopLost, Q!EmptyCall, Q!EmptyTrue, Q!EmptyFalse
      <4>3. QED BY <4>1, <4>2, StepCalls
    <3>2. QED BY <1>2, <2>1, <2>2, <3>1
  <2>6. QED BY <2>3, <2>4, <2>5
<1>6. CASE t # Main /\ at[Main] # "empty_check"
  BY <1>0, <1>1, <1>6, OthersStay
<1>7. QED BY <1>4, <1>5, <1>6
\* The client gets past the wait when it has found the queue empty; and a job that has
\* been waited for is not pushed again.
LEMMA DoneStep ==
  ASSUME ControlInv, RingInv, InStep, ValInv, HoldInv, AgainInv, EmptyInv, JoinInv, DoneInv, EachPushedOnce,
         NEW t \in Threads, Step(t)
  PROVE  DoneInv'
<1> USE DEF ControlInv, TypeInv
<1>0. /\ Main \in Threads /\ Script' = Script /\ program \in Programs
      /\ start \in Q!Slots /\ end \in Q!Slots /\ (Q!Slots)' = Q!Slots /\ buffer \in [Q!Slots -> Jobs \cup {Null}]
      /\ next[Main] \in Nat \ {0}
  BY DEF Threads, Step, Script, Q!RingTypeOK, Q!Slots
<1>1. SUFFICES ASSUME NoGates', NEW j \in CoveredJobs', NEW i \in Queued', buffer'[i] = j PROVE FALSE
  BY DEF DoneInv
<1>2. NoGates
  BY <1>1 DEF NoGates, Gate, Step
<1>3. Script \in Seq(ClientOps)
  BY <1>0, ProgramsAssumption DEF Script
<1>4. PICK m \in DOMAIN Script, k \in DOMAIN Script :
        /\ Script[m].op = "push" /\ Script[m].job = j /\ Script[k] = Await /\ m < k /\ k < next'[Main]
  BY <1>0, <1>1 DEF CoveredJobs, Covered
<1>5. m \in Nat /\ k \in Nat /\ j \in Jobs /\ PushAt(Script, m, j)
  <2>1. Script[m] \in ClientOps
    BY <1>3, <1>4
  <2>2. PICK o \in ClientOps : o = Script[m]
    BY <2>1
  <2>3. o.job \in Jobs
    BY <1>4, <2>2, PushArg
  <2>4. QED BY <1>3, <1>4, <2>2, <2>3 DEF PushAt
<1>6. CASE k >= next[Main]
  <2>1. t = Main /\ next'[Main] = next[Main] + 1 /\ k = next[Main]
    <3>1. t = Main
      BY <1>0, <1>4, <1>5, <1>6, OthersStay
    <3>2. ~PassGate(t) /\ ~Finish(t)
      BY <3>1, NamesAssumption DEF Finish, PassGate, Jump, PartsInv, ClientLabels
    <3>3. next'[Main] = next[Main] \/ next'[Main] = next[Main] + 1
      BY <3>1, <3>2, RunsStay
    <3>4. QED BY <1>0, <1>4, <1>5, <1>6, <3>1, <3>3
  <2>2. Script[next[Main]].op = "await" /\ Ops(t) = Script
    BY <1>4, <2>1 DEF Await, Ops
  <2>3. CheckEmpty(t)
    <3>1. ~AddNew(t)
      <4>1. pc[t] = "add" => Arg(t).op = "push"
        BY DEF PushInv
      <4>2. QED BY <2>1, <2>2, <4>1 DEF AddNew, Adding, Stay, NextOp, Jump, Arg
    <3>2. ~Join(t)
      BY <2>1, <2>2 DEF Join, NextOp, Jump, JoinInv, Destroy
    <3>3. ~PassGate(t)
      BY <2>1 DEF PassGate, Jump, PartsInv, ClientLabels
    <3>4. QED BY <1>0, <2>1, <2>2, <3>1, <3>2, <3>3 DEF Step, Work, Call, Launch, CountIn, PopJob, MissGate, AddAgain,
         Finish, CountOut, Again, Boot, AddCount, Register, Op, CheckCount, ClearAll, Disable
  <2>4. Q!EmptyTrue(t)
    BY <1>0, <2>1, <2>3 DEF CheckEmpty
  <2>5. start = end /\ start' = start /\ end' = end
    BY <1>2, <2>1, <2>4 DEF Q!EmptyTrue, Q!ring, EmptyInv
  <2>6. Queued' = {}
    <3>1. PICK s : s = start
      OBVIOUS
    <3>2. Queued = Between(s, s)
      BY <1>0, <2>5, <3>1, QueuedBetween
    <3>3. \A n \in Q!Slots : Away(s, n) >= 0 /\ Away(s, s) = 0
      BY <1>0, <3>1, QueueAssumption DEF Away, Q!Slots
    <3>4. \A n \in Q!Slots : Away(s, n) \in Int
      BY <1>0, <3>1, QueueAssumption DEF Away, Q!Slots
    <3>5. Between(s, s) = {}
      BY <3>3, <3>4 DEF Between
    <3>6. QED BY <2>5, <3>2, <3>5 DEF Queued, Q!Slots
  <2>7. QED BY <1>1, <2>6
<1>7. CASE k < next[Main]
  <2>1. j \in CoveredJobs
    BY <1>4, <1>7 DEF CoveredJobs, Covered
  <2>2. \A n \in Queued : buffer[n] # j
    BY <1>2, <2>1 DEF DoneInv
  <2>3. CASE UNCHANGED <<ringVars, calls>>
    BY <1>1, <2>2, <2>3 DEF ringVars, Queued, Q!Slots
  <2>4. CASE Q!PushClaim(t)
    <3>1. at[t] = "push_cas" /\ idx[t] = end /\ buffer' = buffer /\ end' = Q!Succ(end) /\ start' = start
      BY <2>4 DEF Q!PushClaim
    <3>2. Q!Succ(end) # start /\ \A u \in Threads : Removing(u) => idx[u] # end
      BY <3>1 DEF InStep
    <3>3. Queued' = Queued \cup {end} /\ end \notin Queued
      BY <1>0, <3>1, <3>2, SuccSlot, QueuedGrows
    <3>4. PICK e : e = end
      OBVIOUS
    <3>5. buffer[e] = Null
      BY <1>0, <3>2, <3>3, <3>4 DEF RingInv, FillInv, Popping
    <3>6. QED BY <1>1, <1>5, <2>2, <3>1, <3>3, <3>4, <3>5, NamesAssumption
  <2>5. CASE Q!PushStore(t)
    <3>1. at[t] = "push_store" /\ buffer' = [buffer EXCEPT ![idx[t]] = val[t]] /\ Queued' = Queued
      BY <2>5 DEF Q!PushStore, Queued, Q!Slots
    <3>2. i \in Q!Slots
      BY <1>0, <1>1 DEF Queued
    <3>3. val[t] = j
      BY <1>0, <1>1, <2>2, <3>1, <3>2
    <3>4. pc[t] = "add"
      BY <1>2, <3>1 DEF CallInv, Q!PushLabels, AgainInv, PartsInv, ClientLabels, Threads
    <3>5. j = Arg(t).job /\ Arg(t).op = "push" /\ next[t] <= Len(Ops(t))
      BY <3>1, <3>3, <3>4 DEF ValInv, Q!PushLabels, PushInv
    <3>6. PICK n : n = next[t]
      OBVIOUS
    <3>7. PushAt(Ops(t), n, j)
      <4>1. n \in DOMAIN Ops(t)
        BY <3>4, <3>5, <3>6, OpsOK
      <4>2. QED BY <3>5, <3>6, <4>1 DEF PushAt, Arg
    <3>8. CASE t = Main
      <4>1. n = m
        BY <1>5, <3>7, <3>8 DEF EachPushedOnce, Ops
      <4>2. QED BY <1>0, <1>4, <1>5, <1>7, <3>6, <3>8, <4>1
    <3>9. CASE t # Main
      <4>1. PICK a \in Jobs : a = job[t]
        BY <3>4, <3>9 DEF JobInv, Threads
      <4>2. PushAt(Body[a], n, j)
        BY <3>7, <3>9, <4>1 DEF Ops
      <4>3. QED BY <1>5, <4>2 DEF EachPushedOnce
    <3>10. QED BY <3>8, <3>9
  <2>6. CASE Q!PopClaim(t)
    <3>1. at[t] = "pop_cas" /\ idx[t] = start /\ buffer' = buffer /\ start' = Q!Succ(start) /\ end' = end
      BY <2>6 DEF Q!PopClaim
    <3>2. Queued' = Queued \ {start}
      BY <1>0, <3>1, SuccSlot, QueuedShrinks DEF InStep
    <3>3. QED BY <1>1, <2>2, <3>1, <3>2
  <2>7. CASE Q!PopClear(t)
    <3>1. buffer' = [buffer EXCEPT ![idx[t]] = Null] /\ Queued' = Queued
      BY <2>7 DEF Q!PopClear, Queued, Q!Slots
    <3>2. i \in Q!Slots
      BY <1>0, <1>1 DEF Queued
    <3>3. QED BY <1>0, <1>1, <1>5, <2>2, <3>1, <3>2, NamesAssumption
  <2>8. CASE RingCall(t) /\ ~Q!PushClaim(t) /\ ~Q!PushStore(t) /\ ~Q!PopClaim(t) /\ ~Q!PopClear(t)
    <3>1. UNCHANGED ringVars
      BY <2>8 DEF RingCall, PushGoes, PopGoes, PopFails, EmptyGoes, Q!PushCall, Q!PushRoom, Q!PushRetry, Q!PushFull,
              Q!PopCall, Q!PopSome, Q!PopLoad, Q!PopEmpty, Q!PopLost, Q!EmptyCall, Q!EmptyTrue, Q!EmptyFalse,
              Q!ring, ringVars
    <3>2. QED BY <1>1, <2>2, <3>1 DEF ringVars, Queued, Q!Slots
  <2>9. QED BY <2>3, <2>4, <2>5, <2>6, <2>7, <2>8, StepCalls
<1>8. QED BY <1>0, <1>5, <1>6, <1>7
CheckInv == KeptInv /\ EmptyInv /\ DoneInv

\* When checkComplete() has returned true, the jobs pushed before it are out of the queue,
\* although empty() loads its two sides one after the other while workers pop and push
\* (worker.h:152, atomic_queue.h:98-101).
THEOREM CompleteIsTaken == Spec => [](Calm => CompleteMeansTaken)
<1>1. Init => ControlInv /\ JoinInv /\ (Calm => CheckInv)
  <2> SUFFICES ASSUME Init PROVE JoinInv /\ EmptyInv /\ DoneInv
    BY ControlInit, KeptInit DEF CheckInv
  <2>1. Main \in Threads /\ pc[Main] = "boot" /\ at[Main] = "idle" /\ buffer = [i \in Q!Slots |-> Null]
    <3>1. Main \in Threads /\ buffer = [i \in Q!Slots |-> Null]
      BY DEF Threads, Init, Q!RingInit
    <3>2. Main \notin Crew
      BY ControlInit, CrewFinite, NamesAssumption DEF ControlInv
    <3>3. at[Main] = "idle" /\ pc[Main] = "boot"
      BY <3>1, <3>2 DEF Init
    <3>4. QED BY <3>1, <3>3
  <2>2. \A j \in CoveredJobs : j \in Jobs
    <3> SUFFICES ASSUME NEW i \in DOMAIN Script, Script[i].op = "push" PROVE Script[i].job \in Jobs
      BY DEF CoveredJobs
    <3>1. Script \in Seq(ClientOps)
      BY ControlInit, ProgramsAssumption DEF ControlInv, TypeInv, Script
    <3>2. PICK o \in ClientOps : o = Script[i]
      BY <3>1
    <3>3. QED BY <3>2, PushArg
  <2>3. QED BY <2>1, <2>2, NamesAssumption DEF JoinInv, EmptyInv, DoneInv, Queued
<1>2. ControlInv /\ JoinInv /\ (Calm => CheckInv) /\ [Next]_vars => (ControlInv /\ JoinInv /\ (Calm => CheckInv))'
  <2> SUFFICES ASSUME ControlInv, JoinInv, Calm => CheckInv, [Next]_vars
               PROVE  JoinInv' /\ (Calm' => CheckInv')
    BY ControlStep
  <2>1. ASSUME NEW t \in Threads, Step(t) PROVE JoinInv'
    BY <2>1, JoinStep
  <2>2. CASE UNCHANGED vars
    <3> USE <2>2 DEF vars, ringVars, calls
    <3>1. JoinInv' /\ (KeptInv /\ Calm => KeptInv')
      BY KeptStep DEF JoinInv, Script
    <3>2. EmptyInv => EmptyInv'
      BY DEF EmptyInv, NoGates, Gate, Room, Pushed, Script, Body
    <3>3. DoneInv => DoneInv'
      BY DEF DoneInv, NoGates, Gate, CoveredJobs, Covered, Script, Queued, Q!Slots
    <3>4. Calm' => Calm
      BY DEF Calm, EachPushedOnce, Room, NoGates, OneWorker, ClientPushes, Pushed, Gate, Crew, Body, Script
    <3>5. QED BY <3>1, <3>2, <3>3, <3>4 DEF CheckInv
  <2>3. ASSUME NEW t \in Threads, Step(t), Calm' PROVE CheckInv'
    <3>1. Calm
      BY <2>3 DEF Calm, EachPushedOnce, Room, NoGates, OneWorker, ClientPushes, Pushed, Gate, Crew, Body, Script, Step
    <3>2. InStep
      BY <3>1, CalmInStep DEF CheckInv
    <3>3. KeptInv' /\ FlatInv'
      BY <2>3, <3>1, KeptStep DEF CheckInv, KeptInv, Next
    <3>4. EmptyInv'
      BY <2>3, <3>1, <3>2, <3>3, EmptyStep DEF CheckInv, KeptInv, Calm
    <3>5. DoneInv'
      BY <2>3, <3>1, <3>2, DoneStep DEF CheckInv, KeptInv, Calm
    <3>6. QED BY <3>3, <3>4, <3>5 DEF CheckInv
  <2>4. QED BY <2>1, <2>2, <2>3 DEF Next
<1>3. CheckInv => CompleteMeansTaken
  BY DEF CheckInv, DoneInv, CompleteMeansTaken, NoGates
<1>4. (Calm => CheckInv) => (Calm => CompleteMeansTaken)
  BY <1>3
<1>5. QED BY <1>1, <1>2, <1>4, PTL DEF Spec

-----------------------------------------------------------------------------
(* The workers implement the pool. *)

\* The operations that lower counter c, and those of them that have not been executed.
AllDue(c) == {d \in Jobs \X Nat : d[2] \in Lowerings(d[1]) /\ Body[d[1]][d[2]].counter = c}
Due(c) == {d \in AllDue(c) : ~Past(d[1], d[2])}

\* The programs that count down: a counter starts with no less than the number of
\* operations that lower it, each of them by one; a job lowers one counter only, and the
\* client none.  So do ecnt of game_test.cpp:195-231 and the counter of
\* thread_test.cpp:47-63.
CountsDown ==
  /\ \A k \in Jobs : \A i \in Lowerings(k) : Body[k][i].by = -1
  /\ \A k \in Jobs : \A i, l \in Lowerings(k) : Body[k][i].counter = Body[k][l].counter
  /\ \A i \in DOMAIN Script : Script[i].op = "add" => Script[i].by >= 0
  /\ \A c \in Counters : IsFiniteSet(AllDue(c)) /\ Cardinality(AllDue(c)) <= program.count[c]

\* A counter is at least the number of the operations that are still to lower it.
DueInv == \A c \in Counters : Cardinality(Due(c)) <= count[c]

LEMMA LoweringIs ==
  ASSUME ControlInv, NEW k \in Jobs, NEW i \in Lowerings(k)
  PROVE  /\ i \in Nat \ {0} /\ i <= Len(Body[k]) /\ Len(Body[k]) \in Nat
         /\ Body[k][i].op = "add" /\ Body[k][i].counter \in Counters /\ Body[k][i].by \in Int
<1>1. Body[k] \in Seq(JobOps)
  BY ProgramsAssumption DEF ControlInv, TypeInv, Body
<1>2. i \in 1 .. Len(Body[k]) /\ Len(Body[k]) \in Nat /\ Body[k][i].op = "add"
  BY <1>1 DEF Lowerings
<1>3. PICK o \in JobOps : o = Body[k][i]
  BY <1>1, <1>2
<1>4. o.counter \in Counters /\ o.by \in Int
  BY <1>2, <1>3, AddArg DEF ClientOps
<1>5. QED BY <1>2, <1>3, <1>4

\* What lowers a counter is executed by AddCount alone ...
LEMMA PastKept ==
  ASSUME ControlInv, NEW t \in Threads, Step(t), ~AddCount(t), NEW k \in Jobs, NEW i \in Lowerings(k)
  PROVE  Past(k, i)' <=> Past(k, i)
<1> USE DEF ControlInv
<1>0. i \in Nat \ {0} /\ i <= Len(Body[k]) /\ Len(Body[k]) \in Nat /\ Body[k][i].op = "add"
  BY LoweringIs
<1> DEFINE At(w) == job[w] = k /\ pc[w] \in {"ops", "add"} /\ next[w] > i
<1>1. \A w \in Workers : w # t => (At(w)' <=> At(w))
  BY OthersStay DEF Threads
<1>2. CASE PassGate(t)
  <2>1. ran' = ran /\ pc[t] = "gate" /\ next'[t] = 1
    BY <1>2 DEF PassGate, Jump, TypeInv
  <2>2. ~At(t) /\ ~At(t)'
    BY <1>0, <2>1
  <2>3. \A w \in Workers : At(w)' <=> At(w)
    BY <1>1, <2>2
  <2>4. QED BY <2>1, <2>3 DEF Past
<1>3. CASE Finish(t)
  <2>1. PICK k0 \in Jobs : k0 = job[t]
    BY <1>3, OpsOK DEF Finish, Jump
  <2>2. /\ ran' = [ran EXCEPT ![k0] = @ + 1] /\ job' = [job EXCEPT ![t] = Null]
        /\ pc[t] = "ops" /\ t # Main /\ t \in Workers /\ next[t] > Len(Ops(t))
    BY <1>3, <2>1 DEF Finish, Jump, Threads
  <2>3. CASE k = k0
    <3>1. ran'[k] > 0
      BY <2>2, <2>3 DEF TypeInv
    <3>2. next[t] > i
      BY <1>0, <2>1, <2>2, <2>3 DEF Ops, TypeInv
    <3>3. At(t)
      BY <2>1, <2>2, <2>3, <3>2
    <3>4. QED BY <2>2, <3>1, <3>3 DEF Past
  <2>4. CASE k # k0
    <3>1. ran'[k] = ran[k]
      BY <2>2, <2>4 DEF TypeInv
    <3>2. ~At(t) /\ ~At(t)'
      BY <2>1, <2>2, <2>4, NamesAssumption DEF TypeInv
    <3>3. \A w \in Workers : At(w)' <=> At(w)
      BY <1>1, <3>2
    <3>4. QED BY <3>1, <3>3 DEF Past
  <2>5. QED BY <2>3, <2>4
<1>4. CASE ~PassGate(t) /\ ~Finish(t)
  <2>1. /\ ran' = ran
        /\ \A w \in Workers : (Runs(w)' <=> Runs(w)) /\ (Runs(w) => job'[w] = job[w])
        /\ next'[t] = next[t] \/ next'[t] = next[t] + 1
    BY <1>4, RunsStay
  <2>2. ASSUME t \in Workers, Runs(t), job[t] = k, next'[t] = next[t] + 1
        PROVE  next[t] <= Len(Body[k]) /\ Body[k][next[t]].op = "push"
    <3>1. t # Main /\ Ops(t) = Body[k]
      BY <2>2, NamesAssumption DEF Ops
    <3>2. next'[t] # next[t] /\ pc[t] \in {"ops", "add"}
      BY <2>2 DEF TypeInv, Runs
    <3>3. Register(t) \/ AddNew(t)
      BY <1>4, <3>1, <3>2, OnlyClient DEF Step, Work, Call, Launch, CountIn, PopJob, MissGate, AddAgain, Adding,
         CountOut, Again, Boot, Join, CheckEmpty, Jump, Stay, NextOp
    <3>4. CASE Register(t)
      BY <3>1, <3>4 DEF Register, Op
    <3>5. CASE AddNew(t)
      <4>1. pc[t] = "add"
        BY <3>5 DEF AddNew, Adding, Stay, Jump, NextOp
      <4>2. QED BY <3>1, <4>1 DEF PushInv, Arg
    <3>6. QED BY <3>3, <3>4, <3>5
  <2>3. t \in Workers => (At(t)' <=> At(t))
    <3> SUFFICES ASSUME t \in Workers PROVE At(t)' <=> At(t)
      OBVIOUS
    <3>1. (Runs(t)' <=> Runs(t)) /\ (Runs(t) => job'[t] = job[t])
      BY <2>1
    <3>2. CASE ~(Runs(t) /\ job[t] = k)
      BY <3>1, <3>2 DEF Runs
    <3>3. CASE Runs(t) /\ job[t] = k
      <4>1. next'[t] > i <=> next[t] > i
        <5>1. CASE next'[t] = next[t]
          BY <5>1
        <5>2. CASE next'[t] = next[t] + 1
          <6>1. next[t] # i
            BY <1>0, <2>2, <3>3, <5>2
          <6>2. next[t] \in Nat
            BY DEF TypeInv
          <6>3. QED BY <1>0, <5>2, <6>1, <6>2
        <5>3. QED BY <2>1, <5>1, <5>2
      <4>2. QED BY <3>1, <3>3, <4>1 DEF Runs
    <3>4. QED BY <3>2, <3>3
  <2>4. \A w \in Workers : At(w)' <=> At(w)
    BY <1>1, <2>3
  <2>5. QED BY <2>1, <2>4 DEF Past
<1>5. QED BY <1>2, <1>3, <1>4

\* ... by the worker that runs the job.
LEMMA PastCounted ==
  ASSUME ControlInv, NEW t \in Threads, Step(t), AddCount(t), NEW k \in Jobs, NEW i \in Lowerings(k)
  PROVE  Past(k, i)' <=> Past(k, i) \/ (AtWorker(t, k) /\ next[t] = i)
<1> USE DEF ControlInv
<1>0. i \in Nat \ {0}
  BY LoweringIs
<1> DEFINE At(w) == job[w] = k /\ pc[w] \in {"ops", "add"} /\ next[w] > i
<1>1. ran' = ran /\ job' = job /\ pc[t] = "ops" /\ pc'[t] = "ops" /\ next'[t] = next[t] + 1 /\ next[t] \in Nat
  BY DEF AddCount, NextOp, Jump, Op, TypeInv
<1>2. \A w \in Workers : w # t => (At(w)' <=> At(w))
  BY OthersStay DEF Threads
<1>3. At(t)' <=> At(t) \/ (job[t] = k /\ next[t] = i)
  <2>1. next[t] + 1 > i <=> next[t] > i \/ next[t] = i
    BY <1>0, <1>1
  <2>2. QED BY <1>1, <2>1
<1>4. (\E w \in Workers : At(w)') <=> (\E w \in Workers : At(w)) \/ (AtWorker(t, k) /\ next[t] = i)
  BY <1>2, <1>3 DEF AtWorker
<1>5. QED BY <1>1, <1>4 DEF Past

LEMMA DueStep ==
  ASSUME ControlInv, StageInv, HoldInv, CountsDown, DueInv, NEW t \in Threads, Step(t)
  PROVE  DueInv'
<1> USE DEF ControlInv
<1>0. Body' = Body /\ (\A k : Lowerings(k)' = Lowerings(k)) /\ \A c : AllDue(c)' = AllDue(c)
  BY DEF Step, Body, Lowerings, AllDue
<1>1. ASSUME NEW c \in Counters
      PROVE  /\ IsFiniteSet(Due(c)) /\ Cardinality(Due(c)) \in Nat
             /\ \A d \in AllDue(c) : d[1] \in Jobs /\ d[2] \in Lowerings(d[1]) /\ d = <<d[1], d[2]>>
                                  /\ Body[d[1]][d[2]].counter = c
  <2>1. Due(c) \in SUBSET AllDue(c) /\ IsFiniteSet(AllDue(c))
    BY DEF Due, CountsDown
  <2>2. IsFiniteSet(Due(c))
    BY <2>1, FS_Subset
  <2>3. QED BY <2>2, FS_CardinalityType DEF AllDue
<1>2. ASSUME NEW c \in Counters,
             \A k \in Jobs : \A i \in Lowerings(k) : Body[k][i].counter = c => (Past(k, i)' <=> Past(k, i))
      PROVE  Due(c)' = Due(c)
  <2>1. ASSUME NEW d \in AllDue(c) PROVE Past(d[1], d[2])' <=> Past(d[1], d[2])
    <3>1. PICK k, i : k \in Jobs /\ i \in Lowerings(k) /\ d = <<k, i>> /\ d[1] = k /\ d[2] = i /\ Body[k][i].counter = c
      BY <1>1
    <3>2. QED BY <1>2, <3>1
  <2>2. QED BY <1>0, <2>1 DEF Due
<1>3. CASE ~AddCount(t)
  <2>1. count' = count
    BY <1>3 DEF Step, Work, Call, Launch, CountIn, PopJob, PassGate, MissGate, AddAgain, Finish, jobVars,
         CountOut, Again, Boot, Register, AddNew, CheckCount, CheckEmpty, ClearAll, Disable, Join
  <2>2. \A c \in Counters : Due(c)' = Due(c)
    BY <1>2, <1>3, PastKept
  <2>3. QED BY <2>1, <2>2 DEF DueInv
<1>4. CASE AddCount(t)
  <2>1. PICK o \in ClientOps : o = Arg(t)
    BY <1>4, ArgOK DEF AddCount, Op, Arg
  <2>2. /\ o.op = "add" /\ o.counter \in Counters /\ o.by \in Int
        /\ pc[t] = "ops" /\ next[t] \in DOMAIN Ops(t) /\ o = Ops(t)[next[t]]
    BY <1>4, <2>1, OpsOK, AddArg DEF AddCount, Op, Arg, TypeInv
  <2>3. PICK c0 \in Counters, b \in Int : c0 = o.counter /\ b = o.by
    BY <2>2
  <2>4. /\ count'[c0] = count[c0] + b /\ count[c0] \in Int
        /\ \A c \in Counters : c # c0 => count'[c] = count[c]
    BY <1>4, <2>1, <2>3 DEF AddCount, TypeInv
  <2>5. CASE b >= 0
    <3>1. ASSUME NEW k \in Jobs, NEW i \in Lowerings(k) PROVE ~(AtWorker(t, k) /\ next[t] = i)
      <4> SUFFICES ASSUME AtWorker(t, k), next[t] = i PROVE FALSE
        OBVIOUS
      <4>1. Body[k][i] = o
        BY <2>2, NamesAssumption DEF AtWorker, Ops
      <4>2. QED BY <2>3, <2>5, <4>1 DEF Lowerings
    <3>2. \A c \in Counters : Due(c)' = Due(c)
      BY <1>2, <1>4, <3>1, PastCounted
    <3>3. count'[c0] >= count[c0]
      BY <2>4, <2>5
    <3>4. ASSUME NEW c \in Counters PROVE Cardinality(Due(c))' <= count'[c]
      <4>1. Cardinality(Due(c)) <= count[c] /\ count[c] \in Int /\ Cardinality(Due(c)) \in Nat
        BY <1>1 DEF DueInv, TypeInv
      <4>2. count'[c] >= count[c] /\ count'[c] \in Int
        BY <2>4, <3>3, <4>1
      <4>3. QED BY <3>2, <4>1, <4>2
    <3>5. QED BY <3>4 DEF DueInv
  <2>6. CASE ~(b >= 0)
    <3>1. t # Main /\ t \in Workers
      BY <2>2, <2>3, <2>6 DEF CountsDown, Ops, Threads
    <3>2. PICK j \in Jobs : j = job[t]
      BY <2>2, <3>1, OpsOK
    <3>3. PICK i : i = next[t]
      OBVIOUS
    <3>4. i \in Lowerings(j) /\ Body[j][i] = o
      BY <2>2, <2>3, <2>6, <3>1, <3>2, <3>3 DEF Lowerings, Ops
    <3>5. b = -1
      BY <2>3, <3>4 DEF CountsDown
    <3>6. ~Past(j, i)
      <4>1. AtWorker(t, j)
        BY <3>1, <3>2 DEF AtWorker
      <4>2. Live(j) /\ \A w \in Workers : job[w] = j => w = t
        BY <4>1, OneWorkerHas DEF AtWorker
      <4>3. ~(next[t] > i)
        BY <3>3 DEF TypeInv
      <4>4. QED BY <4>2, <4>3 DEF Past, Live
    <3>7. ASSUME NEW k \in Jobs, NEW l \in Lowerings(k)
          PROVE  Past(k, l)' <=> Past(k, l) \/ (k = j /\ l = i)
      BY <1>4, <3>1, <3>2, <3>3, PastCounted DEF AtWorker
    <3>8. Due(c0)' = Due(c0) \ {<<j, i>>}
      <4>1. ASSUME NEW d \in AllDue(c0) PROVE Past(d[1], d[2])' <=> Past(d[1], d[2]) \/ d = <<j, i>>
        <5>1. PICK k, l : k \in Jobs /\ l \in Lowerings(k) /\ d = <<k, l>> /\ d[1] = k /\ d[2] = l
          BY <1>1
        <5>2. QED BY <3>7, <5>1
      <4>2. QED BY <1>0, <4>1 DEF Due
    <3>9. <<j, i>> \in Due(c0)
      <4>1. i \in Nat
        BY <3>4, LoweringIs
      <4>2. QED BY <2>3, <3>4, <3>6, <4>1 DEF Due, AllDue
    <3>10. Cardinality(Due(c0))' = Cardinality(Due(c0)) - 1
      BY <1>1, <3>8, <3>9, FS_RemoveElement
    <3>11. ASSUME NEW c \in Counters, c # c0 PROVE Due(c)' = Due(c)
      <4>1. ASSUME NEW k \in Jobs, NEW l \in Lowerings(k), Body[k][l].counter = c
            PROVE  Past(k, l)' <=> Past(k, l)
        BY <2>3, <3>4, <3>7, <3>11, <4>1
      <4>2. QED BY <1>2, <4>1
    <3>12. ASSUME NEW c \in Counters PROVE Cardinality(Due(c))' <= count'[c]
      <4>1. Cardinality(Due(c)) <= count[c] /\ count[c] \in Int /\ Cardinality(Due(c)) \in Nat
        BY <1>1 DEF DueInv, TypeInv
      <4>2. CASE c = c0
        BY <2>4, <3>5, <3>10, <4>1, <4>2
      <4>3. CASE c # c0
        BY <2>4, <3>11, <4>1, <4>3
      <4>4. QED BY <4>2, <4>3
    <3>13. QED BY <3>12 DEF DueInv
  <2>7. QED BY <2>5, <2>6
<1>5. QED BY <1>3, <1>4

\* When the counter of a job is down, whatever lowers it has been executed.
LEMMA OpenReleases ==
  ASSUME ControlInv, CountsDown, DueInv, NEW j \in Jobs, Gate[j] # Null, Open(j),
         NEW k \in Jobs, Lowers(k, Gate[j])
  PROVE  \A i \in Lowerings(k) : Past(k, i)
<1>1. PICK c \in Counters : c = Gate[j]
  BY ProgramsAssumption DEF ControlInv, TypeInv, Gate
<1>2. count[c] <= 0 /\ count[c] \in Int
  BY <1>1 DEF Open, ControlInv, TypeInv
<1>3. Due(c) \in SUBSET AllDue(c) /\ IsFiniteSet(AllDue(c))
  BY DEF Due, CountsDown
<1>4. IsFiniteSet(Due(c))
  BY <1>3, FS_Subset
<1>5. Cardinality(Due(c)) \in Nat /\ Cardinality(Due(c)) <= count[c]
  BY <1>4, FS_CardinalityType DEF DueInv
<1>6. Due(c) = {}
  <2>1. Cardinality(Due(c)) = 0
    BY <1>2, <1>5
  <2>2. QED BY <1>4, <2>1, FS_EmptySet
<1>7. ASSUME NEW i \in Lowerings(k) PROVE Past(k, i)
  <2>1. Body[k][i].counter = c
    BY <1>1 DEF Lowers, CountsDown
  <2>2. i \in Nat
    BY LoweringIs
  <2>3. <<k, i>> \in AllDue(c)
    BY <2>1, <2>2 DEF AllDue
  <2>4. QED BY <1>6, <2>3 DEF Due
<1>8. QED BY <1>7

\* Every step of the workers and of the client is a step of the pool or changes nothing
\* the pool knows of.
Released == {k \in Jobs : Lowerings(k) # {} /\ \A i \in Lowerings(k) : Past(k, i)}
Needed(j) == {k \in Jobs : Gate[j] # Null /\ Lowers(k, Gate[j])}

LEMMA StagesKept ==
  ASSUME NEW j \in Jobs, begun'[j] = begun[j], ran'[j] = ran[j], place'[j] = place[j]
  PROVE  Stage(j)' = Stage(j)
BY DEF Stage, Built

LEMMA PoolStep ==
  ASSUME ControlInv, StageInv, OriginInv, HoldInv, NoGates \/ (CountsDown /\ DueInv),
         NEW t \in Threads, Step(t)
  PROVE  [Pool!Next]_(Pool!vars)
<1> USE DEF ControlInv
<1> DEFINE S == [j \in Jobs |-> Stage(j)]
           N == [j \in Jobs |-> Needed(j)]
<1>0. N' = N
  BY DEF Step, Needed, Gate, Lowers, Lowerings, Body
<1>1. ~AddCount(t) => Released' = Released
  <2> SUFFICES ASSUME ~AddCount(t) PROVE Released' = Released
    OBVIOUS
  <2>1. \A k \in Jobs : Lowerings(k)' = Lowerings(k)
    BY DEF Step, Lowerings, Body
  <2>2. \A k \in Jobs : \A i \in Lowerings(k) : Past(k, i)' <=> Past(k, i)
    BY PastKept
  <2>3. QED BY <2>1, <2>2 DEF Released
<1>2. CASE Constructs(t)
  <2>1. PICK j \in Jobs : j = Arg(t).job /\ ~Built(j) /\ Live(j)'
    BY <1>2, HoldRegister
  <2>2. /\ place' = [place EXCEPT ![j] = [at |-> cidx[t], size |-> want[t]]]
        /\ begun' = begun /\ ran' = ran /\ ~AddCount(t)
    <3>1. place' = [place EXCEPT ![j] = [at |-> cidx[t], size |-> want[t]]] /\ Register(t)
      BY <1>2, <2>1 DEF Constructs
    <3>2. Op(t, "push") /\ begun' = begun /\ ran' = ran
      BY <3>1 DEF Register
    <3>3. ~AddCount(t)
      BY <3>2 DEF AddCount, Op
    <3>4. QED BY <3>1, <3>2, <3>3
  <2>3. begun[j] = 0 /\ ran[j] = 0
    <3>1. \A w \in Workers : job[w] # j
      BY <2>1, OneWorkerHas DEF AtWorker, Live
    <3>2. QED BY <2>1, <3>1 DEF StageInv
  <2>4. Stage(j) = "new" /\ Stage(j)' = "waiting"
    BY <2>1, <2>2, <2>3 DEF Stage, Live
  <2>5. \A k \in Jobs \ {j} : Stage(k)' = Stage(k)
    BY <2>2, StagesKept DEF TypeInv
  <2>6. S[j] = "new" /\ S' = [S EXCEPT ![j] = "waiting"]
    BY <2>4, <2>5
  <2>7. Pool!Accept(j)
    BY <1>0, <1>1, <2>2, <2>6 DEF Pool!Accept, Pool!Move, Needed, Released
  <2>8. QED BY <2>7 DEF Pool!Next
<1>3. CASE PassGate(t)
  <2>1. PICK j \in Jobs : j = job[t] /\ begun[j] = 0 /\ ran[j] = 0
    BY <1>3, NotBegun
  <2>2. /\ begun' = [begun EXCEPT ![j] = @ + 1] /\ ran' = ran /\ place' = place
        /\ Open(j) /\ pc[t] = "gate" /\ next'[t] = 1
    BY <1>3, <2>1 DEF PassGate, Jump, TypeInv
  <2>3. ~AddCount(t)
    BY <2>2 DEF AddCount, Op
  <2>4. Built(j)
    <3>1. t \in Workers
      BY <1>3, NotBegun
    <3>2. AtWorker(t, j)
      BY <2>1, <3>1 DEF AtWorker
    <3>3. QED BY <3>2, OneWorkerHas DEF Live
  <2>5. Stage(j) = "waiting" /\ Stage(j)' = "running"
    <3>1. begun'[j] = 1 /\ ran'[j] = 0
      BY <2>1, <2>2 DEF TypeInv
    <3>2. QED BY <2>1, <2>4, <3>1 DEF Stage
  <2>6. \A k \in Jobs \ {j} : Stage(k)' = Stage(k)
    BY <2>2, StagesKept DEF TypeInv
  <2>7. S[j] = "waiting" /\ S' = [S EXCEPT ![j] = "running"]
    BY <2>5, <2>6
  <2>8. Needed(j) \subseteq Released
    <3>1. ASSUME NEW k \in Jobs, Gate[j] # Null, Lowers(k, Gate[j]) PROVE k \in Released
      <4>1. CountsDown /\ DueInv
        BY <3>1 DEF NoGates
      <4>2. \A i \in Lowerings(k) : Past(k, i)
        BY <2>2, <3>1, <4>1, OpenReleases
      <4>3. QED BY <3>1, <4>2 DEF Released, Lowers
    <3>2. QED BY <3>1 DEF Needed
  <2>9. N[j] \subseteq Released
    BY <2>8
  <2>10. Pool!Start(j)
    BY <1>0, <1>1, <2>3, <2>7, <2>9 DEF Pool!Start, Pool!Move, Needed, Released
  <2>11. QED BY <2>10 DEF Pool!Next
<1>4. CASE Finish(t)
  <2>1. PICK j \in Jobs : j = job[t] /\ Live(j)
    BY <1>4, HoldFinish
  <2>2. /\ ran' = [ran EXCEPT ![j] = @ + 1] /\ begun' = begun /\ place' = place
        /\ pc[t] = "ops" /\ t \in Workers /\ next[t] > Len(Ops(t))
    BY <1>4, <2>1 DEF Finish, Jump, Threads
  <2>3. ~AddCount(t)
    <3>1. next[t] \in Nat /\ Len(Ops(t)) \in Nat
      BY <2>2, OpsOK DEF TypeInv
    <3>2. QED BY <2>2, <3>1 DEF AddCount, Op
  <2>4. begun[j] = 1 /\ ran[j] = 0
    BY <2>1, <2>2 DEF Live, StageInv, Runs
  <2>5. Stage(j) = "running" /\ Stage(j)' = "ended"
    <3>1. begun'[j] = 1 /\ ran'[j] = 1
      BY <2>2, <2>4 DEF TypeInv
    <3>2. QED BY <2>4, <3>1 DEF Stage
  <2>6. \A k \in Jobs \ {j} : Stage(k)' = Stage(k)
    BY <2>2, StagesKept DEF TypeInv
  <2>7. S[j] = "running" /\ S' = [S EXCEPT ![j] = "ended"]
    BY <2>5, <2>6
  <2>8. Pool!End(j)
    BY <1>0, <1>1, <2>3, <2>7 DEF Pool!End, Pool!Move, Needed, Released
  <2>9. QED BY <2>8 DEF Pool!Next
<1>5. CASE AddCount(t)
  <2>1. begun' = begun /\ ran' = ran /\ place' = place /\ pc[t] = "ops"
    BY <1>5 DEF AddCount, Op
  <2>2. S' = S
    BY <2>1, StagesKept
  <2>3. \A k \in Jobs : Lowerings(k)' = Lowerings(k)
    BY DEF Step, Lowerings, Body
  <2>4. ASSUME NEW k \in Jobs, ~AtWorker(t, k), NEW i \in Lowerings(k) PROVE Past(k, i)' <=> Past(k, i)
    BY <1>5, <2>4, PastCounted
  <2>5. CASE t = Main
    <3>1. \A k \in Jobs : ~AtWorker(t, k)
      BY <2>5, NamesAssumption DEF AtWorker
    <3>2. Released' = Released
      BY <2>3, <2>4, <3>1 DEF Released
    <3>3. QED BY <1>0, <2>2, <3>2 DEF Pool!vars, Needed, Released
  <2>6. CASE t # Main
    <3>1. t \in Workers
      BY <2>6 DEF Threads
    <3>2. PICK j \in Jobs : j = job[t]
      BY <2>1, <2>6, OpsOK
    <3>3. \A k \in Jobs \ {j} : ~AtWorker(t, k)
      BY <3>2 DEF AtWorker
    <3>4. Released' \ {j} = Released \ {j}
      BY <2>3, <2>4, <3>3 DEF Released
    <3>5. \A i \in Lowerings(j) : Past(j, i) => Past(j, i)'
      BY <1>5, PastCounted
    <3>6. j \in Released => j \in Released'
      BY <2>3, <3>5 DEF Released
    <3>7. Released' = Released \/ Released' = Released \cup {j}
      BY <3>2, <3>4, <3>6
    <3>8. Stage(j) = "running"
      <4>1. AtWorker(t, j)
        BY <3>1, <3>2 DEF AtWorker
      <4>2. Live(j)
        BY <4>1, OneWorkerHas
      <4>3. begun[j] = 1 /\ ran[j] = 0
        BY <2>1, <3>1, <3>2, <4>2 DEF Live, StageInv, Runs
      <4>4. QED BY <4>3 DEF Stage
    <3>9. CASE Released' = Released
      BY <1>0, <2>2, <3>9 DEF Pool!vars, Needed, Released
    <3>10. CASE Released' = Released \cup {j}
      <4>1. S[j] = "running"
        BY <3>8
      <4>2. Pool!Release(j)
        BY <1>0, <2>2, <3>10, <4>1 DEF Pool!Release, Needed, Released
      <4>3. QED BY <4>2 DEF Pool!Next
    <3>11. QED BY <3>7, <3>9, <3>10
  <2>7. QED BY <2>5, <2>6
<1>6. CASE ~Constructs(t) /\ ~PassGate(t) /\ ~Finish(t) /\ ~AddCount(t)
  <2>1. begun' = begun /\ ran' = ran
    BY <1>6, RunsStay
  <2>2. place' = place
    <3>1. CASE Register(t)
      BY <1>6, <3>1 DEF Constructs, Register, Jump, TypeInv
    <3>2. CASE ~Register(t)
      BY <1>6, <3>2 DEF Step, Work, Call, Launch, CountIn, PopJob, MissGate, AddAgain, jobVars,
           CountOut, Again, Boot, AddNew, CheckCount, CheckEmpty, ClearAll, Disable, Join
    <3>3. QED BY <3>1, <3>2
  <2>3. S' = S
    BY <2>1, <2>2, StagesKept
  <2>4. QED BY <1>0, <1>1, <1>6, <2>3 DEF Pool!vars, Needed, Released
<1>7. QED BY <1>2, <1>3, <1>4, <1>5, <1>6

LEMMA PoolInit ==
  ASSUME Init
  PROVE  /\ Pool!Init
         /\ CountsDown => DueInv
<1>1. /\ ControlInv
      /\ \A w \in Workers : job[w] = Null
      /\ \A j \in Jobs : place[j] = Null /\ begun[j] = 0 /\ ran[j] = 0
  BY ControlInit DEF Init, Threads
<1>2. \A k \in Jobs : \A i : ~Past(k, i)
  BY <1>1, NamesAssumption DEF Past
<1>3. Released = {}
  BY <1>2 DEF Released
<1>4. \A j \in Jobs : Stage(j) = "new"
  BY <1>1 DEF Stage, Built
<1>5. [j \in Jobs |-> Needed(j)] \in [Jobs -> SUBSET Jobs]
  BY DEF Needed
<1>6. Pool!Init
  BY <1>3, <1>4, <1>5 DEF Pool!Init, Released, Needed
<1>7. ASSUME CountsDown PROVE DueInv
  <2>1. ASSUME NEW c \in Counters PROVE Cardinality(Due(c)) <= count[c]
    <3>1. Due(c) = AllDue(c)
      BY <1>2 DEF Due, AllDue
    <3>2. QED BY <1>7, <3>1 DEF CountsDown, Init
  <2>2. QED BY <2>1 DEF DueInv
<1>8. QED BY <1>6, <1>7

\* The workers implement the pool: a job is taken once, run once, and one that waits for
\* a counter starts after every job that lowers it, however often it goes round the queue
\* before.  The program has to keep the ring in step, and its counters have to count what
\* is going to lower them (worker.h:57-79, 100-121, game_test.cpp:195-234).
Promised == Calm /\ (NoGates \/ CountsDown)

THEOREM WorkersAreAPool == Spec /\ Promised => ImplementsPool
<1> DEFINE PoolInv == ControlInv /\ KeptInv /\ (CountsDown => DueInv)
<1>1. Init => PoolInv
  BY ControlInit, KeptInit, PoolInit
<1>2. Promised /\ PoolInv /\ [Next]_vars => Promised' /\ PoolInv'
  <2> SUFFICES ASSUME Promised, PoolInv, [Next]_vars PROVE Promised' /\ KeptInv' /\ (CountsDown' => DueInv')
    BY ControlStep
  <2>1. program' = program
    BY DEF Next, Step, vars
  <2>2. Promised' /\ (CountsDown' <=> CountsDown)
    <3>1. Calm => Calm'
      BY <2>1 DEF Calm, EachPushedOnce, Room, NoGates, OneWorker, ClientPushes, Pushed, Gate, Crew, Body, Script
    <3>2. NoGates' <=> NoGates
      BY <2>1 DEF NoGates, Gate
    <3>3. Body' = Body /\ Script' = Script
      BY <2>1 DEF Body, Script
    <3>4. \A k : Lowerings(k)' = Lowerings(k)
      BY <3>3 DEF Lowerings
    <3>5. \A c : AllDue(c)' = AllDue(c)
      BY <3>3, <3>4 DEF AllDue
    <3>6. CountsDown' <=> CountsDown
      BY <2>1, <3>3, <3>4, <3>5 DEF CountsDown
    <3>7. QED BY <3>1, <3>2, <3>6 DEF Promised
  <2>3. KeptInv'
    BY KeptStep DEF Promised
  <2>4. ASSUME CountsDown, DueInv PROVE DueInv'
    <3>1. ASSUME NEW t \in Threads, Step(t) PROVE DueInv'
      BY <2>4, <3>1, DueStep DEF KeptInv
    <3>2. CASE UNCHANGED vars
      BY <2>1, <2>4, <3>2 DEF DueInv, Due, AllDue, Lowerings, Body, Past, vars, jobVars
    <3>3. QED BY <3>1, <3>2 DEF Next
  <2>5. QED BY <2>2, <2>3, <2>4
<1>3. Promised /\ PoolInv /\ [Next]_vars => [Pool!Next]_(Pool!vars)
  <2> SUFFICES ASSUME Promised, PoolInv, [Next]_vars PROVE [Pool!Next]_(Pool!vars)
    OBVIOUS
  <2>1. ASSUME NEW t \in Threads, Step(t) PROVE [Pool!Next]_(Pool!vars)
    BY <2>1, PoolStep DEF KeptInv, Promised
  <2>2. CASE UNCHANGED vars
    <3>1. /\ \A j \in Jobs : Stage(j)' = Stage(j)
          /\ \A j \in Jobs : Needed(j)' = Needed(j)
          /\ Released' = Released
      BY <2>2 DEF Stage, Built, Needed, Released, Gate, Lowers, Lowerings, Body, Past, vars, jobVars
    <3>2. QED BY <3>1 DEF Pool!vars, Needed, Released
  <2>3. QED BY <2>1, <2>2 DEF Next
<1>4. Init => Pool!Init
  BY PoolInit
<1> HIDE DEF PoolInv
<1>5. QED BY <1>1, <1>2, <1>3, <1>4, PTL DEF Spec, ImplementsPool, Pool!Spec
=============================================================================
