----------------------------- MODULE MCJobWorker ----------------------------
(* Clients of worker.h for model checking. *)
EXTENDS JobWorker

CONSTANTS w1, w2, j1, j2, j3, j4, j5, j6, c1

OneWorker == {w1}
TwoWorkers == {w1, w2}

NoGate == [j \in Jobs |-> Null]
GateJ1 == [NoGate EXCEPT ![j1] = c1]
NoBody == [j \in Jobs |-> <<>>]
CountOne == [c \in Counters |-> 1]

\* j1 takes four bytes, the others one.
MCSizeOf == [[j \in Jobs |-> 1] EXCEPT ![j1] = 4]

\* thread_test.cpp:50-67: j1 waits for the counter, j2 pushes j3 and lowers the
\* counter; with a buffer of six bytes there is no memory for j4 or for j3.
Chain == [workers |-> OneWorker, gate |-> GateJ1, count |-> CountOne,
          body |-> [NoBody EXCEPT ![j2] = <<Push(j3), Add(c1, -1)>>],
          script |-> <<Push(j1), Push(j2), Push(j4), Await, Destroy>>]

\* game_test.cpp:203-240: the memory is taken back before the jobs are pushed, and
\* j1, pushed first, waits until each of the others has lowered the counter.
Round == [workers |-> OneWorker, gate |-> GateJ1, count |-> [c \in Counters |-> 2],
          body |-> [NoBody EXCEPT ![j2] = <<Add(c1, -1)>>, ![j3] = <<Add(c1, -1)>>],
          script |-> <<Clear, Push(j1), Push(j2), Push(j3), Await, Destroy>>]

\* The same round with too little memory for j2, the job that lowers the counter: j1
\* goes round the queue until the object is destroyed.
Refused == [workers |-> OneWorker, gate |-> GateJ1, count |-> CountOne,
            body |-> [NoBody EXCEPT ![j2] = <<Add(c1, -1)>>],
            script |-> <<Push(j1), Push(j4), Push(j5), Push(j2), Destroy>>]

\* Two workers, a job that pushes another one, and a client that waits.
Free == [workers |-> TwoWorkers, gate |-> NoGate, count |-> CountOne,
         body |-> [NoBody EXCEPT ![j1] = <<Push(j2)>>],
         script |-> <<Push(j1), Push(j3), Await, Destroy>>]

\* More jobs than the queue has room for, and no memory for the last one.
Burst == [workers |-> OneWorker, gate |-> NoGate, count |-> CountOne, body |-> NoBody,
          script |-> <<Push(j2), Push(j3), Push(j4), Push(j5), Push(j1), Await, Destroy>>]

\* A queue that is full when a job pushes another one: the only worker waits for room.
Flood == [workers |-> OneWorker, gate |-> NoGate, count |-> CountOne,
          body |-> [NoBody EXCEPT ![j2] = <<Push(j6)>>],
          script |-> <<Push(j2), Push(j3), Push(j4), Push(j5), Destroy>>]

\* thread_test.cpp:78-82: the memory is used again once checkComplete() says so.
Reuse == [workers |-> OneWorker, gate |-> NoGate, count |-> CountOne, body |-> NoBody,
          script |-> <<Push(j2), Await, Clear, Push(j3)>>]

GoodPrograms == {Chain, Round, Refused, Free, Burst, Flood}
ReusePrograms == {Reuse}
=============================================================================
