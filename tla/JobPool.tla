------------------------------- MODULE JobPool ------------------------------
(***************************************************************************)
(* What a pool of worker threads promises its clients, whatever thread     *)
(* runs a job and however the queue inside works: a job that was accepted  *)
(* starts at most once, ends at most once, and one that waits for a        *)
(* counter starts after every job that lowers the counter has done so.     *)
(* Both WorkerThreads, of worker.h and of worker2.h, implement it.         *)
(*                                                                         *)
(* A push that is refused, a job that is queued again and a client that    *)
(* asks whether all is over change nothing here.                           *)
(***************************************************************************)
CONSTANT Jobs

VARIABLES
  state,     \* per job: "new", "waiting", "running" or "ended"
  needs,     \* per job: the jobs that lower the counter it waits for
  released   \* the jobs that have lowered theirs

vars == <<state, needs, released>>

Init == /\ state = [j \in Jobs |-> "new"]
        /\ needs \in [Jobs -> SUBSET Jobs]
        /\ released = {}

Move(j, from, to) == state[j] = from /\ state' = [state EXCEPT ![j] = to]

\* push() has taken the job.
Accept(j) == Move(j, "new", "waiting") /\ UNCHANGED <<needs, released>>

\* A worker calls run().
Start(j) == /\ Move(j, "waiting", "running")
            /\ needs[j] \subseteq released
            /\ UNCHANGED <<needs, released>>

\* run() lowers the counter ...
Release(j) == /\ state[j] = "running"
              /\ released' = released \cup {j}
              /\ UNCHANGED <<state, needs>>

\* ... or it falls as run() returns.
End(j) == /\ Move(j, "running", "ended")
          /\ released' \in {released, released \cup {j}}
          /\ UNCHANGED needs

Next == \E j \in Jobs : Accept(j) \/ Start(j) \/ Release(j) \/ End(j)

Spec == Init /\ [][Next]_vars
=============================================================================
