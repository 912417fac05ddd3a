------------------------------ MODULE PlainRing -----------------------------
(***************************************************************************)
(* test3 of thread_test2.cpp: threads that push numbers into a ring and    *)
(* one that prints what it pops, all started by one notify_all.  The ring  *)
(* has atomic indexes and a plain buffer: pop takes what the slot holds,   *)
(* where that of atomic_queue.h waits for the number to be there.          *)
(*                                                                         *)
(* One step is one access of the ring.  mtx is left out: a thread holds it *)
(* only to come to its wait and to leave it, and nothing is done under it. *)
(* Each runner pushes a third of the ring's size, so the ring has room for *)
(* all of it (RoomAssumption, 498 of 499 in the code): push never finds it *)
(* full and no slot is used twice.  exec, which nobody reads, is left out. *)
(***************************************************************************)
EXTENDS Naturals, Sequences, FiniteSets

CONSTANTS
  Runners,   \* the threads of run
  Getter,    \* the thread of get
  RingSize   \* buffer.size()

PerRunner == RingSize \div 3

ASSUME RoomAssumption == /\ RingSize \in Nat /\ IsFiniteSet(Runners)
                         /\ Cardinality(Runners) * PerRunner < RingSize
ASSUME GetterAssumption == Getter \notin Runners

VARIABLES
  buffer, start, end, en,
  doing,      \* per thread: where it is
  taken,      \* per thread: e of push, or s of pop
  pushed,     \* per runner: i
  popped,     \* p of pop
  got,        \* the numbers printed
  claims,     \* the numbers in the order in which push got its slots
  overtaken,  \* the slots pop has read before the number was there
  main_at

plainVars == <<buffer, start, end, en, doing, taken, pushed, popped, got, claims, overtaken,
               main_at>>
threadVars == <<doing, taken, pushed, popped>>
history == <<got, claims, overtaken>>

NoNumber == <<>>     \* -1
Crew == Runners \cup {Getter}
Number(t) == <<t, pushed[t]>>   \* the i-th number of a runner, made unique

PlainInit == /\ buffer = [k \in 0 .. RingSize - 1 |-> NoNumber]
             /\ start = 0 /\ end = 0 /\ en = TRUE
             /\ doing = [t \in Crew |-> "born"]
             /\ taken = [t \in Crew |-> 0]
             /\ pushed = [t \in Runners |-> 0]
             /\ popped = NoNumber
             /\ got = <<>> /\ claims = <<>> /\ overtaken = {}
             /\ main_at = "notify"

Goes(t, from, to) == doing[t] = from /\ doing' = [doing EXCEPT ![t] = to]

\* cond.wait(lk) without a condition to test: before the notification or, late, after
\* it.  It may also come back unasked.
Awake(t) == IF t = Getter THEN "en?" ELSE "push"
WaitCond(t) == /\ Goes(t, "born", IF main_at = "notify" THEN "asleep" ELSE "late")
               /\ UNCHANGED <<buffer, start, end, en, taken, pushed, popped, history, main_at>>
WakeFree(t) == /\ Goes(t, "asleep", Awake(t)) \/ Goes(t, "late", Awake(t))
               /\ UNCHANGED <<buffer, start, end, en, taken, pushed, popped, history, main_at>>

-----------------------------------------------------------------------------
(* push(i), PerRunner times *)

LoadEnd(t) == /\ pushed[t] < PerRunner
              /\ Goes(t, "push", "claim")
              /\ taken' = [taken EXCEPT ![t] = end]
              /\ UNCHANGED <<buffer, start, end, en, pushed, popped, history, main_at>>

Claim(t, e) == /\ Goes(t, "claim", "store")
               /\ end' = (e + 1) % RingSize
               /\ claims' = Append(claims, Number(t))
               /\ UNCHANGED <<buffer, start, en, taken, pushed, popped, got, overtaken, main_at>>

\* Mutant of ClaimEnd: end = n in place of the compare-and-swap.
ClaimEndBlind(t) == Claim(t, taken[t])

ClaimEnd(t) == end = taken[t] /\ Claim(t, end)
\* The swap fails, for no reason too.
ClaimFails(t) == /\ Goes(t, "claim", "push")
                 /\ UNCHANGED <<buffer, start, end, en, taken, pushed, popped, history, main_at>>
StoreNumber(t) == /\ Goes(t, "store", "push")
                  /\ buffer' = [buffer EXCEPT ![taken[t]] = Number(t)]
                  /\ pushed' = [pushed EXCEPT ![t] = @ + 1]
                  /\ UNCHANGED <<start, end, en, taken, popped, history, main_at>>
RunnerEnds(t) == /\ pushed[t] = PerRunner
                 /\ Goes(t, "push", "done")
                 /\ UNCHANGED <<buffer, start, end, en, taken, pushed, popped, history, main_at>>

-----------------------------------------------------------------------------
(* while (en) for (;;) { int n = pop(); if (n == -1) break; ... } *)

TestEn == /\ Goes(Getter, "en?", IF en THEN "pop" ELSE "done")
          /\ UNCHANGED <<buffer, start, end, en, taken, pushed, popped, history, main_at>>
\* s == end, or the compare-and-swap fails for no reason: -1
PopNone == /\ Goes(Getter, "pop", "en?")
           /\ UNCHANGED <<buffer, start, end, en, taken, pushed, popped, history, main_at>>
\* The only pop there is, so nothing happens to start between its accesses.
ClaimStart == /\ start # end
              /\ Goes(Getter, "pop", "read")
              /\ taken' = [taken EXCEPT ![Getter] = start]
              /\ start' = (start + 1) % RingSize
              /\ UNCHANGED <<buffer, end, en, pushed, popped, history, main_at>>
\* auto p = buffer[s]
ReadSlot == /\ Goes(Getter, "read", "clear")
            /\ popped' = buffer[taken[Getter]]
            /\ overtaken' = IF popped' = NoNumber THEN overtaken \cup {taken[Getter]} ELSE overtaken
            /\ UNCHANGED <<buffer, start, end, en, taken, pushed, got, claims, main_at>>
\* buffer[s] = -1, and what get() does with p
ClearSlot == /\ Goes(Getter, "clear", IF popped = NoNumber THEN "en?" ELSE "pop")
             /\ buffer' = [buffer EXCEPT ![taken[Getter]] = NoNumber]
             /\ got' = IF popped = NoNumber THEN got ELSE Append(got, popped)
             /\ popped' = NoNumber
             /\ UNCHANGED <<start, end, en, taken, pushed, claims, overtaken, main_at>>

-----------------------------------------------------------------------------
(* The end of test3 *)

MainGoes(from, to) == main_at = from /\ main_at' = to
Notify(woken) == /\ MainGoes("notify", "join")
                 /\ doing' = [t \in Crew |-> IF t \in woken THEN Awake(t) ELSE doing[t]]
                 /\ UNCHANGED <<buffer, start, end, en, taken, pushed, popped, history>>
Sleepers == {t \in Crew : doing[t] = "asleep"}

\* Mutant of NotifyAll: notify_one.
NotifyAllOne == \E t \in Crew : Notify({t} \cap Sleepers)

\* cond.notify_all(), 500 microseconds after the threads were started
NotifyAll == Notify(Sleepers)
JoinRunners == /\ MainGoes("join", "join getter")
               /\ \A t \in Runners : doing[t] = "done"
               /\ en' = FALSE
               /\ UNCHANGED <<buffer, start, end, threadVars, history>>
JoinGetter == /\ MainGoes("join getter", "end")
              /\ doing[Getter] = "done"
              /\ UNCHANGED <<buffer, start, end, en, threadVars, history>>

Running(t) == \/ LoadEnd(t) \/ ClaimEnd(t) \/ StoreNumber(t) \/ RunnerEnds(t)
              \/ end # taken[t] /\ ClaimFails(t)
Getting == TestEn \/ (start = end /\ PopNone) \/ ClaimStart \/ ReadSlot \/ ClearSlot
Ending == NotifyAll \/ JoinRunners \/ JoinGetter
\* The swap fails for no reason, or a thread wakes unasked.
Spurious == PopNone \/ (\E t \in Runners : ClaimFails(t)) \/ \E t \in Crew : WakeFree(t)
NotGetting == (\E t \in Crew : WaitCond(t)) \/ (\E t \in Runners : Running(t)) \/ Ending
PlainNext == Getting \/ NotGetting \/ Spurious

-----------------------------------------------------------------------------
PlainTypeOK == /\ start \in 0 .. RingSize - 1 /\ end \in 0 .. RingSize - 1
               /\ overtaken \subseteq 0 .. RingSize - 1

\* What get() prints are the numbers pushed, once each and in the order in which push
\* claimed their slots, without those it overtook: a number is lost only where pop
\* read its slot between the claim and the store (thread_test2.cpp:126-163).
Claimed(k) == claims[k + 1]
Printed == {k \in 0 .. start - 1 : k \notin overtaken /\ (doing[Getter] \in {"read", "clear"} => k # taken[Getter])}
PrintsAllButOvertaken ==
  /\ Len(claims) = end
  /\ Len(got) = Cardinality(Printed)
  /\ \A k \in Printed : got[Cardinality({i \in Printed : i <= k})] = Claimed(k)

\* test3 ends, unless a thread comes to its wait after the only notification: it sleeps
\* for ever, and a join with it (thread_test2.cpp:175-224).
Test3Ends == (main_at = "join") ~> (main_at = "end" \/ \E t \in Crew : doing[t] = "late")
=============================================================================
