------------------------------ MODULE GameRound -----------------------------
(***************************************************************************)
(* The rounds of game_test.cpp: main pairs the players of pl_ids, gives    *)
(* each pair to a job, and a last job, which waits for ecnt, gathers those *)
(* who live from pl_que for the next round.                                *)
(*                                                                         *)
(* The worker thread is taken by its promise, JobPool, which JobWorker     *)
(* implements, and pl_que by that of BoundedFifo.  A battle is who is      *)
(* alive after it: never nobody (Battle, SomebodyLives).  With ten players *)
(* no push is refused, so refusals are left out.                           *)
(*                                                                         *)
(* wait() may come back with jobs under way: after its two seconds, or     *)
(* because checkComplete() is not atomic.  main then destroys ecnt and     *)
(* uses the jobs' memory again, and what follows is undefined: the model   *)
(* ends there (see LiveDisjoint of JobWorker), and where a job rebuilds    *)
(* pl_ids while main reads it (see EveryoneOnce).                          *)
(***************************************************************************)
EXTENDS Naturals, Integers, Sequences, FiniteSets, SequencesExt

CONSTANTS
  Fighters,   \* the indexes of pl_list
  MaxRounds   \* the rounds played, 1000 in the code

ASSUME FightersAssumption == IsFiniteSet(Fighters) /\ MaxRounds \in Nat

VARIABLES
  pl_ids, pl_que,
  alive,       \* the players with getHp() > 0
  ecnt,
  stage,       \* per job of the round: 0 is the gathering one, pair b is job b
  pi,
  round,
  game_at,     \* where main is
  cut_short    \* a pop of a gathering has failed although pl_que was not empty

gameVars == <<pl_ids, pl_que, alive, ecnt, stage, pi, round, game_at, cut_short>>

Gather == 0
Pairs == 1 .. Cardinality(Fighters) \div 2

\* What the last job and those of the pairs have done of their run().
GatherStages == {"new", "waiting", "kept", "popping", "ended"}
PairStages == {"new", "waiting", "fought", "first", "second", "lowered", "ended"}

GameInit == /\ pl_ids = SetToSeq(Fighters)
            /\ pl_que = <<>>
            /\ alive = Fighters
            /\ ecnt = 0
            /\ stage = [j \in Pairs \cup {Gather} |-> "ended"]
            /\ pi = 0
            /\ round = 0
            /\ game_at = "round"
            /\ cut_short = FALSE

Main(from, to) == game_at = from /\ game_at' = to
Run(j, from, to) == stage[j] = from /\ stage' = [stage EXCEPT ![j] = to]

-----------------------------------------------------------------------------
(* main *)

\* Mutant of FirstCount: rounded up.
FirstCountUp == (Len(pl_ids) + 1) \div 2

\* std::atomic_int ecnt{(int)pl_ids.size() / 2}
FirstCount == Len(pl_ids) \div 2

\* The counter and wt.clear().
BeginRound == /\ Main("round", "gather")
              /\ round < MaxRounds
              /\ round' = round + 1
              /\ ecnt' = FirstCount
              /\ stage' = [j \in DOMAIN stage |-> "new"]
              /\ pi' = 0
              /\ UNCHANGED <<pl_ids, pl_que, alive, cut_short>>

\* wt.push(ecnt, ...)
PushGather == /\ Main("gather", "pairs")
              /\ Run(Gather, "new", "waiting")
              /\ UNCHANGED <<pl_ids, pl_que, alive, ecnt, pi, round, cut_short>>

\* for (int pi = 0; pi < pl_ids.size() / 2; pi++), the size read each time
PushPair == /\ Main("pairs", "pairs")
            /\ pi < Len(pl_ids) \div 2
            /\ pi' = pi + 1
            /\ Run(pi + 1, "new", "waiting")
            /\ UNCHANGED <<pl_ids, pl_que, alive, ecnt, round, cut_short>>
PairsPushed == /\ Main("pairs", "wait")
               /\ pi >= Len(pl_ids) \div 2
               /\ UNCHANGED <<pl_ids, pl_que, alive, ecnt, stage, pi, round, cut_short>>

\* if (wait() == false), and the test of pl_ids.size()
AllEnded == \A j \in DOMAIN stage : stage[j] \in {"new", "ended"}
WaitOver == /\ Main("wait", IF Len(pl_ids) = 1 THEN "one left" ELSE "round")
            /\ AllEnded
            /\ UNCHANGED <<pl_ids, pl_que, alive, ecnt, stage, pi, round, cut_short>>
Overtaken == /\ Main("wait", "undefined")
             /\ ~AllEnded
             /\ UNCHANGED <<pl_ids, pl_que, alive, ecnt, stage, pi, round, cut_short>>

-----------------------------------------------------------------------------
(* The job of a pair *)

First(b) == pl_ids[2 * b - 1]
Second(b) == pl_ids[2 * b]

\* battle(p1, p2)
Fight(b) == /\ Run(b, "waiting", "fought")
            /\ alive' \in {alive, alive \ {First(b)}, alive \ {Second(b)}}
            /\ UNCHANGED <<pl_ids, pl_que, ecnt, pi, round, game_at, cut_short>>

\* if (p.getHp() > 0) pl_que.push(i);
Queued(id) == pl_que' = IF id \in alive THEN Append(pl_que, id) ELSE pl_que
ComeBack(b) == /\ \/ Run(b, "fought", "first") /\ Queued(First(b))
                  \/ Run(b, "first", "second") /\ Queued(Second(b))
               /\ UNCHANGED <<pl_ids, alive, ecnt, pi, round, game_at, cut_short>>

\* the loop around ecnt.compare_exchange_weak, and the end of the job
LowerEcnt(b) == /\ Run(b, "second", "lowered")
            /\ ecnt' = ecnt - 1
            /\ UNCHANGED <<pl_ids, pl_que, alive, pi, round, game_at, cut_short>>
EndPair(b) == /\ Run(b, "lowered", "ended")
              /\ UNCHANGED <<pl_ids, pl_que, alive, ecnt, pi, round, game_at, cut_short>>

-----------------------------------------------------------------------------
(* The last job *)

\* Mutant of KeepLast: nobody is added when their number is odd.
KeepLastNever == /\ Run(Gather, "waiting", IF pl_que = <<>> THEN "ended" ELSE "kept")
                 /\ ecnt <= 0
                 /\ UNCHANGED <<pl_ids, pl_que, alive, ecnt, pi, round, game_at, cut_short>>

\* if (sz & 1) pl_que.push(pl_ids[sz - 1]); else if (pl_que.empty()) return;
Odd == Len(pl_ids) % 2 = 1
KeepLast == /\ Run(Gather, "waiting", IF ~Odd /\ pl_que = <<>> THEN "ended" ELSE "kept")
            /\ ecnt <= 0
            /\ pl_que' = IF Odd THEN Append(pl_que, Last(pl_ids)) ELSE pl_que
            /\ UNCHANGED <<pl_ids, alive, ecnt, pi, round, game_at, cut_short>>

\* pl_ids.resize(0)
ClearIds == /\ Run(Gather, "kept", "popping")
            /\ pl_ids' = <<>>
            /\ UNCHANGED <<pl_que, alive, ecnt, pi, round, game_at, cut_short>>

\* while (auto id = pl_que.pop()) pl_ids.push_back(id.value);
TakeBack == /\ stage[Gather] = "popping"
            /\ pl_que # <<>>
            /\ pl_ids' = Append(pl_ids, Head(pl_que))
            /\ pl_que' = Tail(pl_que)
            /\ UNCHANGED <<alive, ecnt, stage, pi, round, game_at, cut_short>>

\* The pop that fails, for want of a player or for no reason, and the shuffle.
Shuffle == /\ Run(Gather, "popping", "ended")
           /\ pl_ids' \in {[k \in DOMAIN pl_ids |-> pl_ids[f[k]]] :
                             f \in {g \in [DOMAIN pl_ids -> DOMAIN pl_ids] : IsInjective(g)}}
           /\ cut_short' = (cut_short \/ pl_que # <<>>)
           /\ UNCHANGED <<pl_que, alive, ecnt, pi, round, game_at>>

-----------------------------------------------------------------------------
PairJob(b) == Fight(b) \/ ComeBack(b) \/ LowerEcnt(b) \/ EndPair(b)
GatherJob == KeepLast \/ ClearIds \/ TakeBack \/ Shuffle
MainStep == BeginRound \/ PushGather \/ PushPair \/ PairsPushed \/ WaitOver

GameWork == /\ game_at # "undefined" /\ ~(cut_short /\ game_at = "pairs")
            /\ (\E b \in Pairs : PairJob(b)) \/ GatherJob \/ MainStep
GameNext == GameWork \/ Overtaken

GameTypeOK == /\ pl_ids \in Seq(Fighters) /\ pl_que \in Seq(Fighters)
              /\ alive \subseteq Fighters
              /\ ecnt \in 0 .. Cardinality(Pairs)
              /\ stage[Gather] \in GatherStages /\ \A b \in Pairs : stage[b] \in PairStages
              /\ pi \in 0 .. Cardinality(Pairs) /\ round \in 0 .. MaxRounds

\* Where a player is: on the list until its job, or the last one, has put it into
\* the queue; in the queue; on the list again.
StillListed(k) == \/ game_at = "round"
                  \/ stage[Gather] \in {"popping", "ended"}
                  \/ IF k = Len(pl_ids) /\ Odd THEN stage[Gather] # "kept"
                     ELSE stage[(k + 1) \div 2] \in {"new", "waiting", "fought"} \cup
                                                    (IF k % 2 = 0 THEN {"first"} ELSE {})
Seats(p) == {<<"list", k>> : k \in {i \in DOMAIN pl_ids : pl_ids[i] = p /\ StillListed(i)}} \cup
            {<<"queue", k>> : k \in {i \in DOMAIN pl_que : pl_que[i] = p}}

\* Whoever lives is in one place, through battles that end in any order and an odd
\* number of players: nobody is dropped from the game, or meets himself or two others
\* at once, and when one is left on the list nobody else lives.  One pop that fails for
\* no reason breaks this: players stay in the queue, main takes one on the list for the
\* last, and where the next gathering makes the list longer than it was, main pairs
\* players from it while they are gathered (game_test.cpp:193-251, atomic_queue.h:145).
EveryoneOnce == ~cut_short =>
                  /\ \A p \in alive : Cardinality(Seats(p)) = 1
                  /\ game_at = "one left" => \A p \in Fighters : p \in alive <=> p = pl_ids[1]

\* A round comes to its end: the counter falls to zero when all its pairs have fought,
\* whether their number is even or odd or there is none (game_test.cpp:194-242).
RoundEnds == (game_at = "wait") ~> (game_at # "wait")
=============================================================================
