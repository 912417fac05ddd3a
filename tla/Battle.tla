------------------------------- MODULE Battle -------------------------------
(***************************************************************************)
(* battle of game_test.cpp between two players (game_struct.hpp), again    *)
(* and again as the rounds of the game put them together.                  *)
(*                                                                         *)
(* Random numbers and the status points they are computed from are         *)
(* choices: who strikes first, whether a stroke hits, how hard, what a     *)
(* healing gives and how much life a level brings.  Hit points, life,      *)
(* healings, experience and levels keep their values and widths.           *)
(***************************************************************************)
EXTENDS Naturals, Sequences

CONSTANTS
  Players,
  Damages,      \* what (at - df) * 0.4 may come to when it is not negative
  Heals,        \* rand() % 25 + 50
  LifeGains,    \* what status_alloc adds to life: 2 n for a part n of the points
  FirstLives,   \* life after the constructor and status_alloc(pl, 15)
  MaxBattles

ASSUME PlayersAssumption == \E p, q \in Players : p # q /\ Players = {p, q}
\* status_alloc(pl, 15) and status_alloc(p, 8) at their most; life begins with 100.
ASSUME PointsAssumption == /\ Damages \subseteq Nat /\ Heals \subseteq Nat /\ MaxBattles \in Nat
                           /\ LifeGains \subseteq 0 .. 16 /\ FirstLives \subseteq 100 .. 130

VARIABLES
  player,      \* per player the members battle uses
  strokes,     \* who has still to strike in this battle, in order
  heals,       \* per player, how often it was healed
  battles

battleVars == <<player, strokes, heals, battles>>

Other(p) == CHOOSE q \in Players : q # p
Life(p) == player[p].life
Hp(p) == player[p].hp

\* The bit fields of Game::Player: hp and life have 10 bits, healing 4.
Field10(n) == n % 2^10
Field4(n) == n % 2^4

\* build_exp_list(): the MAX_LEVEL entries, each the float need_exp cut to int
ExpList == <<10, 22, 48, 106, 234, 515, 1133, 2247, 3471, 4819,
             6300, 7931, 9724, 11696, 13866, 16252, 18878, 21766, 24942, 28436,
             32280, 36508, 41159, 46275, 51903, 58093, 64902, 72392, 80632, 89695,
             99664, 110631, 122694, 135964, 150560, 166616, 184278, 203705, 225076, 248584,
             274442, 302886, 334175, 368593, 406452, 448097, 493907, 544298, 599728, 660700>>

\* Player(), then setHp(getLife()) and status_alloc(pl, 15)
FirstPlayers == [Players -> [life : FirstLives, hp : {100}, healing : {9}, exp : {0}, level : {1}]]
BattleInit == /\ player \in FirstPlayers
              /\ strokes = <<>>
              /\ heals = [p \in Players |-> 0]
              /\ battles = 0

-----------------------------------------------------------------------------
\* What a hit may take: a negative double in an unsigned is undefined, and comes out
\* as 0 or as more than any life.
Hurts == Damages \cup {0, 2^20}
Damage(p, d) == IF Hp(p) <= d THEN Hp(p) ELSE d

\* healing(p), with nothing to spare or nothing to heal it changes nothing
Needs(s) == s.hp > 0 /\ (s.hp < 60 \/ s.life - s.hp > 75) /\ s.healing > 0

\* Mutant of Healed: hp is not limited to life.
HealedOver(s, h) == [s EXCEPT !.hp = Field10(@ + h), !.healing = Field4(@ - 1)]

Healed(s, h) == [s EXCEPT !.hp = Field10(IF s.life < @ + h THEN s.life ELSE @ + h),
                          !.healing = Field4(@ - 1)]

\* check_levelup(p) with the part of status_alloc(p, 8) that goes to life
Rises(s) == ExpList[s.level] < s.exp
Raised(s, gain) == [s EXCEPT !.level = @ + 1, !.healing = Field4(@ + 1), !.life = Field10(@ + gain)]

Over == strokes = <<>>
Striker == Head(strokes)

BeginBattle == /\ Over
               /\ battles < MaxBattles
               /\ \A p \in Players : Hp(p) # 0
               /\ \E p \in Players : strokes' = <<p, Other(p)>>
               /\ battles' = battles + 1
               /\ UNCHANGED <<player, heals>>

\* hit(p1, p2) misses: hr <= 0
Miss == /\ ~Over
        /\ strokes' = Tail(strokes)
        /\ UNCHANGED <<player, heals, battles>>

\* The other one strikes back only if it is still alive.
After(s) == IF s.hp > 0 THEN Tail(strokes) ELSE <<>>

\* hit(p1, p2)
Hit(d, h, gain) ==
  LET p1 == Striker
      p2 == Other(p1)
      damage == Damage(p2, d)
      struck == [player[p2] EXCEPT !.hp = Field10(@ - damage)]
      after == IF Needs(struck) THEN Healed(struck, h) ELSE struck
      richer == [player[p1] EXCEPT !.exp = @ + damage \div 2]
  IN /\ player' = [player EXCEPT ![p2] = after,
                                 ![p1] = IF Rises(richer) THEN Raised(richer, gain) ELSE richer]
     /\ heals' = [heals EXCEPT ![p2] = IF Needs(struck) THEN @ + 1 ELSE @]
     /\ strokes' = After(struck)
     /\ UNCHANGED battles

BattleNext == \/ BeginBattle \/ Miss
              \/ ~Over /\ \E d \in Hurts, h \in Heals, gain \in LifeGains : Hit(d, h, gain)

-----------------------------------------------------------------------------
BattleTypeOK ==
  /\ \A p \in Players : /\ player[p].life \in 0 .. 2^10 - 1 /\ player[p].hp \in 0 .. 2^10 - 1
                        /\ player[p].healing \in 0 .. 2^4 - 1
                        /\ player[p].level \in 1 .. Len(ExpList)
  /\ Len(strokes) <= 2 /\ battles \in 0 .. MaxBattles

\* Two players never kill each other in one battle, so every round leaves somebody
\* for the next one and the game ends with one (game_test.cpp:108-147, 205-251).
SomebodyLives == \E p \in Players : Hp(p) > 0

\* A player never has more hit points than life, so the unsigned difference of the
\* two never wraps, and the healings left are those won less those used, in the four
\* bits they have (game_test.cpp:70-98, 117-130).
HpWithinLife == \A p \in Players :
                  /\ Hp(p) <= Life(p)
                  /\ player[p].healing = Field4(9 + (player[p].level - 1) - heals[p])
=============================================================================
