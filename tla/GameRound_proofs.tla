-------------------------- MODULE GameRound_proofs --------------------------
(***************************************************************************)
(* Proofs about the rounds of game_test.cpp for every number of players    *)
(* and of rounds: as long as no pop fails for no reason, whoever lives is  *)
(* in one place, and the last one on the list is the only one alive.       *)
(***************************************************************************)
EXTENDS GameRound, FiniteSetTheorems, SequenceTheorems, TLAPS

-----------------------------------------------------------------------------
(* The inductive invariant. *)

\* Players are gathered from the queue into the list, or have been: the list no
\* longer says who fights whom.
Gathered == stage[Gather] \in {"popping", "ended"}
PairCount == Len(pl_ids) \div 2
Over(b) == stage[b] \in {"lowered", "ended"}
Unlowered == {b \in 1 .. PairCount : ~Over(b)}
Fought(b) == stage[b] \notin {"new", "waiting"}
Players(s) == {s[k] : k \in DOMAIN s}
Distinct(s) == \A j, k \in DOMAIN s : s[j] = s[k] => j = k

TypeInv == /\ pl_ids \in Seq(Fighters) /\ pl_que \in Seq(Fighters)
           /\ Distinct(pl_ids) /\ Distinct(pl_que)
           /\ alive \subseteq Fighters
           /\ stage \in [Pairs \cup {Gather} -> GatherStages \cup PairStages]
           /\ stage[Gather] \in GatherStages
           /\ \A b \in Pairs : stage[b] \in PairStages
           /\ pi \in Nat

\* Where main is, and which jobs it has pushed: as long as the list stands, no more
\* pairs than it has, and when it has been rebuilt no pair of the new list is left to
\* push.
MainInv == /\ game_at \in {"round", "one left", "gather"} => \A b \in Pairs : stage[b] \in {"new", "ended"}
           /\ game_at \in {"round", "one left"} => stage[Gather] = "ended"
           /\ game_at = "one left" => Len(pl_ids) = 1
           /\ game_at = "gather" => stage[Gather] = "new" /\ pi = 0
           /\ game_at \in {"pairs", "wait", "undefined"} => stage[Gather] # "new"
           /\ game_at \in {"round", "one left", "gather", "pairs", "wait", "undefined"}
           /\ ~Gathered => /\ pi <= PairCount
                           /\ \A b \in Pairs : stage[b] # "new" <=> b <= pi
           /\ Gathered => \A b \in Pairs : stage[b] \in {"new", "lowered", "ended"}
           /\ Gathered /\ game_at = "pairs" => (Len(pl_ids) + Len(pl_que)) \div 2 <= pi

\* The counter is the number of pairs that have not lowered it, and the gathering
\* starts only when there is none.
CountInv == /\ ~Gathered => ecnt = Cardinality(Unlowered)
            /\ stage[Gather] = "kept" => Unlowered = {}

\* As long as the list stands, the queue holds the living who have left it, and a
\* pair is alive until it has fought, and one of it after that.
ListInv == ~Gathered =>
             /\ alive \subseteq Players(pl_ids)
             /\ Players(pl_que) = {pl_ids[k] : k \in {i \in DOMAIN pl_ids : ~StillListed(i)}} \cap alive
             /\ \A k \in DOMAIN pl_ids :
                  (k = Len(pl_ids) /\ Odd) \/ ~Fought((k + 1) \div 2) => pl_ids[k] \in alive
             /\ \A b \in 1 .. PairCount : First(b) \in alive \/ Second(b) \in alive

\* Later, everybody alive is in one of the two, and nobody else is.
GatheredInv == Gathered =>
                 /\ Players(pl_ids) \cup Players(pl_que) = alive
                 /\ Players(pl_ids) \cap Players(pl_que) = {}
                 /\ stage[Gather] = "ended" => pl_que = <<>>

IInv == ~cut_short => TypeInv /\ MainInv /\ CountInv /\ ListInv /\ GatheredInv
-----------------------------------------------------------------------------
(* Lists of players, and the pairs of indexes. *)

\* The pair that index k belongs to, in a list of n.
LEMMA HalfOf ==
  ASSUME NEW k \in Nat, k >= 1
  PROVE  /\ (k + 1) \div 2 \in Nat /\ (k + 1) \div 2 >= 1
         /\ k = 2 * ((k + 1) \div 2) - 1 \/ k = 2 * ((k + 1) \div 2)
         /\ k % 2 = 0 <=> k = 2 * ((k + 1) \div 2)
OBVIOUS

LEMMA HalfBound ==
  ASSUME NEW n \in Nat, NEW k \in 1 .. n, ~(k = n /\ n % 2 = 1)
  PROVE  (k + 1) \div 2 \in 1 .. (n \div 2)
OBVIOUS

LEMMA PairIndexes ==
  ASSUME NEW n \in Nat, NEW b \in 1 .. (n \div 2)
  PROVE  /\ 2 * b - 1 \in 1 .. n /\ 2 * b \in 1 .. n
         /\ ((2 * b - 1) + 1) \div 2 = b /\ (2 * b + 1) \div 2 = b
         /\ (2 * b - 1) % 2 = 1 /\ (2 * b) % 2 = 0
         /\ ~(2 * b - 1 = n /\ n % 2 = 1) /\ ~(2 * b = n /\ n % 2 = 1)
OBVIOUS

LEMMA PlayersAppend ==
  ASSUME NEW s \in Seq(Fighters), NEW p \in Fighters
  PROVE  /\ Append(s, p) \in Seq(Fighters)
         /\ Players(Append(s, p)) = Players(s) \cup {p}
         /\ Distinct(s) /\ p \notin Players(s) => Distinct(Append(s, p))
<1>1. /\ Append(s, p) \in Seq(Fighters) /\ Len(s) \in Nat /\ DOMAIN s = 1 .. Len(s)
      /\ Len(Append(s, p)) = Len(s) + 1
      /\ DOMAIN Append(s, p) = 1 .. Len(s) + 1
      /\ \A i \in 1 .. Len(s) : Append(s, p)[i] = s[i]
      /\ Append(s, p)[Len(s) + 1] = p
  BY AppendProperties
<1> DEFINE a == Append(s, p)
<1> HIDE DEF a
<1>2. Players(a) = Players(s) \cup {p}
  BY <1>1 DEF Players, a
<1>3. Distinct(s) /\ p \notin Players(s) => Distinct(a)
  BY <1>1 DEF Distinct, Players, a
<1>4. QED BY <1>1, <1>2, <1>3 DEF a

LEMMA PlayersTail ==
  ASSUME NEW s \in Seq(Fighters), s # <<>>, Distinct(s)
  PROVE  /\ Tail(s) \in Seq(Fighters) /\ Len(Tail(s)) = Len(s) - 1 /\ Len(s) \in Nat /\ Len(s) >= 1
         /\ Head(s) \in Fighters /\ Head(s) \notin Players(Tail(s))
         /\ Players(s) = Players(Tail(s)) \cup {Head(s)}
         /\ Distinct(Tail(s))
<1>1. /\ Tail(s) \in Seq(Fighters) /\ Len(Tail(s)) = Len(s) - 1 /\ Len(s) \in Nat /\ Len(s) >= 1
      /\ \A i \in 1 .. Len(Tail(s)) : Tail(s)[i] = s[i + 1]
      /\ DOMAIN s = 1 .. Len(s) /\ DOMAIN Tail(s) = 1 .. Len(s) - 1
      /\ Head(s) = s[1] /\ s[1] \in Fighters
  BY HeadTailProperties, EmptySeq, LenProperties, ElementOfSeq
<1> DEFINE a == Tail(s)
           h == Head(s)
<1> HIDE DEF a, h
<1>2. \A i \in 1 .. Len(s) - 1 : a[i] = s[i + 1] /\ i + 1 \in 1 .. Len(s) /\ i + 1 # 1
  BY <1>1 DEF a
<1>3. h \notin Players(a) /\ Distinct(a)
  BY <1>1, <1>2 DEF Players, Distinct, a, h
<1>4. \A i \in 1 .. Len(s) : i = 1 \/ (i - 1 \in 1 .. Len(s) - 1 /\ (i - 1) + 1 = i)
  BY <1>1
<1>5. Players(s) = Players(a) \cup {h}
  <2>1. ASSUME NEW p \in Players(s) PROVE p \in Players(a) \cup {h}
    <3>1. PICK i \in 1 .. Len(s) : p = s[i]
      BY <1>1, <2>1 DEF Players
    <3>2. CASE i = 1
      BY <3>1, <3>2, <1>1 DEF h
    <3>3. CASE i # 1
      <4>1. i - 1 \in DOMAIN a /\ a[i - 1] = p
        BY <1>1, <1>2, <1>4, <3>1, <3>3 DEF a
      <4>2. QED BY <4>1 DEF Players
    <3>4. QED BY <3>2, <3>3
  <2>2. ASSUME NEW p \in Players(a) \cup {h} PROVE p \in Players(s)
    BY <1>1, <1>2, <2>2 DEF Players, a, h
  <2>3. QED BY <2>1, <2>2
<1>6. QED BY <1>1, <1>3, <1>5 DEF a, h

\* A list of different players is no longer than one that holds all of them.
LEMMA DistinctBound ==
  ASSUME NEW s \in Seq(Fighters), NEW r \in Seq(Fighters), Distinct(s), Players(s) \subseteq Players(r)
  PROVE  Len(s) <= Len(r)
<1>1. Len(s) \in Nat /\ Len(r) \in Nat /\ DOMAIN s = 1 .. Len(s) /\ DOMAIN r = 1 .. Len(r)
  BY LenProperties
<1>2. \A k \in 1 .. Len(s) : \E i \in 1 .. Len(r) : r[i] = s[k]
  BY <1>1 DEF Players
<1> DEFINE f == [k \in 1 .. Len(s) |-> CHOOSE i \in 1 .. Len(r) : r[i] = s[k]]
<1>3. \A k \in 1 .. Len(s) : f[k] \in 1 .. Len(r) /\ r[f[k]] = s[k]
  BY <1>2
<1>4. f \in [1 .. Len(s) -> 1 .. Len(r)]
  BY <1>3
<1> HIDE DEF f
<1>5. \A j, k \in 1 .. Len(s) : f[j] = f[k] => j = k
  BY <1>1, <1>3 DEF Distinct
<1>6. f \in Injection(1 .. Len(s), 1 .. Len(r))
  BY <1>4, <1>5 DEF Injection, IsInjective
<1>7. QED
  <2>1. IsFiniteSet(1 .. Len(r)) /\ Cardinality(1 .. Len(r)) = Len(r) /\ Cardinality(1 .. Len(s)) = Len(s)
    <3>1. 1 \in Int /\ Len(r) \in Int /\ Len(s) \in Int
      BY <1>1
    <3>2. /\ IsFiniteSet(1 .. Len(r))
          /\ Cardinality(1 .. Len(r)) = (IF 1 > Len(r) THEN 0 ELSE Len(r) - 1 + 1)
          /\ Cardinality(1 .. Len(s)) = (IF 1 > Len(s) THEN 0 ELSE Len(s) - 1 + 1)
      BY <3>1, FS_Interval
    <3>3. QED BY <3>2, <1>1
  <2>2. Cardinality(1 .. Len(s)) <= Cardinality(1 .. Len(r))
    BY <1>6, <2>1, FS_Injection
  <2>3. QED BY <2>1, <2>2
-----------------------------------------------------------------------------
(* What holds where jobs and main are. *)

Round == TypeInv /\ MainInv /\ CountInv /\ ListInv /\ GatheredInv

LEMMA Numbers ==
  ASSUME TypeInv
  PROVE  /\ Len(pl_ids) \in Nat /\ PairCount \in Nat
         /\ DOMAIN pl_ids = 1 .. Len(pl_ids)
         /\ Len(pl_que) \in Nat /\ DOMAIN pl_que = 1 .. Len(pl_que)
<1>1. Len(pl_ids) \in Nat /\ DOMAIN pl_ids = 1 .. Len(pl_ids) /\ Len(pl_que) \in Nat /\ DOMAIN pl_que = 1 .. Len(pl_que)
  BY LenProperties DEF TypeInv
<1>2. QED BY <1>1 DEF PairCount

\* There is a job for every pair of the list.
LEMMA PairsFit ==
  ASSUME TypeInv
  PROVE  1 .. PairCount \subseteq Pairs /\ Pairs \subseteq Nat \ {0}
<1>1. Len(pl_ids) \in Nat /\ DOMAIN pl_ids = 1 .. Len(pl_ids) /\ pl_ids \in [1 .. Len(pl_ids) -> Fighters]
  BY LenProperties DEF TypeInv
<1>2. pl_ids \in Injection(1 .. Len(pl_ids), Fighters)
  BY <1>1 DEF TypeInv, Distinct, Injection, IsInjective
<1>3. Cardinality(1 .. Len(pl_ids)) <= Cardinality(Fighters) /\ Cardinality(Fighters) \in Nat
  BY <1>2, FightersAssumption, FS_Injection, FS_CardinalityType
<1>4. Cardinality(1 .. Len(pl_ids)) = Len(pl_ids)
  <2>1. 1 \in Int /\ Len(pl_ids) \in Int
    BY <1>1
  <2>2. Cardinality(1 .. Len(pl_ids)) = (IF 1 > Len(pl_ids) THEN 0 ELSE Len(pl_ids) - 1 + 1)
    BY <2>1, FS_Interval
  <2>3. QED BY <1>1, <2>2
<1>5. Len(pl_ids) <= Cardinality(Fighters)
  BY <1>3, <1>4
<1> DEFINE n == Len(pl_ids)
           c == Cardinality(Fighters)
<1>6. n \in Nat /\ c \in Nat /\ n <= c
  BY <1>1, <1>3, <1>5
<1> HIDE DEF n, c
<1>7. n \div 2 <= c \div 2 /\ n \div 2 \in Nat /\ c \div 2 \in Nat
  BY <1>6
<1>8. 1 .. n \div 2 \subseteq 1 .. c \div 2 /\ 1 .. c \div 2 \subseteq Nat \ {0}
  BY <1>7
<1>9. QED BY <1>8 DEF Pairs, PairCount, n, c

\* A job of a pair that has not lowered the counter: the list stands, and the
\* gathering has not begun.
LEMMA ActivePair ==
  ASSUME Round, NEW b \in Pairs, stage[b] \in {"waiting", "fought", "first", "second"}
  PROVE  ~Gathered /\ b \in 1 .. PairCount /\ stage[Gather] # "kept" /\ b \in Unlowered
<1>1. ~Gathered
  BY DEF Round, MainInv
<1>2. b <= pi /\ pi <= PairCount
  BY <1>1 DEF Round, MainInv
<1>3. b \in 1 .. PairCount
  BY <1>2, PairsFit, Numbers DEF Round, TypeInv
<1>4. b \in Unlowered
  BY <1>3 DEF Unlowered, Over
<1>5. QED BY <1>1, <1>3, <1>4 DEF Round, CountInv

\* main pushes a pair of the list that stands.
LEMMA NextPair ==
  ASSUME Round, PushPair
  PROVE  ~Gathered /\ pi + 1 \in 1 .. PairCount /\ pi + 1 \in Pairs /\ stage[Gather] \notin {"kept", "new"}
<1>1. pi \in Nat /\ pi < PairCount /\ game_at = "pairs"
  BY DEF Round, TypeInv, PushPair, Main, PairCount
<1>2. ~Gathered
  <2>1. SUFFICES ASSUME Gathered PROVE FALSE
    OBVIOUS
  <2>2. (Len(pl_ids) + Len(pl_que)) \div 2 <= pi
    BY <1>1, <2>1 DEF Round, MainInv
  <2>3. QED BY <1>1, <2>2, Numbers DEF Round, PairCount
<1>3. pi + 1 \in 1 .. PairCount
  BY <1>1, Numbers DEF Round
<1>4. pi + 1 \in Pairs
  BY <1>3, PairsFit DEF Round
<1>5. stage[pi + 1] = "new"
  BY <1>1, <1>2, <1>4 DEF Round, MainInv
<1>6. pi + 1 \in Unlowered
  BY <1>3, <1>5 DEF Unlowered, Over
<1>7. QED BY <1>1, <1>2, <1>3, <1>4, <1>6 DEF Round, CountInv, MainInv

LEMMA UnloweredFinite ==
  ASSUME TypeInv
  PROVE  IsFiniteSet(Unlowered) /\ Cardinality(Unlowered) \in Nat
<1>1. IsFiniteSet(1 .. PairCount)
  <2>1. 1 \in Int /\ PairCount \in Int
    BY Numbers
  <2>2. QED BY <2>1, FS_Interval
<1>2. Unlowered \subseteq 1 .. PairCount
  BY DEF Unlowered
<1>3. QED BY <1>1, <1>2, FS_Subset, FS_CardinalityType

\* The counter is down: everybody has fought.
LEMMA AllOver ==
  ASSUME Round, stage[Gather] = "waiting", ecnt <= 0
  PROVE  Unlowered = {}
<1>1. ecnt = Cardinality(Unlowered)
  BY DEF Round, CountInv, Gathered
<1>2. IsFiniteSet(Unlowered) /\ Cardinality(Unlowered) \in Nat
  BY UnloweredFinite DEF Round
<1>3. Cardinality(Unlowered) = 0
  BY <1>1, <1>2
<1>4. QED BY <1>2, <1>3, FS_EmptySet

LEMMA OverMeansPushed ==
  ASSUME Round, ~Gathered, Unlowered = {}
  PROVE  pi = PairCount /\ \A b \in Pairs : b <= PairCount => stage[b] \in {"lowered", "ended"}
<1>1. \A b \in 1 .. PairCount : stage[b] \in {"lowered", "ended"} /\ b \in Pairs
  BY PairsFit DEF Unlowered, Over, Round
<1>2. \A b \in Pairs : b <= PairCount => b \in 1 .. PairCount
  BY PairsFit, Numbers DEF Round
<1>3. pi \in Nat /\ pi <= PairCount /\ PairCount \in Nat
  BY Numbers DEF Round, MainInv, TypeInv
<1>4. PairCount <= pi
  <2>1. CASE PairCount = 0
    BY <1>3, <2>1
  <2>2. CASE PairCount # 0
    <3>1. PairCount \in 1 .. PairCount
      BY <1>3, <2>2
    <3>2. stage[PairCount] # "new" /\ PairCount \in Pairs
      BY <1>1, <3>1
    <3>3. QED BY <3>2 DEF Round, MainInv
  <2>3. QED BY <2>1, <2>2
<1>5. QED BY <1>1, <1>2, <1>3, <1>4
-----------------------------------------------------------------------------
(* The list stands: who is listed and who is queued. *)

\* StillListed where the list stands.
Listed(k) == IF k = Len(pl_ids) /\ Odd THEN stage[Gather] # "kept"
             ELSE stage[(k + 1) \div 2] \in {"new", "waiting", "fought"} \cup
                                            (IF k % 2 = 0 THEN {"first"} ELSE {})

LEMMA ListedWhen ==
  ASSUME Round, ~Gathered, NEW k
  PROVE  StillListed(k) <=> Listed(k)
BY DEF Round, MainInv, Gathered, StillListed, Listed

LEMMA ListedNotQueued ==
  ASSUME Round, ~Gathered, NEW k \in DOMAIN pl_ids, Listed(k)
  PROVE  pl_ids[k] \notin Players(pl_que)
<1>1. StillListed(k)
  BY ListedWhen
<1>2. Players(pl_que) = {pl_ids[i] : i \in {j \in DOMAIN pl_ids : ~StillListed(j)}} \cap alive
  BY DEF Round, ListInv
<1>3. \A i \in DOMAIN pl_ids : pl_ids[i] = pl_ids[k] => i = k
  BY DEF Round, TypeInv, Distinct
<1> HIDE DEF StillListed
<1>4. QED BY <1>1, <1>2, <1>3

\* Where the players of a pair are.
LEMMA PairPlaces ==
  ASSUME Round, ~Gathered, NEW b \in 1 .. PairCount
  PROVE  /\ 2 * b - 1 \in DOMAIN pl_ids /\ 2 * b \in DOMAIN pl_ids
         /\ First(b) = pl_ids[2 * b - 1] /\ Second(b) = pl_ids[2 * b]
         /\ First(b) \in Fighters /\ Second(b) \in Fighters /\ First(b) # Second(b)
         /\ Listed(2 * b - 1) <=> stage[b] \in {"new", "waiting", "fought"}
         /\ Listed(2 * b) <=> stage[b] \in {"new", "waiting", "fought", "first"}
<1>1. Len(pl_ids) \in Nat /\ DOMAIN pl_ids = 1 .. Len(pl_ids) /\ b \in 1 .. Len(pl_ids) \div 2
  BY Numbers DEF Round, PairCount
<1>2. /\ 2 * b - 1 \in 1 .. Len(pl_ids) /\ 2 * b \in 1 .. Len(pl_ids)
      /\ ((2 * b - 1) + 1) \div 2 = b /\ (2 * b + 1) \div 2 = b
      /\ (2 * b - 1) % 2 = 1 /\ (2 * b) % 2 = 0
      /\ ~(2 * b - 1 = Len(pl_ids) /\ Len(pl_ids) % 2 = 1) /\ ~(2 * b = Len(pl_ids) /\ Len(pl_ids) % 2 = 1)
  BY <1>1, PairIndexes
<1>3. First(b) = pl_ids[2 * b - 1] /\ Second(b) = pl_ids[2 * b]
  BY DEF First, Second
<1>4. pl_ids[2 * b - 1] \in Fighters /\ pl_ids[2 * b] \in Fighters
  BY <1>1, <1>2, ElementOfSeq DEF Round, TypeInv
<1>5. 2 * b - 1 # 2 * b
  BY <1>1
<1>6. pl_ids[2 * b - 1] # pl_ids[2 * b]
  BY <1>1, <1>2, <1>5 DEF Round, TypeInv, Distinct
<1>7. Listed(2 * b - 1) <=> stage[b] \in {"new", "waiting", "fought"}
  <2>1. (2 * b - 1) % 2 # 0 /\ ((2 * b - 1) + 1) \div 2 = b /\ ~(2 * b - 1 = Len(pl_ids) /\ Odd)
    BY <1>2 DEF Odd
  <2> DEFINE k == 2 * b - 1
  <2>2. k % 2 # 0 /\ (k + 1) \div 2 = b /\ ~(k = Len(pl_ids) /\ Odd)
    BY <2>1
  <2> HIDE DEF k
  <2>3. Listed(k) <=> stage[b] \in {"new", "waiting", "fought"}
    BY <2>2 DEF Listed
  <2>4. QED BY <2>3 DEF k
<1>8. Listed(2 * b) <=> stage[b] \in {"new", "waiting", "fought", "first"}
  <2> DEFINE k == 2 * b
  <2>2. k % 2 = 0 /\ (k + 1) \div 2 = b /\ ~(k = Len(pl_ids) /\ Odd)
    BY <1>2 DEF Odd
  <2> HIDE DEF k
  <2>3. Listed(k) <=> stage[b] \in {"new", "waiting", "fought", "first"}
    BY <2>2 DEF Listed
  <2>4. QED BY <2>3 DEF k
<1>9. QED BY <1>1, <1>2, <1>3, <1>4, <1>6, <1>7, <1>8

\* Every index of the list is that of a pair, or of the odd one out.
LEMMA IndexPair ==
  ASSUME Round, NEW k \in DOMAIN pl_ids, ~(k = Len(pl_ids) /\ Odd)
  PROVE  /\ (k + 1) \div 2 \in 1 .. PairCount
         /\ k = 2 * ((k + 1) \div 2) - 1 \/ k = 2 * ((k + 1) \div 2)
<1>1. Len(pl_ids) \in Nat /\ k \in 1 .. Len(pl_ids) /\ ~(k = Len(pl_ids) /\ Len(pl_ids) % 2 = 1)
  BY Numbers DEF Round, Odd
<1>2. k \in Nat /\ k >= 1
  BY <1>1
<1>3. (k + 1) \div 2 \in 1 .. Len(pl_ids) \div 2
  BY <1>1, HalfBound
<1>4. k = 2 * ((k + 1) \div 2) - 1 \/ k = 2 * ((k + 1) \div 2)
  BY <1>2, HalfOf
<1>5. QED BY <1>3, <1>4 DEF PairCount
-----------------------------------------------------------------------------
(* The invariant is inductive. *)

RoundStep == GameNext /\ ~cut_short'

LEMMA ComeBackCases ==
  ASSUME Round, NEW b \in Pairs, ComeBack(b)
  PROVE  /\ ~Gathered /\ b \in 1 .. PairCount /\ stage[Gather] # "kept"
         /\ \/ /\ stage[b] = "fought" /\ stage' = [stage EXCEPT ![b] = "first"]
               /\ pl_que' = IF First(b) \in alive THEN Append(pl_que, First(b)) ELSE pl_que
               /\ First(b) \in Fighters /\ First(b) \notin Players(pl_que)
            \/ /\ stage[b] = "first" /\ stage' = [stage EXCEPT ![b] = "second"]
               /\ pl_que' = IF Second(b) \in alive THEN Append(pl_que, Second(b)) ELSE pl_que
               /\ Second(b) \in Fighters /\ Second(b) \notin Players(pl_que)
<1>1. stage[b] \in {"waiting", "fought", "first", "second"}
  BY DEF ComeBack, Run
<1>2. ~Gathered /\ b \in 1 .. PairCount /\ stage[Gather] # "kept"
  BY <1>1, ActivePair
<1>3. /\ First(b) \in Fighters /\ Second(b) \in Fighters
      /\ stage[b] = "fought" => First(b) \notin Players(pl_que)
      /\ stage[b] = "first" => Second(b) \notin Players(pl_que)
  BY <1>2, PairPlaces, ListedNotQueued
<1>4. QED BY <1>2, <1>3 DEF ComeBack, Run, Queued

LEMMA KeepLastCases ==
  ASSUME Round, KeepLast
  PROVE  /\ stage[Gather] = "waiting" /\ ~Gathered /\ Unlowered = {} /\ UNCHANGED <<pl_ids, alive, ecnt, pi, game_at>>
         /\ \/ /\ Odd /\ Last(pl_ids) = pl_ids[Len(pl_ids)] /\ Len(pl_ids) \in DOMAIN pl_ids
               /\ pl_que' = Append(pl_que, Last(pl_ids)) /\ Last(pl_ids) \in Fighters
               /\ Last(pl_ids) \notin Players(pl_que)
               /\ stage' = [stage EXCEPT ![Gather] = "kept"]
            \/ ~Odd /\ pl_que # <<>> /\ UNCHANGED pl_que /\ stage' = [stage EXCEPT ![Gather] = "kept"]
            \/ ~Odd /\ pl_que = <<>> /\ UNCHANGED pl_que /\ stage' = [stage EXCEPT ![Gather] = "ended"]
<1>1. stage[Gather] = "waiting" /\ ~Gathered /\ ecnt <= 0
  BY DEF KeepLast, Run, Gathered
<1>2. Unlowered = {}
  BY <1>1, AllOver
<1>3. ASSUME Odd
      PROVE  /\ Last(pl_ids) = pl_ids[Len(pl_ids)] /\ Len(pl_ids) \in DOMAIN pl_ids
             /\ Last(pl_ids) \in Fighters /\ Last(pl_ids) \notin Players(pl_que)
  <2>1. Len(pl_ids) \in Nat /\ Len(pl_ids) # 0 /\ DOMAIN pl_ids = 1 .. Len(pl_ids)
    BY <1>3, Numbers DEF Odd, Round
  <2>2. Len(pl_ids) \in DOMAIN pl_ids
    BY <2>1
  <2>3. Listed(Len(pl_ids))
    BY <1>1, <1>3 DEF Listed
  <2>4. pl_ids[Len(pl_ids)] \notin Players(pl_que)
    BY <1>1, <2>2, <2>3, ListedNotQueued
  <2>5. pl_ids[Len(pl_ids)] \in Fighters
    BY <2>1, <2>2, ElementOfSeq DEF Round, TypeInv
  <2>6. QED BY <2>2, <2>4, <2>5 DEF Last
<1>4. QED BY <1>1, <1>2, <1>3 DEF KeepLast, Run

LEMMA QueueGrows ==
  ASSUME TypeInv
  PROVE  \A p \in Fighters :
           /\ Append(pl_que, p) \in Seq(Fighters)
           /\ Players(Append(pl_que, p)) = Players(pl_que) \cup {p}
           /\ p \notin Players(pl_que) => Distinct(Append(pl_que, p))
BY PlayersAppend DEF TypeInv

LEMMA TypeStep ==
  ASSUME Round, RoundStep
  PROVE  TypeInv'
<1> USE DEF TypeInv
<1>0. TypeInv /\ Gather \notin Pairs
  BY DEF Round, Pairs, Gather
<1>1. CASE BeginRound
  BY <1>0, <1>1 DEF BeginRound, PairStages, GatherStages
<1>2. CASE PushGather
  BY <1>0, <1>2 DEF PushGather, Run, PairStages, GatherStages
<1>3. CASE PushPair
  <2>1. PICK b \in Pairs : stage' = [stage EXCEPT ![b] = "waiting"]
    BY <1>3, NextPair DEF PushPair, Run
  <2>2. /\ stage' \in [Pairs \cup {Gather} -> GatherStages \cup PairStages]
        /\ stage'[Gather] \in GatherStages /\ \A c \in Pairs : stage'[c] \in PairStages
    BY <1>0, <2>1 DEF PairStages, GatherStages
  <2>3. pi' \in Nat /\ UNCHANGED <<pl_ids, pl_que, alive>>
    BY <1>0, <1>3 DEF PushPair
  <2>4. QED BY <1>0, <2>2, <2>3
<1>4. CASE PairsPushed \/ WaitOver \/ Overtaken
  BY <1>0, <1>4 DEF PairsPushed, WaitOver, Overtaken
<1>5. ASSUME NEW b \in Pairs, Fight(b) PROVE TypeInv'
  <2>1. /\ stage' \in [Pairs \cup {Gather} -> GatherStages \cup PairStages]
        /\ stage'[Gather] \in GatherStages /\ \A c \in Pairs : stage'[c] \in PairStages
    BY <1>0, <1>5 DEF Fight, Run, PairStages, GatherStages
  <2>2. alive' \subseteq alive /\ UNCHANGED <<pl_ids, pl_que, pi>>
    BY <1>5 DEF Fight
  <2>3. QED BY <1>0, <2>1, <2>2
<1>6. ASSUME NEW b \in Pairs, ComeBack(b) PROVE TypeInv'
  <2>1. /\ stage' \in [Pairs \cup {Gather} -> GatherStages \cup PairStages]
        /\ stage'[Gather] \in GatherStages /\ \A c \in Pairs : stage'[c] \in PairStages
    BY <1>0, <1>6, ComeBackCases DEF PairStages, GatherStages
  <2>2. pl_que' \in Seq(Fighters) /\ Distinct(pl_que')
    <3>1. \/ pl_que' = pl_que
          \/ \E p \in Fighters : p \notin Players(pl_que) /\ pl_que' = Append(pl_que, p)
      BY <1>6, ComeBackCases
    <3>2. QED BY <1>0, <3>1, QueueGrows
  <2>3. QED BY <1>0, <1>6, <2>1, <2>2 DEF ComeBack
<1>7. ASSUME NEW b \in Pairs, LowerEcnt(b) \/ EndPair(b) PROVE TypeInv'
  BY <1>0, <1>7 DEF LowerEcnt, EndPair, Run, PairStages, GatherStages
<1>8. CASE KeepLast
  <2>1. /\ stage' \in [Pairs \cup {Gather} -> GatherStages \cup PairStages]
        /\ stage'[Gather] \in GatherStages /\ \A c \in Pairs : stage'[c] \in PairStages
    BY <1>0, <1>8, KeepLastCases DEF PairStages, GatherStages
  <2>2. pl_que' \in Seq(Fighters) /\ Distinct(pl_que')
    <3>1. \/ pl_que' = pl_que
          \/ \E p \in Fighters : p \notin Players(pl_que) /\ pl_que' = Append(pl_que, p)
      BY <1>8, KeepLastCases
    <3>2. QED BY <1>0, <3>1, QueueGrows
  <2>3. QED BY <1>0, <1>8, <2>1, <2>2 DEF KeepLast
<1>9. CASE ClearIds
  <2>1. <<>> \in Seq(Fighters) /\ Distinct(<<>>)
    BY EmptySeq DEF Distinct
  <2>2. /\ stage' \in [Pairs \cup {Gather} -> GatherStages \cup PairStages]
        /\ stage'[Gather] \in GatherStages /\ \A c \in Pairs : stage'[c] \in PairStages
    BY <1>0, <1>9 DEF ClearIds, Run, PairStages, GatherStages
  <2>3. QED BY <1>0, <1>9, <2>1, <2>2 DEF ClearIds
<1>10. CASE TakeBack
  <2>1. /\ Tail(pl_que) \in Seq(Fighters) /\ Distinct(Tail(pl_que))
        /\ Head(pl_que) \in Fighters /\ Head(pl_que) \in Players(pl_que)
    BY <1>0, <1>10, PlayersTail DEF TakeBack
  <2>2. Head(pl_que) \notin Players(pl_ids)
    BY <1>10, <2>1 DEF Round, GatheredInv, Gathered, TakeBack
  <2>3. Append(pl_ids, Head(pl_que)) \in Seq(Fighters) /\ Distinct(Append(pl_ids, Head(pl_que)))
    BY <1>0, <2>1, <2>2, PlayersAppend
  <2>4. QED BY <1>0, <1>10, <2>1, <2>3 DEF TakeBack
<1>11. CASE Shuffle
  <2>1. PICK f \in [DOMAIN pl_ids -> DOMAIN pl_ids] : IsInjective(f) /\ pl_ids' = [k \in DOMAIN pl_ids |-> pl_ids[f[k]]]
    BY <1>11 DEF Shuffle
  <2>2. Len(pl_ids) \in Nat /\ DOMAIN pl_ids = 1 .. Len(pl_ids) /\ pl_ids \in [1 .. Len(pl_ids) -> Fighters]
    BY <1>0, LenProperties
  <2>3. pl_ids' \in [1 .. Len(pl_ids) -> Fighters]
    BY <2>1, <2>2
  <2>4. pl_ids' \in Seq(Fighters)
    BY <2>2, <2>3, SeqDef
  <2>5. Distinct(pl_ids')
    BY <1>0, <2>1, <2>2 DEF Distinct, IsInjective
  <2>6. /\ stage' \in [Pairs \cup {Gather} -> GatherStages \cup PairStages]
        /\ stage'[Gather] \in GatherStages /\ \A c \in Pairs : stage'[c] \in PairStages
    BY <1>0, <1>11 DEF Shuffle, Run, PairStages, GatherStages
  <2>7. QED BY <1>0, <1>11, <2>4, <2>5, <2>6 DEF Shuffle
<1>12. QED BY <1>1, <1>2, <1>3, <1>4, <1>5, <1>6, <1>7, <1>8, <1>9, <1>10, <1>11
           DEF RoundStep, GameNext, GameWork, PairJob, GatherJob, MainStep

LEMMA MainStays ==
  ASSUME Round, RoundStep
  PROVE  MainInv'
<1>0. MainInv /\ TypeInv /\ Gather \notin Pairs /\ stage \in [Pairs \cup {Gather} -> GatherStages \cup PairStages]
  BY DEF Round, TypeInv, Pairs, Gather
<1>1. CASE BeginRound
  <2>1. /\ \A j \in Pairs \cup {Gather} : stage'[j] = "new"
        /\ pi' = 0 /\ game_at' = "gather" /\ pl_ids' = pl_ids
    BY <1>0, <1>1 DEF BeginRound, Main
  <2>2. \A b \in Pairs : b \in Nat /\ b # 0
    BY <1>0, PairsFit
  <2>3. PairCount' \in Nat
    BY <1>0, <2>1, Numbers DEF PairCount
  <2>4. \A b \in Pairs : ~(b <= 0)
    BY <2>2
  <2>5. 0 <= PairCount'
    BY <2>3
  <2>6. QED BY <2>1, <2>4, <2>5 DEF MainInv, Gathered
<1>2. CASE PushGather
  <2>1. /\ stage' = [stage EXCEPT ![Gather] = "waiting"] /\ stage[Gather] = "new"
        /\ game_at = "gather" /\ game_at' = "pairs" /\ UNCHANGED <<pl_ids, pi>>
    BY <1>2 DEF PushGather, Run, Main
  <2>2. \A b \in Pairs : stage'[b] = stage[b]
    BY <1>0, <2>1
  <2>3. stage'[Gather] = "waiting"
    BY <1>0, <2>1
  <2>4. QED BY <1>0, <2>1, <2>2, <2>3 DEF MainInv, Gathered, PairCount
<1>3. CASE PushPair
  <2>1. ~Gathered /\ pi + 1 \in 1 .. PairCount /\ pi + 1 \in Pairs /\ stage[Gather] \notin {"kept", "new"}
    BY <1>3, NextPair
  <2>2. /\ stage' = [stage EXCEPT ![pi + 1] = "waiting"] /\ pi' = pi + 1
        /\ game_at = "pairs" /\ game_at' = "pairs" /\ UNCHANGED pl_ids
    BY <1>3 DEF PushPair, Run, Main
  <2>3. \A b \in Pairs : stage'[b] # "new" <=> (stage[b] # "new" \/ b = pi + 1)
    BY <1>0, <2>1, <2>2
  <2>4. \A b \in Pairs : b <= pi + 1 <=> (b <= pi \/ b = pi + 1)
    BY <1>0, PairsFit DEF TypeInv
  <2>5. \A b \in Pairs : stage'[b] # "new" <=> b <= pi'
    BY <1>0, <2>1, <2>2, <2>3, <2>4 DEF MainInv
  <2>6. pi' <= PairCount' /\ stage'[Gather] = stage[Gather]
    <3>1. stage'[Gather] = stage[Gather]
      BY <1>0, <2>1, <2>2
    <3>2. pi + 1 <= PairCount
      BY <2>1, Numbers, <1>0
    <3>3. QED BY <2>2, <3>1, <3>2 DEF PairCount
  <2>7. QED BY <1>0, <2>1, <2>2, <2>5, <2>6 DEF MainInv, Gathered
<1>4. CASE PairsPushed
  BY <1>0, <1>4 DEF PairsPushed, Main, MainInv, Gathered, PairCount
<1>5. CASE WaitOver
  <2>1. \A b \in Pairs \cup {Gather} : stage[b] \in {"new", "ended"}
    BY <1>0, <1>5 DEF WaitOver, AllEnded
  <2>2. stage[Gather] = "ended"
    BY <1>0, <1>5, <2>1 DEF WaitOver, MainInv, Main
  <2>3. game_at' \in {"round", "one left"} /\ UNCHANGED <<pl_ids, pl_que, stage, pi>>
    BY <1>5 DEF WaitOver, Main
  <2>4. game_at' = "one left" => Len(pl_ids') = 1
    BY <1>5, <2>3 DEF WaitOver, Main
  <2>5. QED BY <1>0, <2>1, <2>2, <2>3, <2>4 DEF MainInv, Gathered
<1>6. CASE Overtaken
  BY <1>0, <1>6 DEF Overtaken, Main, MainInv, Gathered, PairCount
<1>7. ASSUME NEW b \in Pairs, PairJob(b) PROVE MainInv'
  <2>1. UNCHANGED <<pl_ids, pi, game_at>>
    BY <1>7 DEF PairJob, Fight, ComeBack, LowerEcnt, EndPair
  <2>2. PICK to \in {"fought", "first", "second", "lowered", "ended"} : stage' = [stage EXCEPT ![b] = to]
    BY <1>7 DEF PairJob, Fight, ComeBack, LowerEcnt, EndPair, Run
  <2>3. \A c \in Pairs \ {b} : stage'[c] = stage[c]
    BY <1>0, <2>2
  <2>4. stage'[Gather] = stage[Gather] /\ stage'[b] = to
    BY <1>0, <2>2
  <2>5. stage[b] \in {"waiting", "fought", "first", "second", "lowered"}
    BY <1>7 DEF PairJob, Fight, ComeBack, LowerEcnt, EndPair, Run
  <2>6. CASE Gathered
    <3>1. stage[b] = "lowered" /\ to = "ended" /\ pl_que' = pl_que
      BY <1>0, <1>7, <2>2, <2>4, <2>5, <2>6, ActivePair DEF MainInv, PairJob, Fight, ComeBack, LowerEcnt, EndPair, Run
    <3>2. game_at \notin {"round", "one left", "gather"}
      BY <1>0, <3>1 DEF MainInv
    <3>3. QED BY <1>0, <2>1, <2>3, <2>4, <2>6, <3>1, <3>2 DEF MainInv, Gathered
  <2>7. CASE ~Gathered
    <3>1. game_at \notin {"round", "one left", "gather"}
      BY <1>0, <2>5 DEF MainInv
    <3>2. QED BY <1>0, <2>1, <2>3, <2>4, <2>5, <2>7, <3>1 DEF MainInv, Gathered, PairCount
  <2>8. QED BY <2>6, <2>7
<1>8. CASE KeepLast
  <2>1. /\ stage[Gather] = "waiting" /\ ~Gathered /\ Unlowered = {} /\ UNCHANGED <<pl_ids, pi, game_at>>
        /\ \/ stage' = [stage EXCEPT ![Gather] = "kept"]
           \/ pl_que' = <<>> /\ stage' = [stage EXCEPT ![Gather] = "ended"]
    BY <1>8, KeepLastCases
  <2>2. game_at \notin {"round", "one left", "gather"}
    BY <1>0, <2>1 DEF MainInv
  <2>3. \A b \in Pairs : stage'[b] = stage[b]
    BY <1>0, <2>1
  <2>4. CASE stage' = [stage EXCEPT ![Gather] = "kept"]
    <3>1. stage'[Gather] = "kept"
      BY <1>0, <2>4
    <3>2. QED BY <1>0, <2>1, <2>2, <2>3, <3>1 DEF MainInv, Gathered, PairCount
  <2>5. CASE pl_que' = <<>> /\ stage' = [stage EXCEPT ![Gather] = "ended"]
    <3>1. stage'[Gather] = "ended"
      BY <1>0, <2>5
    <3>2. pi = PairCount /\ \A b \in Pairs : b <= PairCount => stage[b] \in {"lowered", "ended"}
      BY <2>1, OverMeansPushed
    <3>3. \A b \in Pairs : stage[b] \in {"new", "lowered", "ended"}
      BY <1>0, <2>1, <3>2 DEF MainInv
    <3>5. (Len(pl_ids') + Len(pl_que')) \div 2 <= pi'
      <4>1. Len(pl_que') = 0 /\ Len(pl_ids) \in Nat /\ PairCount = Len(pl_ids) \div 2
        BY <1>0, <2>5, Numbers DEF PairCount
      <4>2. (Len(pl_ids) + 0) \div 2 <= pi
        BY <3>2, <4>1
      <4>3. QED BY <2>1, <4>1, <4>2
    <3>6. QED BY <1>0, <2>1, <2>2, <2>3, <3>1, <3>3, <3>5 DEF MainInv, Gathered
  <2>6. QED BY <2>1, <2>4, <2>5
<1>9. CASE ClearIds
  <2>1. /\ stage[Gather] = "kept" /\ stage' = [stage EXCEPT ![Gather] = "popping"]
        /\ pl_ids' = <<>> /\ UNCHANGED <<pl_que, pi, game_at>>
    BY <1>9 DEF ClearIds, Run
  <2>2. ~Gathered /\ Unlowered = {}
    BY <2>1 DEF Round, CountInv, Gathered
  <2>3. pi = PairCount /\ \A b \in Pairs : b <= PairCount => stage[b] \in {"lowered", "ended"}
    BY <2>2, OverMeansPushed
  <2>4. \A b \in Pairs : stage'[b] \in {"new", "lowered", "ended"}
    BY <1>0, <2>1, <2>2, <2>3 DEF MainInv
  <2>5. stage'[Gather] = "popping" /\ game_at \notin {"round", "one left", "gather"}
    BY <1>0, <2>1 DEF MainInv
  <2>6. Len(pl_que) <= Len(pl_ids)
    <3>1. Players(pl_que) \subseteq Players(pl_ids)
      BY <2>2 DEF Round, ListInv, Players
    <3>2. QED BY <1>0, <3>1, DistinctBound DEF TypeInv
  <2>7. (Len(pl_ids') + Len(pl_que')) \div 2 <= pi'
    <3>1. Len(pl_ids') = 0
      BY <2>1
    <3>2. (0 + Len(pl_que)) \div 2 <= Len(pl_ids) \div 2
      BY <1>0, <2>6, Numbers
    <3>3. QED BY <2>1, <2>3, <3>1, <3>2 DEF PairCount
  <2>8. QED BY <1>0, <2>1, <2>4, <2>5, <2>7 DEF MainInv, Gathered
<1>10. CASE TakeBack
  <2>1. Gathered /\ stage[Gather] = "popping" /\ UNCHANGED <<stage, pi, game_at>> /\ pl_que # <<>>
        /\ pl_ids' = Append(pl_ids, Head(pl_que)) /\ pl_que' = Tail(pl_que)
    BY <1>10 DEF TakeBack, Gathered
  <2>2. Len(pl_ids') + Len(pl_que') = Len(pl_ids) + Len(pl_que)
    <3>1. Len(pl_que') = Len(pl_que) - 1 /\ Len(pl_que) \in Nat /\ Head(pl_que) \in Fighters
      BY <1>0, <2>1, PlayersTail DEF TypeInv
    <3>2. Len(pl_ids') = Len(pl_ids) + 1 /\ Len(pl_ids) \in Nat
      BY <1>0, <2>1, <3>1, AppendProperties, Numbers DEF TypeInv
    <3>3. QED BY <3>1, <3>2
  <2>3. QED BY <1>0, <2>1, <2>2 DEF MainInv, Gathered
<1>11. CASE Shuffle
  <2>1. /\ stage[Gather] = "popping" /\ stage' = [stage EXCEPT ![Gather] = "ended"]
        /\ UNCHANGED <<pl_que, pi, game_at>>
    BY <1>11 DEF Shuffle, Run
  <2>2. DOMAIN pl_ids' = DOMAIN pl_ids
    BY <1>11 DEF Shuffle
  <2>3. Len(pl_ids') = Len(pl_ids)
    <3>1. Len(pl_ids) \in Nat /\ DOMAIN pl_ids = 1 .. Len(pl_ids)
      BY <1>0, Numbers
    <3>2. pl_ids' \in Seq(Fighters)
      BY TypeStep DEF TypeInv
    <3>3. QED BY <2>2, <3>1, <3>2, LenProperties
  <2>4. Gathered /\ \A b \in Pairs : stage'[b] = stage[b]
    BY <1>0, <2>1 DEF Gathered
  <2>5. stage'[Gather] = "ended" /\ game_at \notin {"gather"}
    BY <1>0, <2>1 DEF MainInv
  <2>6. QED BY <1>0, <2>1, <2>3, <2>4, <2>5 DEF MainInv, Gathered
<1>12. QED BY <1>1, <1>2, <1>3, <1>4, <1>5, <1>6, <1>7, <1>8, <1>9, <1>10, <1>11
           DEF RoundStep, GameNext, GameWork, GatherJob, MainStep

LEMMA CountStays ==
  ASSUME Round, RoundStep
  PROVE  CountInv'
<1>0. TypeInv /\ MainInv /\ CountInv /\ Gather \notin Pairs
      /\ stage \in [Pairs \cup {Gather} -> GatherStages \cup PairStages]
  BY DEF Round, TypeInv, Pairs, Gather
<1>1. IsFiniteSet(Unlowered) /\ 1 .. PairCount \subseteq Pairs
  BY <1>0, UnloweredFinite, PairsFit
<1>2. CASE BeginRound
  <2>1. /\ \A j \in Pairs \cup {Gather} : stage'[j] = "new"
        /\ ecnt' = Len(pl_ids) \div 2 /\ pl_ids' = pl_ids
    BY <1>0, <1>2 DEF BeginRound, FirstCount
  <2>2. Unlowered' = 1 .. PairCount
    BY <1>1, <2>1 DEF Unlowered, Over, PairCount
  <2>3. Cardinality(1 .. PairCount) = PairCount
    <3>1. 1 \in Int /\ PairCount \in Int /\ PairCount \in Nat
      BY <1>0, Numbers
    <3>2. Cardinality(1 .. PairCount) = (IF 1 > PairCount THEN 0 ELSE PairCount - 1 + 1)
      BY <3>1, FS_Interval
    <3>3. QED BY <3>1, <3>2
  <2>4. QED BY <2>1, <2>2, <2>3 DEF CountInv, PairCount
<1>3. CASE PushGather
  <2>1. \A b \in Pairs : stage'[b] = stage[b]
    BY <1>0, <1>3 DEF PushGather, Run
  <2>2. Unlowered' = Unlowered /\ ecnt' = ecnt
    BY <1>1, <1>3, <2>1 DEF PushGather, Unlowered, Over, PairCount
  <2>3. stage[Gather] = "new" /\ stage'[Gather] = "waiting"
    BY <1>0, <1>3 DEF PushGather, Run
  <2>4. QED BY <1>0, <2>2, <2>3 DEF CountInv, Gathered
<1>4. CASE PushPair
  <2>1. ~Gathered /\ pi + 1 \in Pairs /\ stage[Gather] # "kept"
    BY <1>4, NextPair
  <2>2. PICK b \in Pairs : stage[b] = "new" /\ stage' = [stage EXCEPT ![b] = "waiting"]
    BY <1>4, <2>1 DEF PushPair, Run
  <2>3. stage'[b] = "waiting" /\ \A c \in Pairs \ {b} : stage'[c] = stage[c]
    BY <1>0, <2>2
  <2>4. stage'[Gather] = stage[Gather]
    BY <1>0, <2>2
  <2>5. Unlowered' = Unlowered /\ ecnt' = ecnt
    BY <1>1, <1>4, <2>2, <2>3 DEF PushPair, Unlowered, Over, PairCount
  <2>6. QED BY <1>0, <2>1, <2>4, <2>5 DEF CountInv, Gathered
<1>5. CASE PairsPushed \/ WaitOver \/ Overtaken
  BY <1>0, <1>5 DEF PairsPushed, WaitOver, Overtaken, CountInv, Unlowered, Over, PairCount, Gathered
<1>6. ASSUME NEW b \in Pairs, Fight(b) \/ ComeBack(b)
      PROVE  CountInv'
  <2>1. PICK to \in {"fought", "first", "second"} :
          stage' = [stage EXCEPT ![b] = to] /\ stage[b] \in {"waiting", "fought", "first"}
    BY <1>6 DEF Fight, ComeBack, Run
  <2>2. stage'[b] = to /\ stage'[Gather] = stage[Gather] /\ \A c \in Pairs \ {b} : stage'[c] = stage[c]
    BY <1>0, <2>1
  <2>3. Unlowered' = Unlowered /\ ecnt' = ecnt
    BY <1>1, <1>6, <2>1, <2>2 DEF Fight, ComeBack, Unlowered, Over, PairCount
  <2>4. QED BY <1>0, <2>2, <2>3 DEF CountInv, Gathered
<1>7. ASSUME NEW b \in Pairs, LowerEcnt(b)
      PROVE  CountInv'
  <2>1. stage[b] = "second" /\ stage' = [stage EXCEPT ![b] = "lowered"] /\ ecnt' = ecnt - 1 /\ pl_ids' = pl_ids
    BY <1>7 DEF LowerEcnt, Run
  <2>2. ~Gathered /\ stage[Gather] # "kept" /\ b \in Unlowered
    BY <2>1, ActivePair
  <2>3. stage'[b] = "lowered" /\ stage'[Gather] = stage[Gather] /\ \A c \in Pairs \ {b} : stage'[c] = stage[c]
    BY <1>0, <2>1
  <2>4. Unlowered' = Unlowered \ {b}
    BY <1>1, <2>1, <2>3 DEF Unlowered, Over, PairCount
  <2>5. Cardinality(Unlowered') = Cardinality(Unlowered) - 1
    BY <1>1, <2>2, <2>4, FS_RemoveElement
  <2>6. QED BY <1>0, <2>1, <2>2, <2>3, <2>5 DEF CountInv, Gathered
<1>8. ASSUME NEW b \in Pairs, EndPair(b)
      PROVE  CountInv'
  <2>1. stage[b] = "lowered" /\ stage' = [stage EXCEPT ![b] = "ended"] /\ ecnt' = ecnt /\ pl_ids' = pl_ids
    BY <1>8 DEF EndPair, Run
  <2>2. stage'[b] = "ended" /\ stage'[Gather] = stage[Gather] /\ \A c \in Pairs \ {b} : stage'[c] = stage[c]
    BY <1>0, <2>1
  <2>3. Unlowered' = Unlowered
    BY <1>1, <2>1, <2>2 DEF Unlowered, Over, PairCount
  <2>4. QED BY <1>0, <2>1, <2>2, <2>3 DEF CountInv, Gathered
<1>9. CASE KeepLast
  <2>1. /\ ~Gathered /\ Unlowered = {} /\ UNCHANGED <<pl_ids, ecnt>>
        /\ \E to \in {"kept", "ended"} : stage' = [stage EXCEPT ![Gather] = to]
    BY <1>9, KeepLastCases
  <2>2. \A c \in Pairs : stage'[c] = stage[c]
    BY <1>0, <2>1
  <2>3. Unlowered' = Unlowered
    BY <1>1, <2>1, <2>2 DEF Unlowered, Over, PairCount
  <2>4. QED BY <1>0, <2>1, <2>3 DEF CountInv, Gathered
<1>10. CASE ClearIds \/ Shuffle
  <2>1. stage'[Gather] \in {"popping", "ended"}
    BY <1>0, <1>10 DEF ClearIds, Shuffle, Run
  <2>2. QED BY <2>1 DEF CountInv, Gathered
<1>11. CASE TakeBack
  <2>1. stage'[Gather] = "popping"
    BY <1>11 DEF TakeBack
  <2>2. QED BY <2>1 DEF CountInv, Gathered
<1>12. QED BY <1>2, <1>3, <1>4, <1>5, <1>6, <1>7, <1>8, <1>9, <1>10, <1>11
           DEF RoundStep, GameNext, GameWork, PairJob, GatherJob, MainStep

LEMMA GatheredStays ==
  ASSUME Round, RoundStep
  PROVE  GatheredInv'
<1>0. TypeInv /\ MainInv /\ Gather \notin Pairs
      /\ stage \in [Pairs \cup {Gather} -> GatherStages \cup PairStages]
  BY DEF Round, TypeInv, Pairs, Gather
<1>1. CASE BeginRound
  <2>1. stage'[Gather] = "new"
    BY <1>0, <1>1 DEF BeginRound
  <2>2. QED BY <2>1 DEF GatheredInv, Gathered
<1>2. CASE PushGather
  <2>1. stage'[Gather] = "waiting"
    BY <1>0, <1>2 DEF PushGather, Run
  <2>2. QED BY <2>1 DEF GatheredInv, Gathered
<1>3. CASE PushPair
  <2>1. ~Gathered /\ pi + 1 \in Pairs
    BY <1>3, NextPair
  <2>2. stage'[Gather] = stage[Gather]
    BY <1>0, <1>3, <2>1 DEF PushPair, Run
  <2>3. QED BY <2>1, <2>2 DEF GatheredInv, Gathered
<1>4. CASE PairsPushed \/ WaitOver \/ Overtaken
  BY <1>4 DEF PairsPushed, WaitOver, Overtaken, Round, GatheredInv, Gathered
<1>5. ASSUME NEW b \in Pairs, Fight(b) \/ ComeBack(b) \/ LowerEcnt(b)
      PROVE  GatheredInv'
  <2>1. stage[b] \in {"waiting", "fought", "first", "second"} /\ \E to : stage' = [stage EXCEPT ![b] = to]
    BY <1>5 DEF Fight, ComeBack, LowerEcnt, Run
  <2>2. ~Gathered /\ stage'[Gather] = stage[Gather]
    BY <1>0, <2>1, ActivePair
  <2>3. QED BY <2>2 DEF GatheredInv, Gathered
<1>6. ASSUME NEW b \in Pairs, EndPair(b)
      PROVE  GatheredInv'
  <2>1. stage'[Gather] = stage[Gather] /\ UNCHANGED <<pl_ids, pl_que, alive>>
    BY <1>0, <1>6 DEF EndPair, Run
  <2>2. QED BY <2>1 DEF Round, GatheredInv, Gathered
<1>7. CASE KeepLast
  <2>1. CASE stage' = [stage EXCEPT ![Gather] = "kept"]
    <3>1. stage'[Gather] = "kept"
      BY <1>0, <2>1
    <3>2. QED BY <3>1 DEF GatheredInv, Gathered
  <2>2. CASE stage' # [stage EXCEPT ![Gather] = "kept"]
    <3>1. ~Gathered /\ Unlowered = {} /\ UNCHANGED <<pl_ids, alive>> /\ ~Odd /\ pl_que = <<>> /\ pl_que' = <<>>
      BY <1>7, <2>2, KeepLastCases
    <3>2. PairCount = 0
      <4>1. SUFFICES ASSUME PairCount # 0 PROVE FALSE
        OBVIOUS
      <4>2. 1 \in 1 .. PairCount
        BY <1>0, <4>1, Numbers
      <4>3. Over(1)
        BY <3>1, <4>2 DEF Unlowered
      <4>4. First(1) \in alive \/ Second(1) \in alive
        BY <3>1, <4>2 DEF Round, ListInv
      <4>5. /\ 2 * 1 - 1 \in DOMAIN pl_ids /\ 2 * 1 \in DOMAIN pl_ids
            /\ First(1) = pl_ids[2 * 1 - 1] /\ Second(1) = pl_ids[2 * 1]
            /\ ~Listed(2 * 1 - 1) /\ ~Listed(2 * 1)
        BY <3>1, <4>2, <4>3, PairPlaces DEF Over
      <4>6. PICK k \in DOMAIN pl_ids : ~StillListed(k) /\ pl_ids[k] \in alive
        <5>1. ~StillListed(2 * 1 - 1) /\ ~StillListed(2 * 1)
          BY <3>1, <4>5, ListedWhen
        <5>2. QED BY <4>4, <4>5, <5>1
      <4>7. pl_ids[k] \in Players(pl_que)
        BY <3>1, <4>6 DEF Round, ListInv
      <4>8. QED BY <3>1, <4>7 DEF Players
    <3>3. pl_ids = <<>>
      <4>1. Len(pl_ids) \in Nat /\ Len(pl_ids) \div 2 = 0 /\ Len(pl_ids) % 2 # 1
        BY <1>0, <3>1, <3>2, Numbers DEF PairCount, Odd
      <4>2. Len(pl_ids) = 0
        BY <4>1
      <4>3. QED BY <1>0, <4>2, EmptySeq DEF TypeInv
    <3>4. alive = {}
      BY <3>1, <3>3 DEF Round, ListInv, Players
    <3>5. QED BY <3>1, <3>3, <3>4 DEF GatheredInv, Players
  <2>3. QED BY <2>1, <2>2
<1>8. CASE ClearIds
  <2>1. /\ stage[Gather] = "kept" /\ stage'[Gather] = "popping"
        /\ pl_ids' = <<>> /\ UNCHANGED <<pl_que, alive>>
    BY <1>0, <1>8 DEF ClearIds, Run
  <2>2. ~Gathered /\ Unlowered = {}
    BY <2>1 DEF Round, CountInv, Gathered
  <2>3. \A k \in DOMAIN pl_ids : ~StillListed(k)
    <3>1. SUFFICES ASSUME NEW k \in DOMAIN pl_ids PROVE ~Listed(k)
      BY <2>2, ListedWhen
    <3>2. CASE k = Len(pl_ids) /\ Odd
      BY <2>1, <3>2 DEF Listed
    <3>3. CASE ~(k = Len(pl_ids) /\ Odd)
      <4>1. (k + 1) \div 2 \in 1 .. PairCount
        BY <3>3, IndexPair
      <4>2. Over((k + 1) \div 2)
        BY <2>2, <4>1 DEF Unlowered
      <4>3. QED BY <3>3, <4>2 DEF Listed, Over
    <3>4. QED BY <3>2, <3>3
  <2>4. Players(pl_que) = Players(pl_ids) \cap alive /\ alive \subseteq Players(pl_ids)
    BY <2>2, <2>3 DEF Round, ListInv, Players
  <2>5. Players(pl_que) = alive
    BY <2>4
  <2>6. QED BY <2>1, <2>5 DEF GatheredInv, Players
<1>9. CASE TakeBack
  <2>1. Gathered /\ stage[Gather] = "popping" /\ UNCHANGED <<stage, alive>> /\ pl_que # <<>>
        /\ pl_ids' = Append(pl_ids, Head(pl_que)) /\ pl_que' = Tail(pl_que)
    BY <1>9 DEF TakeBack, Gathered
  <2>2. /\ Head(pl_que) \in Fighters /\ Head(pl_que) \notin Players(pl_que')
        /\ Players(pl_que) = Players(pl_que') \cup {Head(pl_que)}
    BY <1>0, <2>1, PlayersTail DEF TypeInv
  <2>3. Players(pl_ids') = Players(pl_ids) \cup {Head(pl_que)}
    BY <1>0, <2>1, <2>2, PlayersAppend DEF TypeInv
  <2>4. QED BY <2>1, <2>2, <2>3 DEF Round, GatheredInv, Gathered
<1>10. CASE Shuffle
  <2>1. Gathered /\ pl_que' = pl_que /\ alive' = alive /\ pl_que = <<>>
    BY <1>10 DEF Shuffle, Run, Gathered, RoundStep
  <2>2. PICK f \in [DOMAIN pl_ids -> DOMAIN pl_ids] : IsInjective(f) /\ pl_ids' = [k \in DOMAIN pl_ids |-> pl_ids[f[k]]]
    BY <1>10 DEF Shuffle
  <2>3. f \in Surjection(DOMAIN pl_ids, DOMAIN pl_ids)
    <3>1. f \in Injection(DOMAIN pl_ids, DOMAIN pl_ids)
      BY <2>2 DEF Injection, IsInjective
    <3>2. IsFiniteSet(DOMAIN pl_ids)
      <4>1. 1 \in Int /\ Len(pl_ids) \in Int /\ DOMAIN pl_ids = 1 .. Len(pl_ids)
        BY <1>0, Numbers
      <4>2. QED BY <4>1, FS_Interval
    <3>3. QED BY <3>1, <3>2, FS_Injection
  <2>4. \A i \in DOMAIN pl_ids : \E k \in DOMAIN pl_ids : f[k] = i
    BY <2>3 DEF Surjection
  <2>5. Players(pl_ids') = Players(pl_ids)
    BY <2>2, <2>4 DEF Players
  <2>6. QED BY <2>1, <2>5 DEF Round, GatheredInv
<1>11. QED BY <1>1, <1>2, <1>3, <1>4, <1>5, <1>6, <1>7, <1>8, <1>9, <1>10
           DEF RoundStep, GameNext, GameWork, PairJob, GatherJob, MainStep
-----------------------------------------------------------------------------
(* The list stands through the step. *)

LEMMA ListForm ==
  ASSUME Round, ~Gathered
  PROVE  /\ alive \subseteq Players(pl_ids)
         /\ Players(pl_que) = {pl_ids[k] : k \in {i \in DOMAIN pl_ids : ~Listed(i)}} \cap alive
         /\ \A k \in DOMAIN pl_ids :
              (k = Len(pl_ids) /\ Odd) \/ ~Fought((k + 1) \div 2) => pl_ids[k] \in alive
         /\ \A b \in 1 .. PairCount : First(b) \in alive \/ Second(b) \in alive
<1>1. \A k : StillListed(k) <=> Listed(k)
  BY ListedWhen
<1> HIDE DEF StillListed, Listed
<1>2. QED BY <1>1 DEF Round, ListInv

LEMMA ListFormNext ==
  ASSUME MainInv', ~Gathered',
         /\ alive' \subseteq Players(pl_ids')
         /\ Players(pl_que') = {pl_ids'[k] : k \in {i \in DOMAIN pl_ids' : ~Listed(i)'}} \cap alive'
         /\ \A k \in DOMAIN pl_ids' :
              (k = Len(pl_ids') /\ Odd') \/ ~Fought((k + 1) \div 2)' => pl_ids'[k] \in alive'
         /\ \A b \in 1 .. PairCount' : First(b)' \in alive' \/ Second(b)' \in alive'
  PROVE  ListInv'
<1>1. \A k : StillListed(k)' <=> Listed(k)'
  BY DEF MainInv, Gathered, StillListed, Listed
<1> HIDE DEF StillListed, Listed
<1>2. QED BY <1>1 DEF ListInv

\* Nobody enters the queue, and nobody leaves the list.
LEMMA ListKept ==
  ASSUME Round, ~Gathered, MainInv', ~Gathered', UNCHANGED <<pl_ids, pl_que, alive>>,
         \A k \in DOMAIN pl_ids : Listed(k)' <=> Listed(k),
         \A b \in 1 .. PairCount : Fought(b) => Fought(b)'
  PROVE  ListInv'
<1>1. \A k \in DOMAIN pl_ids : (k = Len(pl_ids) /\ Odd) \/ (k + 1) \div 2 \in 1 .. PairCount
  BY IndexPair
<1> HIDE DEF Listed
<1>2. Players(pl_que') = {pl_ids'[k] : k \in {i \in DOMAIN pl_ids' : ~Listed(i)'}} \cap alive'
  BY ListForm
<1>3. \A k \in DOMAIN pl_ids' :
        (k = Len(pl_ids') /\ Odd') \/ ~Fought((k + 1) \div 2)' => pl_ids'[k] \in alive'
  BY <1>1, ListForm DEF Odd
<1>4. \A b \in 1 .. PairCount' : First(b)' \in alive' \/ Second(b)' \in alive'
  BY ListForm DEF PairCount, First, Second
<1>5. QED BY <1>2, <1>3, <1>4, ListForm, ListFormNext

\* One player leaves the list, and is queued if alive.
LEMMA ListLeft ==
  ASSUME Round, ~Gathered, MainInv', ~Gathered', UNCHANGED <<pl_ids, alive>>,
         NEW i \in DOMAIN pl_ids,
         \A k \in DOMAIN pl_ids : Listed(k)' <=> Listed(k) /\ k # i,
         \A b \in 1 .. PairCount : Fought(b) => Fought(b)',
         pl_que' = IF pl_ids[i] \in alive THEN Append(pl_que, pl_ids[i]) ELSE pl_que
  PROVE  ListInv'
<1>1. \A k \in DOMAIN pl_ids : (k = Len(pl_ids) /\ Odd) \/ (k + 1) \div 2 \in 1 .. PairCount
  BY IndexPair
<1>2. pl_ids[i] \in Fighters
  BY ElementOfSeq, Numbers DEF Round, TypeInv
<1>3. Players(pl_que') = IF pl_ids[i] \in alive THEN Players(pl_que) \cup {pl_ids[i]} ELSE Players(pl_que)
  BY <1>2, QueueGrows DEF Round
<1> HIDE DEF Listed
<1>4. {k \in DOMAIN pl_ids' : ~Listed(k)'} = {k \in DOMAIN pl_ids : ~Listed(k)} \cup {i}
  OBVIOUS
<1>5. Players(pl_que') = {pl_ids'[k] : k \in {j \in DOMAIN pl_ids' : ~Listed(j)'}} \cap alive'
  <2> DEFINE S == {k \in DOMAIN pl_ids : ~Listed(k)}
  <2>1. Players(pl_que) = {pl_ids[k] : k \in S} \cap alive
    BY ListForm
  <2>2. {k \in DOMAIN pl_ids' : ~Listed(k)'} = S \cup {i}
    BY <1>4
  <2> HIDE DEF S
  <2>3. {pl_ids[k] : k \in S \cup {i}} = {pl_ids[k] : k \in S} \cup {pl_ids[i]}
    OBVIOUS
  <2>4. QED BY <1>3, <2>1, <2>2, <2>3
<1>6. \A k \in DOMAIN pl_ids' :
        (k = Len(pl_ids') /\ Odd') \/ ~Fought((k + 1) \div 2)' => pl_ids'[k] \in alive'
  BY <1>1, ListForm DEF Odd
<1>7. \A b \in 1 .. PairCount' : First(b)' \in alive' \/ Second(b)' \in alive'
  BY ListForm DEF PairCount, First, Second
<1>8. QED BY <1>5, <1>6, <1>7, ListForm, ListFormNext

\* What of a pair is on the list.
Half(b) == IF stage[b] \in {"new", "waiting", "fought"} THEN "both"
           ELSE IF stage[b] = "first" THEN "second" ELSE "none"

LEMMA ListedSame ==
  ASSUME Round, pl_ids' = pl_ids, NEW k \in DOMAIN pl_ids,
         \A b \in 1 .. PairCount : Half(b)' = Half(b),
         Odd => (stage'[Gather] = "kept" <=> stage[Gather] = "kept")
  PROVE  Listed(k)' <=> Listed(k)
<1>1. CASE k = Len(pl_ids) /\ Odd
  BY <1>1 DEF Listed, Odd
<1>2. CASE ~(k = Len(pl_ids) /\ Odd)
  <2> DEFINE b == (k + 1) \div 2
  <2>1. b \in 1 .. PairCount
    BY <1>2, IndexPair
  <2>2. ~(k = Len(pl_ids') /\ Odd')
    BY <1>2 DEF Odd
  <2>3. Listed(k) <=> stage[b] \in {"new", "waiting", "fought"} \cup (IF k % 2 = 0 THEN {"first"} ELSE {})
    BY <1>2 DEF Listed
  <2>4. Listed(k)' <=> stage'[b] \in {"new", "waiting", "fought"} \cup (IF k % 2 = 0 THEN {"first"} ELSE {})
    BY <2>2 DEF Listed
  <2> HIDE DEF b
  <2>5. Half(b)' = Half(b)
    BY <2>1
  <2>6. QED BY <2>3, <2>4, <2>5 DEF Half
<1>3. QED BY <1>1, <1>2
\* The index i is the only one whose player a step of pair c takes off the list.
LEMMA ListedLess ==
  ASSUME Round, ~Gathered, pl_ids' = pl_ids, stage'[Gather] = stage[Gather], NEW c \in 1 .. PairCount,
         \A b \in 1 .. PairCount \ {c} : stage'[b] = stage[b],
         NEW i \in DOMAIN pl_ids,
         \/ stage[c] = "fought" /\ stage'[c] = "first" /\ i = 2 * c - 1
         \/ stage[c] = "first" /\ stage'[c] = "second" /\ i = 2 * c,
         NEW k \in DOMAIN pl_ids
  PROVE  Listed(k)' <=> Listed(k) /\ k # i
<1>0. c \in Nat /\ c >= 1
  BY Numbers DEF Round
<1>1. CASE k = Len(pl_ids) /\ Odd
  <2>1. ~(2 * c - 1 = Len(pl_ids) /\ Len(pl_ids) % 2 = 1) /\ ~(2 * c = Len(pl_ids) /\ Len(pl_ids) % 2 = 1)
    BY Numbers, PairIndexes DEF Round, PairCount
  <2>2. k # i
    BY <1>1, <2>1 DEF Odd
  <2>3. QED BY <1>1, <2>2 DEF Listed, Odd
<1>2. CASE ~(k = Len(pl_ids) /\ Odd)
  <2> DEFINE b == (k + 1) \div 2
  <2>1. b \in 1 .. PairCount /\ (k = 2 * b - 1 \/ k = 2 * b)
    BY <1>2, IndexPair
  <2>2. ~(k = Len(pl_ids') /\ Odd')
    BY <1>2 DEF Odd
  <2>3. Listed(k) <=> stage[b] \in {"new", "waiting", "fought"} \cup (IF k % 2 = 0 THEN {"first"} ELSE {})
    BY <1>2 DEF Listed
  <2>4. Listed(k)' <=> stage'[b] \in {"new", "waiting", "fought"} \cup (IF k % 2 = 0 THEN {"first"} ELSE {})
    BY <2>2 DEF Listed
  <2>5. k \in Nat /\ k >= 1
    BY Numbers DEF Round
  <2>6. k % 2 = 0 <=> k = 2 * b
    BY <2>5, HalfOf
  <2>7. b \in Nat /\ b >= 1
    BY <2>1, Numbers DEF Round
  <2> HIDE DEF b
  <2>8. CASE b # c
    <3>1. k # i /\ stage'[b] = stage[b]
      BY <1>0, <2>1, <2>7, <2>8
    <3>2. QED BY <2>3, <2>4, <3>1
  <2>9. CASE b = c /\ stage[c] = "fought"
    <3>1. i = 2 * c - 1 /\ stage'[c] = "first"
      BY <2>9
    <3>2. k # i <=> k = 2 * b
      BY <1>0, <2>1, <2>9, <3>1
    <3>3. QED BY <2>3, <2>4, <2>6, <2>9, <3>1, <3>2
  <2>10. CASE b = c /\ stage[c] = "first"
    <3>1. i = 2 * c /\ stage'[c] = "second"
      BY <2>10
    <3>2. k # i <=> k # 2 * b
      BY <2>10, <3>1
    <3>3. QED BY <2>3, <2>4, <2>6, <2>10, <3>1, <3>2
  <2>11. QED BY <2>8, <2>9, <2>10
<1>3. QED BY <1>1, <1>2

LEMMA FightList ==
  ASSUME Round, NEW b \in Pairs, Fight(b), MainInv'
  PROVE  ListInv'
<1>1. stage[b] = "waiting" /\ stage' = [stage EXCEPT ![b] = "fought"] /\ UNCHANGED <<pl_ids, pl_que>>
      /\ alive' \in {alive, alive \ {First(b)}, alive \ {Second(b)}}
  BY DEF Fight, Run
<1>2. ~Gathered /\ b \in 1 .. PairCount /\ 1 .. PairCount \subseteq Pairs /\ Gather \notin Pairs
  BY <1>1, ActivePair, PairsFit DEF Round, Pairs, Gather
<1>3. /\ stage'[b] = "fought" /\ stage'[Gather] = stage[Gather]
      /\ \A c \in 1 .. PairCount \ {b} : stage'[c] = stage[c]
  BY <1>1, <1>2 DEF Round, TypeInv
<1>4. ~Gathered'
  BY <1>2, <1>3 DEF Gathered
<1>5. \A c \in 1 .. PairCount : Half(c)' = Half(c)
  BY <1>1, <1>3 DEF Half
<1>6. \A k \in DOMAIN pl_ids : Listed(k)' <=> Listed(k)
  BY <1>1, <1>3, <1>5, ListedSame
<1>7. /\ 2 * b - 1 \in DOMAIN pl_ids /\ 2 * b \in DOMAIN pl_ids
      /\ First(b) = pl_ids[2 * b - 1] /\ Second(b) = pl_ids[2 * b] /\ First(b) # Second(b)
      /\ Listed(2 * b - 1) /\ Listed(2 * b)
      /\ b \in Nat
  BY <1>1, <1>2, PairPlaces, Numbers DEF Round
<1>8. \A j, k \in DOMAIN pl_ids : pl_ids[j] = pl_ids[k] => j = k
  BY DEF Round, TypeInv, Distinct
<1>9. \A k \in DOMAIN pl_ids : (k = Len(pl_ids) /\ Odd) \/ ((k + 1) \div 2 \in 1 .. PairCount)
  BY IndexPair
<1>10. /\ ~(2 * b - 1 = Len(pl_ids) /\ Odd) /\ ~(2 * b = Len(pl_ids) /\ Odd)
       /\ ((2 * b - 1) + 1) \div 2 = b /\ (2 * b + 1) \div 2 = b
  BY <1>2, PairIndexes, Numbers DEF Round, PairCount, Odd
<1> DEFINE i1 == 2 * b - 1
           i2 == 2 * b
<1>11. /\ i1 \in DOMAIN pl_ids /\ i2 \in DOMAIN pl_ids
       /\ First(b) = pl_ids[i1] /\ Second(b) = pl_ids[i2] /\ First(b) # Second(b)
       /\ Listed(i1) /\ Listed(i2)
       /\ ~(i1 = Len(pl_ids) /\ Odd) /\ ~(i2 = Len(pl_ids) /\ Odd)
       /\ (i1 + 1) \div 2 = b /\ (i2 + 1) \div 2 = b
  BY <1>7, <1>10
<1>12. \A k \in DOMAIN pl_ids : (k + 1) \div 2 # b \/ (k = Len(pl_ids) /\ Odd) => k # i1 /\ k # i2
  BY <1>11
<1> HIDE DEF i1, i2, Listed
<1>13. Players(pl_que') = {pl_ids'[k] : k \in {i \in DOMAIN pl_ids' : ~Listed(i)'}} \cap alive'
  <2>1. {i \in DOMAIN pl_ids' : ~Listed(i)'} = {i \in DOMAIN pl_ids : ~Listed(i)}
    BY <1>1, <1>6
  <2> DEFINE P == {pl_ids[k] : k \in {i \in DOMAIN pl_ids : ~Listed(i)}}
  <2>2. First(b) \notin P /\ Second(b) \notin P
    BY <1>8, <1>11
  <2>3. {pl_ids'[k] : k \in {i \in DOMAIN pl_ids' : ~Listed(i)'}} = P
    BY <1>1, <2>1
  <2>4. Players(pl_que) = P \cap alive
    BY <1>2, ListForm
  <2> HIDE DEF P
  <2>5. QED BY <1>1, <2>2, <2>3, <2>4
<1>14. \A k \in DOMAIN pl_ids' :
         (k = Len(pl_ids') /\ Odd') \/ ~Fought((k + 1) \div 2)' => pl_ids'[k] \in alive'
  <2>1. SUFFICES ASSUME NEW k \in DOMAIN pl_ids, (k = Len(pl_ids) /\ Odd) \/ ~Fought((k + 1) \div 2)'
                 PROVE  pl_ids[k] \in alive'
    BY <1>1 DEF Odd
  <2>2. Fought(b)'
    BY <1>3 DEF Fought
  <2>3. k # i1 /\ k # i2
    BY <1>12, <2>1, <2>2
  <2>4. (k = Len(pl_ids) /\ Odd) \/ ~Fought((k + 1) \div 2)
    BY <1>3, <1>9, <2>1, <2>2 DEF Fought
  <2>5. pl_ids[k] \in alive
    BY <1>2, <2>4, ListForm
  <2>6. QED BY <1>1, <1>8, <1>11, <2>3, <2>5
<1>15. \A c \in 1 .. PairCount' : First(c)' \in alive' \/ Second(c)' \in alive'
  <2>1. PairCount' = PairCount
    BY <1>1 DEF PairCount
  <2>2. ASSUME NEW c \in 1 .. PairCount PROVE First(c) \in alive' \/ Second(c) \in alive'
    <3>1. CASE c = b
      <4>1. ~Fought(b)
        BY <1>1 DEF Fought
      <4>2. First(b) \in alive /\ Second(b) \in alive
        BY <1>2, <1>11, <4>1, ListForm
      <4>3. QED BY <1>1, <1>11, <3>1, <4>2
    <3>2. CASE c # b
      <4>1. First(c) \in alive \/ Second(c) \in alive
        BY <1>2, ListForm
      <4>2. /\ 2 * c - 1 \in DOMAIN pl_ids /\ 2 * c \in DOMAIN pl_ids
            /\ First(c) = pl_ids[2 * c - 1] /\ Second(c) = pl_ids[2 * c]
            /\ c \in Nat
        BY <1>2, PairPlaces, Numbers DEF Round
      <4>3. /\ 2 * c - 1 # i1 /\ 2 * c - 1 # i2 /\ 2 * c # i1 /\ 2 * c # i2
        BY <1>7, <3>2, <4>2 DEF i1, i2
      <4>4. First(c) # First(b) /\ First(c) # Second(b) /\ Second(c) # First(b) /\ Second(c) # Second(b)
        BY <1>8, <1>11, <4>2, <4>3
      <4>5. QED BY <1>1, <4>1, <4>4
    <3>3. QED BY <3>1, <3>2
  <2>3. \A c : First(c)' = First(c) /\ Second(c)' = Second(c)
    BY <1>1 DEF First, Second
  <2>4. QED BY <2>1, <2>2, <2>3
<1>16. alive' \subseteq Players(pl_ids')
  BY <1>1, <1>2, ListForm
<1>17. QED BY <1>4, <1>13, <1>14, <1>15, <1>16, ListFormNext

LEMMA ListStays ==
  ASSUME Round, RoundStep
  PROVE  ListInv'
<1>0. /\ TypeInv /\ MainInv /\ Gather \notin Pairs
      /\ stage \in [Pairs \cup {Gather} -> GatherStages \cup PairStages]
  BY DEF Round, TypeInv, Pairs, Gather
<1>1. MainInv' /\ 1 .. PairCount \subseteq Pairs
  BY <1>0, MainStays, PairsFit
<1>2. CASE BeginRound
  <2>1. /\ \A j \in Pairs \cup {Gather} : stage'[j] = "new"
        /\ game_at = "round" /\ UNCHANGED <<pl_ids, pl_que, alive>>
    BY <1>0, <1>2 DEF BeginRound, Main
  <2>2. stage[Gather] = "ended" /\ Gathered /\ ~Gathered'
    BY <1>0, <2>1 DEF MainInv, Gathered
  <2>3. Players(pl_ids) = alive /\ Players(pl_que) = {}
    BY <2>2 DEF Round, GatheredInv, Players
  <2>4. \A k \in DOMAIN pl_ids : Listed(k)'
    <3>1. SUFFICES ASSUME NEW k \in DOMAIN pl_ids PROVE Listed(k)'
      OBVIOUS
    <3>2. CASE k = Len(pl_ids) /\ Odd
      BY <2>1, <3>2 DEF Listed, Odd
    <3>3. CASE ~(k = Len(pl_ids) /\ Odd)
      <4>1. (k + 1) \div 2 \in Pairs
        BY <1>1, <3>3, IndexPair
      <4>2. stage'[(k + 1) \div 2] = "new" /\ ~(k = Len(pl_ids') /\ Odd')
        BY <2>1, <3>3, <4>1 DEF Odd
      <4>3. QED BY <4>2 DEF Listed
    <3>4. QED BY <3>2, <3>3
  <2> HIDE DEF Listed
  <2>5. \A k \in DOMAIN pl_ids : pl_ids[k] \in alive
    BY <2>3 DEF Players
  <2>6. \A b \in 1 .. PairCount' : First(b)' \in alive' \/ Second(b)' \in alive'
    <3>1. SUFFICES ASSUME NEW b \in 1 .. PairCount PROVE First(b)' \in alive
      BY <2>1 DEF PairCount
    <3>2. 2 * b - 1 \in DOMAIN pl_ids
      BY <1>0, Numbers, PairIndexes DEF PairCount
    <3>3. QED BY <2>1, <2>5, <3>2 DEF First
  <2>7. Players(pl_que') = {pl_ids'[k] : k \in {i \in DOMAIN pl_ids' : ~Listed(i)'}} \cap alive'
    BY <2>1, <2>3, <2>4
  <2>8. \A k \in DOMAIN pl_ids' : pl_ids'[k] \in alive'
    BY <2>1, <2>5
  <2>9. alive' \subseteq Players(pl_ids')
    BY <2>1, <2>3
  <2>10. QED BY <1>1, <2>2, <2>6, <2>7, <2>8, <2>9, ListFormNext
<1>3. CASE PushGather
  <2>1. /\ stage[Gather] = "new" /\ stage'[Gather] = "waiting" /\ UNCHANGED <<pl_ids, pl_que, alive>>
        /\ \A b \in Pairs : stage'[b] = stage[b]
    BY <1>0, <1>3 DEF PushGather, Run
  <2>2. ~Gathered /\ ~Gathered'
    BY <2>1 DEF Gathered
  <2>3. \A b \in 1 .. PairCount : Half(b)' = Half(b) /\ (Fought(b) => Fought(b)')
    BY <1>1, <2>1 DEF Half, Fought
  <2>4. \A k \in DOMAIN pl_ids : Listed(k)' <=> Listed(k)
    BY <2>1, <2>3, ListedSame
  <2>5. QED BY <1>1, <2>1, <2>2, <2>3, <2>4, ListKept
<1>4. CASE PushPair
  <2>1. ~Gathered /\ pi + 1 \in Pairs
    BY <1>4, NextPair
  <2>2. PICK b \in Pairs : stage[b] = "new" /\ stage' = [stage EXCEPT ![b] = "waiting"]
    BY <1>4, <2>1 DEF PushPair, Run
  <2>3. /\ stage'[b] = "waiting" /\ (\A c \in Pairs \ {b} : stage'[c] = stage[c])
        /\ stage'[Gather] = stage[Gather] /\ UNCHANGED <<pl_ids, pl_que, alive>>
    BY <1>0, <1>4, <2>2 DEF PushPair
  <2>4. ~Gathered'
    BY <2>1, <2>3 DEF Gathered
  <2>5. \A c \in 1 .. PairCount : Half(c)' = Half(c) /\ (Fought(c) => Fought(c)')
    BY <1>1, <2>2, <2>3 DEF Half, Fought
  <2>6. \A k \in DOMAIN pl_ids : Listed(k)' <=> Listed(k)
    BY <2>3, <2>5, ListedSame
  <2>7. QED BY <1>1, <2>1, <2>3, <2>4, <2>5, <2>6, ListKept
<1>5. CASE PairsPushed \/ Overtaken
  <2>1. UNCHANGED <<stage, pl_ids, pl_que, alive>>
    BY <1>5 DEF PairsPushed, Overtaken
  <2>2. SUFFICES ASSUME ~Gathered' PROVE ListInv'
    BY DEF ListInv
  <2>3. ~Gathered
    BY <2>1, <2>2 DEF Gathered
  <2>4. \A c \in 1 .. PairCount : Half(c)' = Half(c) /\ (Fought(c) => Fought(c)')
    BY <2>1 DEF Half, Fought
  <2>5. \A k \in DOMAIN pl_ids : Listed(k)' <=> Listed(k)
    BY <2>1, <2>4, ListedSame
  <2>6. QED BY <1>1, <2>1, <2>2, <2>3, <2>4, <2>5, ListKept
<1>6. CASE WaitOver
  <2>1. game_at' \in {"round", "one left"}
    BY <1>6 DEF WaitOver, Main
  <2>2. QED BY <1>1, <2>1 DEF MainInv, ListInv, Gathered
<1>7. ASSUME NEW b \in Pairs, Fight(b) PROVE ListInv'
  BY <1>1, <1>7, FightList
<1>8. ASSUME NEW b \in Pairs, ComeBack(b) PROVE ListInv'
  <2>1. /\ ~Gathered /\ b \in 1 .. PairCount /\ UNCHANGED <<pl_ids, alive>>
        /\ 2 * b - 1 \in DOMAIN pl_ids /\ 2 * b \in DOMAIN pl_ids
        /\ First(b) = pl_ids[2 * b - 1] /\ Second(b) = pl_ids[2 * b]
    BY <1>8, ComeBackCases, PairPlaces DEF ComeBack
  <2>2. PICK i \in DOMAIN pl_ids, to \in {"first", "second"} :
          /\ stage' = [stage EXCEPT ![b] = to]
          /\ \/ stage[b] = "fought" /\ to = "first" /\ i = 2 * b - 1
             \/ stage[b] = "first" /\ to = "second" /\ i = 2 * b
          /\ pl_que' = IF pl_ids[i] \in alive THEN Append(pl_que, pl_ids[i]) ELSE pl_que
    <3>1. CASE stage[b] = "fought" /\ stage' = [stage EXCEPT ![b] = "first"]
      BY <1>8, <2>1, <3>1, ComeBackCases
    <3>2. CASE stage[b] = "first" /\ stage' = [stage EXCEPT ![b] = "second"]
      BY <1>8, <2>1, <3>2, ComeBackCases
    <3>3. QED BY <1>8, <3>1, <3>2, ComeBackCases
  <2>3. /\ stage'[b] = to /\ stage'[Gather] = stage[Gather]
        /\ \A c \in Pairs \ {b} : stage'[c] = stage[c]
    BY <1>0, <2>2
  <2>4. ~Gathered'
    BY <2>1, <2>3 DEF Gathered
  <2>5. \A c \in 1 .. PairCount \ {b} : stage'[c] = stage[c]
    BY <1>1, <2>3
  <2>6. \A k \in DOMAIN pl_ids : Listed(k)' <=> Listed(k) /\ k # i
    BY <2>1, <2>2, <2>3, <2>5, ListedLess
  <2>7. \A c \in 1 .. PairCount : Fought(c) => Fought(c)'
    BY <2>2, <2>3, <2>5 DEF Fought
  <2>8. QED BY <1>1, <2>1, <2>2, <2>4, <2>6, <2>7, ListLeft
<1>9. ASSUME NEW b \in Pairs, LowerEcnt(b) \/ EndPair(b) PROVE ListInv'
  <2>1. SUFFICES ASSUME ~Gathered' PROVE ListInv'
    BY DEF ListInv
  <2>2. PICK to \in {"lowered", "ended"} : stage' = [stage EXCEPT ![b] = to] /\ stage[b] \in {"second", "lowered"}
    BY <1>9 DEF LowerEcnt, EndPair, Run
  <2>3. /\ stage'[b] = to /\ stage'[Gather] = stage[Gather] /\ UNCHANGED <<pl_ids, pl_que, alive>>
        /\ \A c \in Pairs \ {b} : stage'[c] = stage[c]
    BY <1>0, <1>9, <2>2 DEF LowerEcnt, EndPair
  <2>4. ~Gathered
    BY <2>1, <2>3 DEF Gathered
  <2>5. \A c \in 1 .. PairCount : Half(c)' = Half(c) /\ (Fought(c) => Fought(c)')
    BY <1>1, <2>2, <2>3 DEF Half, Fought
  <2>6. \A k \in DOMAIN pl_ids : Listed(k)' <=> Listed(k)
    BY <2>3, <2>5, ListedSame
  <2>7. QED BY <1>1, <2>1, <2>3, <2>4, <2>5, <2>6, ListKept
<1>10. CASE KeepLast
  <2>1. SUFFICES ASSUME ~Gathered' PROVE ListInv'
    BY DEF ListInv
  <2>2. stage[Gather] = "waiting" /\ ~Gathered /\ UNCHANGED <<pl_ids, alive>>
    BY <1>10, KeepLastCases
  <2>3. PICK to : stage' = [stage EXCEPT ![Gather] = to]
    BY <1>10, KeepLastCases
  <2>4. stage'[Gather] = to /\ \A b \in Pairs : stage'[b] = stage[b]
    BY <1>0, <2>3
  <2>5. \A c \in 1 .. PairCount : Half(c)' = Half(c) /\ (Fought(c) => Fought(c)')
    BY <1>1, <2>4 DEF Half, Fought
  <2>6. CASE ~Odd
    <3>1. pl_que' = pl_que
      BY <1>10, <2>6, KeepLastCases
    <3>2. \A k \in DOMAIN pl_ids : Listed(k)' <=> Listed(k)
      BY <2>2, <2>5, <2>6, ListedSame
    <3>3. QED BY <1>1, <2>1, <2>2, <2>5, <3>1, <3>2, ListKept
  <2>7. CASE Odd
    <3>1. /\ Len(pl_ids) \in DOMAIN pl_ids /\ pl_que' = Append(pl_que, pl_ids[Len(pl_ids)])
          /\ stage'[Gather] = "kept"
      BY <1>0, <1>10, <2>7, KeepLastCases
    <3>2. pl_ids[Len(pl_ids)] \in alive
      BY <2>2, <2>7, <3>1, ListForm
    <3>3. \A k \in DOMAIN pl_ids : Listed(k)' <=> Listed(k) /\ k # Len(pl_ids)
      <4>1. SUFFICES ASSUME NEW k \in DOMAIN pl_ids PROVE Listed(k)' <=> Listed(k) /\ k # Len(pl_ids)
        OBVIOUS
      <4>2. CASE k = Len(pl_ids)
        BY <2>2, <2>7, <3>1, <4>2 DEF Listed, Odd
      <4>3. CASE k # Len(pl_ids)
        <5>1. stage'[(k + 1) \div 2] = stage[(k + 1) \div 2]
          BY <1>1, <2>4, <4>3, IndexPair
        <5>2. QED BY <2>2, <4>3, <5>1 DEF Listed
      <4>4. QED BY <4>2, <4>3
    <3>4. QED BY <1>1, <2>1, <2>2, <2>5, <3>1, <3>2, <3>3, ListLeft
  <2>8. QED BY <2>6, <2>7
<1>11. CASE ClearIds \/ TakeBack \/ Shuffle
  <2>1. stage'[Gather] \in {"popping", "ended"}
    BY <1>0, <1>11 DEF ClearIds, TakeBack, Shuffle, Run
  <2>2. QED BY <2>1 DEF ListInv, Gathered
<1>12. QED BY <1>2, <1>3, <1>4, <1>5, <1>6, <1>7, <1>8, <1>9, <1>10, <1>11
           DEF RoundStep, GameNext, GameWork, PairJob, GatherJob, MainStep
-----------------------------------------------------------------------------
(* The first round. *)

LEMMA RoundInit ==
  ASSUME GameInit
  PROVE  Round
<1> DEFINE n == Cardinality(Fighters)
<1>1. n \in Nat /\ \E f : f \in Bijection(1 .. n, Fighters)
  BY FightersAssumption, FS_CardinalityType DEF ExistsBijection
<1>2. \E f \in [1 .. n -> Fighters] : IsInjective(f)
  BY <1>1 DEF Bijection, Injection, IsInjective
<1>3. pl_ids \in [1 .. n -> Fighters] /\ IsInjective(pl_ids)
  BY <1>2 DEF GameInit, SetToSeq
<1> HIDE DEF n
<1>4. pl_ids \in Seq(Fighters) /\ Distinct(pl_ids) /\ DOMAIN pl_ids = 1 .. n
  BY <1>1, <1>3, SeqDef DEF Distinct, IsInjective
<1>5. Players(pl_ids) = Fighters
  <2>1. IsFiniteSet(1 .. n) /\ Cardinality(1 .. n) = Cardinality(Fighters)
    <3>1. 1 \in Int /\ n \in Int
      BY <1>1
    <3>2. IsFiniteSet(1 .. n) /\ Cardinality(1 .. n) = (IF 1 > n THEN 0 ELSE n - 1 + 1)
      BY <3>1, FS_Interval
    <3>3. (IF 1 > n THEN 0 ELSE n - 1 + 1) = n
      BY <1>1
    <3>4. QED BY <3>2, <3>3 DEF n
  <2>2. pl_ids \in Injection(1 .. n, Fighters)
    BY <1>3 DEF Injection, IsInjective
  <2>3. pl_ids \in Surjection(1 .. n, Fighters)
    BY <2>1, <2>2, FightersAssumption, FS_Injection
  <2>4. QED BY <1>3, <2>3 DEF Players, Surjection
<1>6. /\ stage \in [Pairs \cup {Gather} -> GatherStages \cup PairStages]
      /\ \A j \in Pairs \cup {Gather} : stage[j] = "ended"
  BY DEF GameInit, GatherStages
<1>7. pl_que \in Seq(Fighters) /\ Distinct(pl_que) /\ Players(pl_que) = {}
  BY DEF GameInit, Distinct, Players
<1>8. TypeInv
  BY <1>4, <1>6, <1>7 DEF TypeInv, GameInit, GatherStages, PairStages
<1>9. Gathered
  BY <1>6 DEF Gathered
<1>10. MainInv /\ CountInv /\ ListInv
  BY <1>6, <1>9 DEF MainInv, CountInv, ListInv, GameInit
<1>11. GatheredInv
  BY <1>5, <1>7 DEF GatheredInv, GameInit
<1>12. QED BY <1>8, <1>10, <1>11 DEF Round
-----------------------------------------------------------------------------
(* Everybody alive has one seat. *)

LEMMA OneSeat ==
  ASSUME TypeInv, NEW p,
         \/ p \in Players(pl_ids) /\ p \notin Players(pl_que) /\ \A k \in DOMAIN pl_ids : pl_ids[k] = p => StillListed(k)
         \/ p \in Players(pl_que) /\ \A k \in DOMAIN pl_ids : pl_ids[k] = p => ~StillListed(k)
  PROVE  Cardinality(Seats(p)) = 1
<1> HIDE DEF StillListed
<1>1. CASE p \in Players(pl_ids) /\ p \notin Players(pl_que) /\ \A k \in DOMAIN pl_ids : pl_ids[k] = p => StillListed(k)
  <2>1. PICK k \in DOMAIN pl_ids : pl_ids[k] = p
    BY <1>1 DEF Players
  <2>2. {i \in DOMAIN pl_ids : pl_ids[i] = p /\ StillListed(i)} = {k}
    BY <1>1, <2>1 DEF TypeInv, Distinct
  <2>3. {i \in DOMAIN pl_que : pl_que[i] = p} = {}
    BY <1>1 DEF Players
  <2>4. Seats(p) = {<<"list", k>>}
    BY <2>2, <2>3 DEF Seats
  <2>5. QED BY <2>4, FS_Singleton
<1>2. CASE p \in Players(pl_que) /\ \A k \in DOMAIN pl_ids : pl_ids[k] = p => ~StillListed(k)
  <2>1. PICK k \in DOMAIN pl_que : pl_que[k] = p
    BY <1>2 DEF Players
  <2>2. {i \in DOMAIN pl_ids : pl_ids[i] = p /\ StillListed(i)} = {}
    BY <1>2
  <2>3. {i \in DOMAIN pl_que : pl_que[i] = p} = {k}
    BY <2>1 DEF TypeInv, Distinct
  <2>4. Seats(p) = {<<"queue", k>>}
    BY <2>2, <2>3 DEF Seats
  <2>5. QED BY <2>4, FS_Singleton
<1>3. QED BY <1>1, <1>2

LEMMA RoundSeats ==
  ASSUME Round
  PROVE  EveryoneOnce
<1>0. TypeInv
  BY DEF Round
<1>1. ASSUME NEW p \in alive PROVE Cardinality(Seats(p)) = 1
  <2>1. CASE Gathered
    <3>1. \A k : StillListed(k)
      BY <2>1 DEF Gathered, StillListed
    <3>2. (p \in Players(pl_ids) /\ p \notin Players(pl_que)) \/ (p \in Players(pl_que) /\ p \notin Players(pl_ids))
      BY <1>1, <2>1 DEF Round, GatheredInv
    <3>3. p \notin Players(pl_ids) => \A k \in DOMAIN pl_ids : pl_ids[k] # p
      BY DEF Players
    <3> HIDE DEF StillListed
    <3>4. QED BY <1>0, <3>1, <3>2, <3>3, OneSeat
  <2>2. CASE ~Gathered
    <3>1. PICK k \in DOMAIN pl_ids : pl_ids[k] = p
      BY <1>1, <2>2, ListForm DEF Players
    <3>2. \A i \in DOMAIN pl_ids : pl_ids[i] = p => i = k
      BY <1>0, <3>1 DEF TypeInv, Distinct
    <3>3. p \in Players(pl_ids) /\ (StillListed(k) <=> Listed(k))
      BY <2>2, <3>1, ListedWhen DEF Players
    <3>4. CASE Listed(k)
      <4>1. p \notin Players(pl_que)
        BY <2>2, <3>1, <3>4, ListedNotQueued
      <4> HIDE DEF StillListed, Listed
      <4>2. QED BY <1>0, <3>2, <3>3, <3>4, <4>1, OneSeat
    <3>5. CASE ~Listed(k)
      <4> HIDE DEF StillListed, Listed
      <4>1. p \in Players(pl_que)
        BY <1>1, <2>2, <3>1, <3>5, ListForm
      <4>2. QED BY <1>0, <3>2, <3>3, <3>5, <4>1, OneSeat
    <3>6. QED BY <3>4, <3>5
  <2>3. QED BY <2>1, <2>2
<1>2. ASSUME game_at = "one left", NEW p \in Fighters PROVE p \in alive <=> p = pl_ids[1]
  <2>1. Gathered /\ stage[Gather] = "ended" /\ Len(pl_ids) = 1
    BY <1>2 DEF Round, MainInv, Gathered
  <2>2. Players(pl_ids) = alive
    BY <2>1 DEF Round, GatheredInv, Players
  <2>3. DOMAIN pl_ids = {1}
    BY <1>0, <2>1, Numbers
  <2>4. QED BY <2>2, <2>3 DEF Players
<1>3. QED BY <1>1, <1>2 DEF EveryoneOnce

\* The game by itself, without the other programs of Samples.
GameSpec == GameInit /\ [][GameNext]_gameVars

\* For every number of players and rounds: until a pop of a gathering fails for no
\* reason, whoever lives is in one place of the game, and when main takes one for the
\* last nobody else lives (game_test.cpp:193-251).
THEOREM NobodyIsDropped == GameSpec => []EveryoneOnce
<1>1. GameInit => IInv
  BY RoundInit DEF IInv, Round
<1>2. IInv /\ [GameNext]_gameVars => IInv'
  <2>1. ASSUME IInv, GameNext, ~cut_short' PROVE TypeInv' /\ MainInv' /\ CountInv' /\ ListInv' /\ GatheredInv'
    <3>1. ~cut_short
      <4>1. cut_short' \in {cut_short} \/ Shuffle
        BY <2>1 DEF GameNext, GameWork, PairJob, GatherJob, MainStep, BeginRound, PushGather, PushPair, PairsPushed,
                    WaitOver, Overtaken, Fight, ComeBack, LowerEcnt, EndPair, KeepLast, ClearIds, TakeBack
      <4>2. QED BY <2>1, <4>1 DEF Shuffle
    <3>2. Round /\ RoundStep
      BY <2>1, <3>1 DEF IInv, Round, RoundStep
    <3>3. QED BY <3>2, TypeStep, MainStays, CountStays, ListStays, GatheredStays
  <2>2. ASSUME IInv, UNCHANGED gameVars PROVE IInv'
    BY ZenonT(60), <2>2 DEF gameVars, IInv, TypeInv, MainInv, CountInv, ListInv, GatheredInv, Gathered, Unlowered, Over, PairCount,
                StillListed, Odd, Fought, First, Second
  <2>3. QED BY <2>1, <2>2 DEF IInv
<1>3. IInv => EveryoneOnce
  <2>1. CASE cut_short
    BY <2>1 DEF EveryoneOnce
  <2>2. CASE ~cut_short
    BY <2>2, RoundSeats DEF IInv, Round
  <2>3. QED BY <2>1, <2>2
<1>4. QED BY <1>1, <1>2, <1>3, PTL DEF GameSpec
=============================================================================
