---------------------------- MODULE Samples_proofs ---------------------------
(***************************************************************************)
(* Proofs about the small programs, each by itself: the ring of test3, the *)
(* loop around zlib, a battle, the switch of input_step.cpp, the picture   *)
(* converter and the password generator.                                   *)
(***************************************************************************)
EXTENDS PlainRing, ZlibStream, Battle, InputStep, ImageConv, Password,
        FiniteSetTheorems, SequenceTheorems, TLAPS

-----------------------------------------------------------------------------
(* Remainders. *)

LEMMA SmallMod ==
  ASSUME NEW m \in Nat, NEW x \in Nat, x < m
  PROVE  x % m = x
OBVIOUS

-----------------------------------------------------------------------------
(* PlainRing *)

PlainSpec == PlainInit /\ [][PlainNext]_plainVars

Stages == {"born", "asleep", "late", "push", "claim", "store", "done", "en?", "pop", "read", "clear"}
Pushable == Runners \X (0 .. PerRunner - 1)

RingTypes == /\ buffer \in [0 .. RingSize - 1 -> Pushable \cup {NoNumber}]
             /\ start \in Nat /\ end \in Nat /\ overtaken \in SUBSET Nat
             /\ doing \in [Crew -> Stages] /\ taken \in [Crew -> Nat] /\ pushed \in [Runners -> 0 .. PerRunner]
             /\ claims \in Seq(Pushable) /\ got \in Seq(Pushable)

\* Every claim is of one number that has been stored, or is about to be at its slot.
ClaimsInv == /\ Len(claims) = end /\ end < RingSize
             /\ \A j, k \in DOMAIN claims : claims[j] = claims[k] => j = k
             /\ \A k \in DOMAIN claims : \A t \in Runners, n \in Nat :
                  claims[k] = <<t, n>> => n < pushed[t] \/ (n = pushed[t] /\ doing[t] = "store")
             /\ \A t \in Runners :
                  /\ doing[t] \in {"claim", "store"} => pushed[t] < PerRunner
                  /\ doing[t] = "store" => taken[t] < end /\ claims[taken[t] + 1] = Number(t)

\* A slot holds the number that claimed it, or none.
SlotsInv == \A k \in 0 .. RingSize - 1 : buffer[k] # NoNumber => k < end /\ buffer[k] = Claimed(k)

\* Where pop is: at the slot before start.
PopInv == /\ start <= end
          /\ overtaken \subseteq 0 .. start - 1
          /\ doing[Getter] \in {"read", "clear"} => start >= 1 /\ taken[Getter] = start - 1
          /\ doing[Getter] = "read" => taken[Getter] \notin overtaken
          /\ doing[Getter] = "clear" => \/ popped = NoNumber /\ taken[Getter] \in overtaken
                                        \/ /\ popped # NoNumber /\ taken[Getter] \notin overtaken
                                           /\ popped = Claimed(taken[Getter])

PlainInv == RingTypes /\ ClaimsInv /\ SlotsInv /\ PopInv /\ PrintsAllButOvertaken

LEMMA RingNumbers == RingSize \in Nat \ {0} /\ PerRunner \in Nat /\ Cardinality(Runners) \in Nat
<1>1. Cardinality(Runners) \in Nat /\ RingSize \in Nat
  BY RoomAssumption, FS_CardinalityType
<1>2. PerRunner \in Nat
  BY <1>1 DEF PerRunner
<1> DEFINE c == Cardinality(Runners)
           p == PerRunner
<1>3. c \in Nat /\ p \in Nat /\ c * p < RingSize
  BY <1>1, <1>2, RoomAssumption
<1> HIDE DEF c, p
<1>4. c * p \in Nat
  BY <1>3
<1>5. RingSize # 0
  BY <1>1, <1>3, <1>4
<1>6. QED BY <1>1, <1>2, <1>5

\* There is room for every number the runners push.
LEMMA RoomForAll ==
  ASSUME NEW s \in Seq(Pushable), \A j, k \in DOMAIN s : s[j] = s[k] => j = k
  PROVE  Len(s) < RingSize
<1>1. Len(s) \in Nat /\ s \in [1 .. Len(s) -> Pushable] /\ DOMAIN s = 1 .. Len(s)
  BY LenProperties
<1>2. s \in Injection(1 .. Len(s), Pushable)
  BY <1>1 DEF Injection, IsInjective
<1>3. IsFiniteSet(0 .. PerRunner - 1) /\ Cardinality(0 .. PerRunner - 1) = PerRunner
  <2>1. 0 \in Int /\ PerRunner - 1 \in Int /\ PerRunner \in Nat
    BY RingNumbers
  <2>2. /\ IsFiniteSet(0 .. PerRunner - 1)
        /\ Cardinality(0 .. PerRunner - 1) = (IF 0 > PerRunner - 1 THEN 0 ELSE PerRunner - 1 - 0 + 1)
    BY <2>1, FS_Interval
  <2>3. QED BY <2>1, <2>2
<1>4. IsFiniteSet(Pushable) /\ Cardinality(Pushable) = Cardinality(Runners) * PerRunner
  BY <1>3, RoomAssumption, FS_Product DEF Pushable
<1>5. Cardinality(1 .. Len(s)) <= Cardinality(Pushable)
  BY <1>2, <1>4, FS_Injection
<1>6. Cardinality(1 .. Len(s)) = Len(s)
  <2>1. 1 \in Int /\ Len(s) \in Int
    BY <1>1
  <2>2. Cardinality(1 .. Len(s)) = (IF 1 > Len(s) THEN 0 ELSE Len(s) - 1 + 1)
    BY <2>1, FS_Interval
  <2>3. QED BY <1>1, <2>2
<1> DEFINE n == Len(s)
           m == Cardinality(Runners) * PerRunner
<1>7. n <= m /\ m < RingSize /\ n \in Nat /\ m \in Nat
  <2>1. n <= m /\ m < RingSize /\ n \in Nat
    BY <1>1, <1>4, <1>5, <1>6, RoomAssumption
  <2>2. m \in Nat
    BY RingNumbers
  <2>3. QED BY <2>1, <2>2
<1> HIDE DEF n, m
<1>8. n < RingSize
  BY <1>7, RingNumbers
<1>9. QED BY <1>8 DEF n

\* A step that touches neither the ring nor what has become of the numbers.
Idle == /\ UNCHANGED <<buffer, start, end, taken, pushed, popped, got, claims, overtaken>>
        /\ doing' \in [Crew -> Stages]
        /\ \A t \in Crew : \/ doing'[t] = doing[t]
                           \/ /\ doing[t] \notin {"store", "read", "clear"}
                              /\ doing'[t] \notin {"claim", "store", "read", "clear"}

LEMMA IdleSteps ==
  ASSUME RingTypes,
         \/ \E t \in Crew : WaitCond(t) \/ WakeFree(t)
         \/ \E t \in Runners : ClaimFails(t) \/ RunnerEnds(t)
         \/ TestEn \/ PopNone \/ Ending \/ UNCHANGED plainVars
  PROVE  Idle
<1> USE DEF RingTypes, Idle, Stages, Goes, history
<1>1. ASSUME NEW t \in Crew, WaitCond(t) \/ WakeFree(t) PROVE Idle
  BY <1>1 DEF WaitCond, WakeFree, Awake
<1>2. ASSUME NEW t \in Runners, ClaimFails(t) \/ RunnerEnds(t) PROVE Idle
  BY <1>2 DEF ClaimFails, RunnerEnds, Crew
<1>3. CASE TestEn \/ PopNone
  BY <1>3 DEF TestEn, PopNone, Crew
<1>4. CASE Ending
  <2>1. CASE NotifyAll
    BY <2>1 DEF NotifyAll, Notify, Sleepers, Awake
  <2>2. CASE JoinRunners \/ JoinGetter
    BY <2>2 DEF JoinRunners, JoinGetter, threadVars
  <2>3. QED BY <1>4, <2>1, <2>2 DEF Ending
<1>5. CASE UNCHANGED plainVars
  BY <1>5 DEF plainVars
<1>6. QED BY <1>1, <1>2, <1>3, <1>4, <1>5

\* What Claim appends, and what stays of the claims.
LEMMA ClaimCases ==
  ASSUME PlainInv, NEW t \in Runners, ClaimEnd(t)
  PROVE  /\ doing[t] = "claim" /\ doing' = [doing EXCEPT ![t] = "store"] /\ taken[t] = end
         /\ claims' = Append(claims, Number(t)) /\ claims' \in Seq(Pushable)
         /\ Len(claims') = end + 1 /\ claims'[end + 1] = Number(t) /\ end \in Nat
         /\ DOMAIN claims = 1 .. end /\ DOMAIN claims' = 1 .. end + 1
         /\ \A k \in 1 .. end : claims'[k] = claims[k]
         /\ \A j, k \in DOMAIN claims' : claims'[j] = claims'[k] => j = k
         /\ end' = end + 1 /\ end + 1 < RingSize
         /\ pushed[t] \in Nat
         /\ UNCHANGED <<buffer, start, taken, pushed, popped, got, overtaken>>
<1> USE DEF PlainInv, RingTypes, ClaimsInv
<1>1. /\ doing[t] = "claim" /\ doing' = [doing EXCEPT ![t] = "store"] /\ taken[t] = end
      /\ claims' = Append(claims, Number(t)) /\ end' = (end + 1) % RingSize
      /\ UNCHANGED <<buffer, start, taken, pushed, popped, got, overtaken>>
  BY DEF ClaimEnd, Claim, Goes
<1>2. PerRunner \in Nat /\ pushed[t] < PerRunner /\ pushed[t] \in 0 .. PerRunner
  BY <1>1, RingNumbers
<1>3. Number(t) \in Pushable /\ pushed[t] \in Nat
  BY <1>2 DEF Number, Pushable
<1>4. /\ claims' \in Seq(Pushable) /\ Len(claims') = end + 1 /\ claims'[end + 1] = Number(t) /\ end \in Nat
      /\ DOMAIN claims = 1 .. end /\ DOMAIN claims' = 1 .. end + 1
      /\ \A k \in 1 .. end : claims'[k] = claims[k]
  BY <1>1, <1>3, AppendProperties, LenProperties
<1>5. ASSUME NEW k \in 1 .. end, claims[k] = Number(t) PROVE FALSE
  <2>1. claims[k] = <<t, pushed[t]>> /\ k \in DOMAIN claims
    BY <1>4, <1>5 DEF Number
  <2>2. pushed[t] < pushed[t] \/ (pushed[t] = pushed[t] /\ doing[t] = "store")
    BY <1>3, <2>1
  <2>3. QED BY <1>1, <1>3, <2>2
<1>6. \A j, k \in DOMAIN claims' : claims'[j] = claims'[k] => j = k
  <2>1. SUFFICES ASSUME NEW j \in 1 .. end + 1, NEW k \in 1 .. end + 1, claims'[j] = claims'[k] PROVE j = k
    BY <1>4
  <2>2. (j \in 1 .. end \/ j = end + 1) /\ (k \in 1 .. end \/ k = end + 1)
    BY <1>4
  <2>3. QED BY <1>4, <1>5, <2>1, <2>2
<1>7. end + 1 < RingSize
  BY <1>4, <1>6, RoomForAll
<1>8. end' = end + 1
  <2>1. (end + 1) % RingSize = end + 1
    <3>1. end + 1 \in Nat /\ RingSize \in Nat
      BY <1>4, RingNumbers
    <3>2. QED BY <1>7, <3>1, SmallMod
  <2>2. QED BY <1>1, <2>1
<1>9. QED BY <1>1, <1>3, <1>4, <1>6, <1>7, <1>8

LEMMA TypesKept ==
  ASSUME PlainInv, [PlainNext]_plainVars
  PROVE  RingTypes'
<1> USE DEF RingTypes
<1>0. RingTypes /\ Getter \notin Runners /\ Crew = Runners \cup {Getter}
  BY GetterAssumption DEF PlainInv, Crew
<1>1. CASE Idle
  BY <1>0, <1>1 DEF Idle
<1>2. ASSUME NEW t \in Runners, LoadEnd(t) PROVE RingTypes'
  BY <1>0, <1>2 DEF LoadEnd, Goes, history, Stages
<1>3. ASSUME NEW t \in Runners, ClaimEnd(t) PROVE RingTypes'
  <2>1. doing' \in [Crew -> Stages]
    BY <1>0, <1>3, ClaimCases DEF Stages
  <2>2. end' \in Nat
    BY <1>3, ClaimCases
  <2>3. QED BY <1>0, <1>3, <2>1, <2>2, ClaimCases
<1>4. ASSUME NEW t \in Runners, StoreNumber(t) PROVE RingTypes'
  <2>1. /\ doing[t] = "store" /\ doing' = [doing EXCEPT ![t] = "push"]
        /\ buffer' = [buffer EXCEPT ![taken[t]] = Number(t)]
        /\ pushed' = [pushed EXCEPT ![t] = @ + 1]
        /\ UNCHANGED <<start, end, taken, popped, got, claims, overtaken>>
    BY <1>4 DEF StoreNumber, Goes, history
  <2>2. pushed[t] < PerRunner /\ pushed[t] \in 0 .. PerRunner /\ PerRunner \in Nat
    BY <1>0, <2>1, RingNumbers DEF PlainInv, ClaimsInv
  <2>3. pushed' \in [Runners -> 0 .. PerRunner]
    BY <1>0, <2>1, <2>2
  <2>4. Number(t) \in Pushable
    BY <2>2 DEF Number, Pushable
  <2>5. doing' \in [Crew -> Stages] /\ buffer' \in [0 .. RingSize - 1 -> Pushable \cup {NoNumber}]
    BY <1>0, <2>1, <2>4 DEF Stages
  <2>6. QED BY <1>0, <2>1, <2>3, <2>5
<1>5. CASE ClaimStart
  <2>1. (start + 1) % RingSize \in Nat
    BY <1>0, RingNumbers
  <2>2. QED BY <1>0, <1>5, <2>1 DEF ClaimStart, Goes, history, Stages
<1>6. CASE ReadSlot
  BY <1>0, <1>6 DEF ReadSlot, Goes, Stages
<1>7. CASE ClearSlot
  <2>1. /\ doing[Getter] = "clear" /\ doing' \in [Crew -> Stages]
        /\ buffer' \in [0 .. RingSize - 1 -> Pushable \cup {NoNumber}]
        /\ UNCHANGED <<start, end, taken, pushed, claims, overtaken>>
        /\ got' = IF popped = NoNumber THEN got ELSE Append(got, popped)
    BY <1>0, <1>7 DEF ClearSlot, Goes, Stages
  <2>2. CASE popped = NoNumber
    BY <1>0, <2>1, <2>2
  <2>3. CASE popped # NoNumber
    <3>1. popped = claims[taken[Getter] + 1] /\ taken[Getter] = start - 1 /\ start >= 1 /\ start <= Len(claims) /\ start \in Nat
      BY <1>0, <2>1, <2>3 DEF PlainInv, PopInv, Claimed, ClaimsInv
    <3>2. taken[Getter] + 1 \in 1 .. Len(claims) /\ Len(claims) \in Nat
      BY <1>0, <3>1, LenProperties
    <3>3. popped \in Pushable
      BY <1>0, <3>1, <3>2, ElementOfSeq
    <3>4. Append(got, popped) \in Seq(Pushable)
      BY <1>0, <3>3, AppendProperties
    <3>5. QED BY <1>0, <2>1, <2>3, <3>4
  <2>4. QED BY <2>2, <2>3
<1>8. QED BY <1>0, <1>1, <1>2, <1>3, <1>4, <1>5, <1>6, <1>7, IdleSteps
          DEF PlainNext, Getting, NotGetting, Spurious, Running

LEMMA ClaimsKept ==
  ASSUME PlainInv, [PlainNext]_plainVars
  PROVE  ClaimsInv'
<1>0. RingTypes /\ ClaimsInv /\ Getter \notin Runners /\ Crew = Runners \cup {Getter}
  BY GetterAssumption DEF PlainInv, Crew
<1>1. CASE Idle
  <2>1. UNCHANGED <<end, claims, taken, pushed>>
    BY <1>1 DEF Idle
  <2>2. \A t \in Runners : (doing'[t] = "store" <=> doing[t] = "store") /\ (doing'[t] = "claim" => doing[t] = "claim")
    BY <1>0, <1>1 DEF Idle
  <2>3. QED BY <1>0, <2>1, <2>2 DEF ClaimsInv, Number
<1>2. ASSUME NEW t \in Runners, LoadEnd(t) PROVE ClaimsInv'
  <2>1. /\ doing[t] = "push" /\ pushed[t] < PerRunner /\ doing' = [doing EXCEPT ![t] = "claim"]
        /\ taken' = [taken EXCEPT ![t] = end] /\ UNCHANGED <<end, claims, pushed>>
    BY <1>2 DEF LoadEnd, Goes, history
  <2>2. doing'[t] = "claim" /\ \A u \in Runners \ {t} : doing'[u] = doing[u] /\ taken'[u] = taken[u]
    BY <1>0, <2>1 DEF RingTypes
  <2>3. \A u \in Runners : doing'[u] = "store" <=> doing[u] = "store"
    BY <2>1, <2>2
  <2>4. QED BY <1>0, <2>1, <2>2, <2>3 DEF ClaimsInv, Number
<1>3. ASSUME NEW t \in Runners, ClaimEnd(t) PROVE ClaimsInv'
  <2>1. /\ doing'[t] = "store" /\ \A u \in Runners \ {t} : doing'[u] = doing[u]
    BY <1>0, <1>3, ClaimCases DEF RingTypes
  <2>2. Len(claims') = end' /\ end' < RingSize /\ \A j, k \in DOMAIN claims' : claims'[j] = claims'[k] => j = k
    BY <1>3, ClaimCases
  <2>3. ASSUME NEW k \in DOMAIN claims', NEW u \in Runners, NEW n \in Nat, claims'[k] = <<u, n>>
        PROVE  n < pushed'[u] \/ (n = pushed'[u] /\ doing'[u] = "store")
    <3>0. pushed' = pushed /\ doing[t] = "claim"
      BY <1>3, ClaimCases
    <3>1. k \in 1 .. end \/ k = end + 1
      BY <1>3, ClaimCases
    <3>2. CASE k = end + 1
      <4>1. claims'[k] = <<t, pushed[t]>>
        BY <1>3, <3>2, ClaimCases DEF Number
      <4>2. u = t /\ n = pushed[t]
        BY <2>3, <4>1
      <4>3. QED BY <2>1, <3>0, <4>2
    <3>3. CASE k \in 1 .. end
      <4>1. claims[k] = <<u, n>> /\ k \in DOMAIN claims
        BY <1>3, <2>3, <3>3, ClaimCases
      <4>2. n < pushed[u] \/ (n = pushed[u] /\ doing[u] = "store")
        BY <1>0, <4>1 DEF ClaimsInv
      <4>3. QED BY <2>1, <3>0, <4>2
    <3>4. QED BY <3>1, <3>2, <3>3
  <2>4. ASSUME NEW u \in Runners
        PROVE  /\ doing'[u] \in {"claim", "store"} => pushed'[u] < PerRunner
               /\ doing'[u] = "store" => taken'[u] < end' /\ claims'[taken'[u] + 1] = Number(u)'
    <3>0. UNCHANGED <<pushed, taken>> /\ end' = end + 1 /\ end \in Nat
      BY <1>3, ClaimCases
    <3>1. CASE u = t
      BY <1>0, <1>3, <2>1, <3>0, <3>1, ClaimCases DEF ClaimsInv, Number
    <3>2. CASE u # t
      <4>1. doing'[u] = doing[u] /\ taken[u] \in Nat
        BY <1>0, <2>1, <3>2 DEF RingTypes
      <4>2. doing[u] = "store" => taken[u] < end /\ claims[taken[u] + 1] = Number(u)
        BY <1>0 DEF ClaimsInv
      <4>3. taken[u] < end => taken[u] + 1 \in 1 .. end /\ taken[u] < end + 1
        BY <3>0, <4>1
      <4>4. taken[u] < end => claims'[taken[u] + 1] = claims[taken[u] + 1]
        BY <1>3, <4>3, ClaimCases
      <4>5. doing[u] \in {"claim", "store"} => pushed[u] < PerRunner
        BY <1>0 DEF ClaimsInv
      <4>6. QED BY <3>0, <4>1, <4>2, <4>3, <4>4, <4>5 DEF Number
    <3>3. QED BY <3>1, <3>2
  <2>5. QED BY <2>2, <2>3, <2>4 DEF ClaimsInv
<1>4. ASSUME NEW t \in Runners, StoreNumber(t) PROVE ClaimsInv'
  <2>1. /\ doing[t] = "store" /\ doing' = [doing EXCEPT ![t] = "push"]
        /\ pushed' = [pushed EXCEPT ![t] = @ + 1]
        /\ UNCHANGED <<end, taken, claims>>
    BY <1>4 DEF StoreNumber, Goes, history
  <2>2. /\ doing'[t] = "push" /\ pushed'[t] = pushed[t] + 1 /\ pushed[t] \in Nat
        /\ \A u \in Runners \ {t} : doing'[u] = doing[u] /\ pushed'[u] = pushed[u]
    BY <1>0, <2>1, RingNumbers DEF RingTypes
  <2>3. ASSUME NEW k \in DOMAIN claims, NEW u \in Runners, NEW n \in Nat, claims[k] = <<u, n>>
        PROVE  n < pushed'[u] \/ (n = pushed'[u] /\ doing'[u] = "store")
    <3>1. n < pushed[u] \/ (n = pushed[u] /\ doing[u] = "store")
      BY <1>0, <2>3 DEF ClaimsInv
    <3>2. CASE u = t
      BY <2>2, <3>1, <3>2
    <3>3. CASE u # t
      BY <2>2, <3>1, <3>3
    <3>4. QED BY <3>2, <3>3
  <2>4. QED BY <1>0, <2>1, <2>2, <2>3 DEF ClaimsInv, Number
<1>5. CASE ClaimStart \/ ReadSlot \/ ClearSlot
  <2>1. UNCHANGED <<end, claims, pushed>> /\ \A t \in Runners : doing'[t] = doing[t] /\ taken'[t] = taken[t]
    BY <1>0, <1>5 DEF ClaimStart, ReadSlot, ClearSlot, Goes, history, RingTypes
  <2>2. QED BY ZenonT(60), <1>0, <2>1 DEF ClaimsInv, Number
<1>6. QED BY <1>0, <1>1, <1>2, <1>3, <1>4, <1>5, IdleSteps
          DEF PlainNext, Getting, NotGetting, Spurious, Running

LEMMA SlotsKept ==
  ASSUME PlainInv, [PlainNext]_plainVars
  PROVE  SlotsInv'
<1>0. RingTypes /\ ClaimsInv /\ SlotsInv /\ Getter \notin Runners /\ Crew = Runners \cup {Getter}
  BY GetterAssumption DEF PlainInv, Crew
<1>1. CASE UNCHANGED <<buffer, end, claims>>
  BY <1>0, <1>1 DEF SlotsInv, Claimed
<1>2. ASSUME NEW t \in Runners, ClaimEnd(t) PROVE SlotsInv'
  <2>1. buffer' = buffer /\ end' = end + 1 /\ end \in Nat /\ \A k \in 1 .. end : claims'[k] = claims[k]
    BY <1>2, ClaimCases
  <2>2. ASSUME NEW k \in 0 .. RingSize - 1, buffer[k] # NoNumber PROVE k < end' /\ buffer[k] = claims'[k + 1]
    <3>1. k < end /\ buffer[k] = claims[k + 1]
      BY <1>0, <2>2 DEF SlotsInv, Claimed
    <3>2. k + 1 \in 1 .. end /\ k < end + 1
      BY <2>1, <3>1, RingNumbers
    <3>3. QED BY <2>1, <3>1, <3>2
  <2>3. QED BY <2>1, <2>2 DEF SlotsInv, Claimed
<1>3. ASSUME NEW t \in Runners, StoreNumber(t) PROVE SlotsInv'
  <2>1. /\ doing[t] = "store" /\ buffer' = [buffer EXCEPT ![taken[t]] = Number(t)]
        /\ UNCHANGED <<end, claims>>
    BY <1>3 DEF StoreNumber, Goes, history
  <2>2. taken[t] < end /\ claims[taken[t] + 1] = Number(t)
    BY <1>0, <2>1 DEF ClaimsInv
  <2>3. QED BY <1>0, <2>1, <2>2 DEF SlotsInv, Claimed, RingTypes
<1>4. CASE ClearSlot
  <2>1. buffer' = [buffer EXCEPT ![taken[Getter]] = NoNumber] /\ UNCHANGED <<end, claims>>
    BY <1>4 DEF ClearSlot
  <2>2. \A k \in 0 .. RingSize - 1 : buffer'[k] # NoNumber => buffer'[k] = buffer[k]
    BY <1>0, <2>1 DEF RingTypes
  <2>3. QED BY <1>0, <2>1, <2>2 DEF SlotsInv, Claimed
<1>5. CASE Idle
  BY <1>1, <1>5 DEF Idle
<1>6. CASE ReadSlot \/ ClaimStart \/ \E t \in Runners : LoadEnd(t)
  BY <1>1, <1>6 DEF ReadSlot, ClaimStart, LoadEnd, history
<1>7. QED BY <1>0, <1>2, <1>3, <1>4, <1>5, <1>6, IdleSteps
          DEF PlainNext, Getting, NotGetting, Spurious, Running

LEMMA StartMoves ==
  ASSUME PlainInv, ClaimStart
  PROVE  /\ doing[Getter] = "pop" /\ doing' = [doing EXCEPT ![Getter] = "read"]
         /\ taken' = [taken EXCEPT ![Getter] = start]
         /\ start' = start + 1 /\ start + 1 <= end /\ start \in Nat /\ end \in Nat
         /\ UNCHANGED <<buffer, end, pushed, popped, got, claims, overtaken>>
<1>1. /\ start # end /\ doing[Getter] = "pop" /\ doing' = [doing EXCEPT ![Getter] = "read"]
      /\ taken' = [taken EXCEPT ![Getter] = start] /\ start' = (start + 1) % RingSize
      /\ UNCHANGED <<buffer, end, pushed, popped, got, claims, overtaken>>
  BY DEF ClaimStart, Goes, history
<1>2. start \in Nat /\ end \in Nat /\ start <= end /\ end < RingSize /\ RingSize \in Nat
  BY RingNumbers DEF PlainInv, RingTypes, PopInv, ClaimsInv
<1>3. start + 1 <= end /\ start + 1 \in Nat /\ start + 1 < RingSize
  BY <1>1, <1>2
<1>4. (start + 1) % RingSize = start + 1
  BY <1>2, <1>3, SmallMod
<1>5. QED BY <1>1, <1>2, <1>3, <1>4

LEMMA PopKept ==
  ASSUME PlainInv, [PlainNext]_plainVars
  PROVE  PopInv'
<1>0. /\ RingTypes /\ ClaimsInv /\ SlotsInv /\ PopInv /\ Getter \notin Runners /\ Crew = Runners \cup {Getter}
      /\ start \in Nat /\ end \in Nat
  BY GetterAssumption DEF PlainInv, Crew, RingTypes
<1>1. CASE Idle
  <2>1. UNCHANGED <<start, end, taken, popped, claims, overtaken>>
    BY <1>1 DEF Idle
  <2>2. \/ doing'[Getter] = doing[Getter] \/ doing'[Getter] \notin {"read", "clear"}
    BY <1>0, <1>1 DEF Idle
  <2>3. QED BY <1>0, <2>1, <2>2 DEF PopInv, Claimed
<1>2. ASSUME NEW t \in Runners, LoadEnd(t) \/ StoreNumber(t) PROVE PopInv'
  <2>1. /\ UNCHANGED <<start, end, popped, claims, overtaken>>
        /\ doing'[Getter] = doing[Getter] /\ taken'[Getter] = taken[Getter]
    BY <1>0, <1>2 DEF LoadEnd, StoreNumber, Goes, history, RingTypes
  <2>2. QED BY <1>0, <2>1 DEF PopInv, Claimed
<1>3. ASSUME NEW t \in Runners, ClaimEnd(t) PROVE PopInv'
  <2>1. /\ UNCHANGED <<start, popped, overtaken>> /\ end' = end + 1 /\ \A k \in 1 .. end : claims'[k] = claims[k]
        /\ doing'[Getter] = doing[Getter] /\ taken'[Getter] = taken[Getter]
    BY <1>0, <1>3, ClaimCases DEF RingTypes
  <2>2. doing[Getter] = "clear" => taken[Getter] + 1 \in 1 .. end
    BY <1>0 DEF PopInv
  <2>3. start <= end + 1
    BY <1>0 DEF PopInv
  <2>4. QED BY <1>0, <2>1, <2>2, <2>3 DEF PopInv, Claimed
<1>4. CASE ClaimStart
  <2>1. /\ doing'[Getter] = "read" /\ taken'[Getter] = start /\ start' = start + 1 /\ start + 1 <= end
        /\ UNCHANGED <<end, overtaken>>
    BY <1>0, <1>4, StartMoves DEF RingTypes
  <2>2. overtaken \subseteq 0 .. start /\ start \notin overtaken
    BY <1>0 DEF PopInv
  <2>3. QED BY <1>0, <2>1, <2>2 DEF PopInv
<1>5. CASE ReadSlot
  <2>1. /\ doing[Getter] = "read" /\ doing'[Getter] = "clear" /\ popped' = buffer[taken[Getter]]
        /\ overtaken' = IF popped' = NoNumber THEN overtaken \cup {taken[Getter]} ELSE overtaken
        /\ UNCHANGED <<start, end, taken, claims>>
    BY <1>0, <1>5 DEF ReadSlot, Goes, RingTypes
  <2>2. taken[Getter] = start - 1 /\ start >= 1 /\ start <= end /\ taken[Getter] \notin overtaken
        /\ overtaken \subseteq 0 .. start - 1
    BY <1>0, <2>1 DEF PopInv
  <2>3. taken[Getter] \in 0 .. RingSize - 1
    BY <1>0, <2>2, RingNumbers DEF ClaimsInv
  <2>4. popped' # NoNumber => popped' = Claimed(taken[Getter])
    BY <1>0, <2>1, <2>3 DEF SlotsInv
  <2>5. overtaken' \subseteq 0 .. start - 1
    BY <1>0, <2>1, <2>2
  <2>6. QED BY <1>0, <2>1, <2>2, <2>4, <2>5 DEF PopInv, Claimed
<1>6. CASE ClearSlot
  <2>1. doing'[Getter] \in {"en?", "pop"} /\ UNCHANGED <<start, end, overtaken>>
    BY <1>0, <1>6 DEF ClearSlot, Goes, RingTypes
  <2>2. QED BY <1>0, <2>1 DEF PopInv
<1>7. QED BY <1>0, <1>1, <1>2, <1>3, <1>4, <1>5, <1>6, IdleSteps
          DEF PlainNext, Getting, NotGetting, Spurious, Running

LEMMA PrintedFinite ==
  ASSUME PlainInv
  PROVE  /\ IsFiniteSet(Printed) /\ Cardinality(Printed) \in Nat /\ Printed \subseteq 0 .. start - 1
         /\ \A k \in Printed : Cardinality({i \in Printed : i <= k}) \in 1 .. Cardinality(Printed)
<1>1. start \in Nat /\ Printed \subseteq 0 .. start - 1
  BY DEF PlainInv, RingTypes, Printed
<1>2. IsFiniteSet(0 .. start - 1)
  <2>1. 0 \in Int /\ start - 1 \in Int
    BY <1>1
  <2>2. QED BY <2>1, FS_Interval
<1>3. IsFiniteSet(Printed) /\ Cardinality(Printed) \in Nat
  BY <1>1, <1>2, FS_Subset, FS_CardinalityType
<1>4. ASSUME NEW k \in Printed PROVE Cardinality({i \in Printed : i <= k}) \in 1 .. Cardinality(Printed)
  <2> DEFINE S == {i \in Printed : i <= k}
  <2>1. S \subseteq Printed /\ k \in S
    BY <1>1
  <2> HIDE DEF S
  <2>2. IsFiniteSet(S) /\ Cardinality(S) <= Cardinality(Printed) /\ Cardinality(S) \in Nat
    BY <1>3, <2>1, FS_Subset, FS_CardinalityType
  <2>3. Cardinality(S) # 0
    BY <2>1, <2>2, FS_EmptySet
  <2>4. Cardinality(S) \in 1 .. Cardinality(Printed)
    BY <1>3, <2>2, <2>3
  <2>5. QED BY <2>4 DEF S
<1>5. QED BY <1>1, <1>3, <1>4

\* What is printed stays printed, and the claims of it stay.
LEMMA PrintSame ==
  ASSUME PlainInv, Printed' = Printed, got' = got, Len(claims)' = end',
         \A k \in 1 .. end : claims'[k] = claims[k]
  PROVE  PrintsAllButOvertaken'
<1>1. \A k \in Printed : k + 1 \in 1 .. end
  <2>1. start \in Nat /\ end \in Nat /\ start <= end
    BY DEF PlainInv, RingTypes, PopInv
  <2>2. \A k \in 0 .. start - 1 : k + 1 \in 1 .. end
    BY <2>1
  <2>3. QED BY <2>2, PrintedFinite
<1>2. Len(got) = Cardinality(Printed) /\ \A k \in Printed : got[Cardinality({i \in Printed : i <= k})] = Claimed(k)
  BY DEF PlainInv, PrintsAllButOvertaken
<1> HIDE DEF Printed
<1>3. QED BY <1>1, <1>2 DEF PrintsAllButOvertaken, Claimed

LEMMA PrintKept ==
  ASSUME PlainInv, [PlainNext]_plainVars
  PROVE  PrintsAllButOvertaken'
<1>0. /\ RingTypes /\ ClaimsInv /\ PopInv /\ PrintsAllButOvertaken
      /\ Getter \notin Runners /\ Crew = Runners \cup {Getter} /\ start \in Nat /\ end \in Nat
  BY GetterAssumption DEF PlainInv, Crew, RingTypes
<1>1. Len(claims)' = end'
  BY ClaimsKept DEF ClaimsInv
<1>2. CASE Idle
  <2>1. UNCHANGED <<start, taken, got, claims, overtaken>>
    BY <1>2 DEF Idle
  <2>2. doing'[Getter] = doing[Getter] \/ (doing[Getter] \notin {"read", "clear"} /\ doing'[Getter] \notin {"read", "clear"})
    BY <1>0, <1>2 DEF Idle
  <2>3. Printed' = Printed
    BY <2>1, <2>2 DEF Printed
  <2>4. QED BY <1>1, <2>1, <2>3, PrintSame
<1>3. ASSUME NEW t \in Runners, LoadEnd(t) \/ StoreNumber(t) PROVE PrintsAllButOvertaken'
  <2>1. /\ UNCHANGED <<start, got, claims, overtaken>>
        /\ doing'[Getter] = doing[Getter] /\ taken'[Getter] = taken[Getter]
    BY <1>0, <1>3 DEF LoadEnd, StoreNumber, Goes, history, RingTypes
  <2>2. Printed' = Printed
    BY <2>1 DEF Printed
  <2>3. QED BY <1>1, <2>1, <2>2, PrintSame
<1>4. ASSUME NEW t \in Runners, ClaimEnd(t) PROVE PrintsAllButOvertaken'
  <2>1. /\ UNCHANGED <<start, got, overtaken>> /\ \A k \in 1 .. end : claims'[k] = claims[k]
        /\ doing'[Getter] = doing[Getter] /\ taken'[Getter] = taken[Getter]
    BY <1>0, <1>4, ClaimCases DEF RingTypes
  <2>2. Printed' = Printed
    BY <2>1 DEF Printed
  <2>3. QED BY <1>1, <2>1, <2>2, PrintSame
<1>5. CASE ClaimStart
  <2>1. /\ doing'[Getter] = "read" /\ taken'[Getter] = start /\ start' = start + 1
        /\ doing[Getter] = "pop"
        /\ UNCHANGED <<got, claims, overtaken>>
    BY <1>0, <1>5, StartMoves DEF RingTypes
  <2>2. Printed' = {k \in 0 .. start : k \notin overtaken /\ k # start}
    BY <1>0, <2>1 DEF Printed
  <2>3. Printed = {k \in 0 .. start - 1 : k \notin overtaken}
    BY <2>1 DEF Printed
  <2>4. Printed' = Printed
    BY <1>0, <2>2, <2>3
  <2>5. QED BY <1>1, <2>1, <2>4, PrintSame
<1>6. CASE ReadSlot
  <2>1. /\ doing[Getter] = "read" /\ doing'[Getter] = "clear"
        /\ overtaken' \in {overtaken \cup {taken[Getter]}, overtaken}
        /\ UNCHANGED <<start, taken, got, claims>>
    BY <1>0, <1>6 DEF ReadSlot, Goes, RingTypes
  <2>2. Printed' = Printed
    BY <2>1 DEF Printed
  <2>3. QED BY <1>1, <2>1, <2>2, PrintSame
<1>7. CASE ClearSlot
  <2>1. /\ doing[Getter] = "clear" /\ doing'[Getter] \in {"en?", "pop"}
        /\ got' = IF popped = NoNumber THEN got ELSE Append(got, popped)
        /\ UNCHANGED <<start, taken, claims, overtaken>>
    BY <1>0, <1>7 DEF ClearSlot, Goes, RingTypes
  <2>2. taken[Getter] = start - 1 /\ start >= 1
    BY <1>0, <2>1 DEF PopInv
  <2>3. Printed = {k \in 0 .. start - 1 : k \notin overtaken /\ k # start - 1}
    BY <2>1, <2>2 DEF Printed
  <2>4. Printed' = {k \in 0 .. start - 1 : k \notin overtaken}
    BY <2>1 DEF Printed
  <2>5. CASE popped = NoNumber
    <3>1. start - 1 \in overtaken
      BY <1>0, <2>1, <2>2, <2>5 DEF PopInv
    <3>2. Printed' = Printed
      BY <2>3, <2>4, <3>1
    <3>3. QED BY <1>1, <2>1, <2>5, <3>2, PrintSame
  <2>6. CASE popped # NoNumber
    <3>1. start - 1 \notin overtaken /\ popped = Claimed(start - 1) /\ got' = Append(got, popped)
      BY <1>0, <2>1, <2>2, <2>6 DEF PopInv
    <3>2. start - 1 \in 0 .. start - 1
      BY <1>0, <2>2
    <3>3. Printed' = Printed \cup {start - 1} /\ start - 1 \notin Printed
      BY <2>3, <2>4, <3>1, <3>2
    <3>4. /\ Printed \subseteq 0 .. start - 1 /\ IsFiniteSet(Printed) /\ Cardinality(Printed) \in Nat
          /\ \A k \in Printed : Cardinality({i \in Printed : i <= k}) \in 1 .. Cardinality(Printed)
      BY PrintedFinite
    <3>5. Cardinality(Printed') = Cardinality(Printed) + 1
      BY <3>3, <3>4, FS_AddElement
    <3> DEFINE n == Cardinality(Printed)
    <3>6. Len(got) = n /\ \A k \in Printed : got[Cardinality({i \in Printed : i <= k})] = Claimed(k)
      BY <1>0 DEF PrintsAllButOvertaken
    <3>7. Len(got') = n + 1 /\ got'[n + 1] = popped /\ \A i \in 1 .. n : got'[i] = got[i]
      <4>1. popped \in Pushable
        <5>1. start - 1 + 1 \in 1 .. Len(claims)
          BY <1>0, <2>2 DEF PopInv, ClaimsInv
        <5>2. QED BY <1>0, <3>1, <5>1, ElementOfSeq DEF Claimed, RingTypes
      <4>2. QED BY <1>0, <3>1, <3>6, <4>1, AppendProperties DEF RingTypes
    <3>8. ASSUME NEW k \in Printed' PROVE got'[Cardinality({i \in Printed' : i <= k})] = Claimed(k)
      <4>1. CASE k \in Printed
        <5>1. k \in 0 .. start - 1 /\ k # start - 1
          BY <2>3, <4>1
        <5>2. ~(start - 1 <= k)
          BY <1>0, <5>1
        <5>3. {i \in Printed' : i <= k} = {i \in Printed : i <= k}
          BY <3>3, <5>2
        <5>4. QED BY <3>4, <3>6, <3>7, <4>1, <5>3
      <4>2. CASE k = start - 1
        <5>1. \A i \in Printed : i <= k
          BY <1>0, <3>4, <4>2
        <5>2. k <= k
          BY <1>0, <4>2
        <5>3. {i \in Printed' : i <= k} = Printed'
          BY <3>3, <4>2, <5>1, <5>2
        <5>4. QED BY <3>1, <3>5, <3>7, <4>2, <5>3
      <4>3. QED BY <3>3, <3>8, <4>1, <4>2
    <3> HIDE DEF Printed
    <3>9. QED BY <1>1, <2>1, <3>5, <3>7, <3>8 DEF PrintsAllButOvertaken, Claimed
  <2>7. QED BY <2>5, <2>6
<1>8. QED BY <1>0, <1>2, <1>3, <1>4, <1>5, <1>6, <1>7, IdleSteps
          DEF PlainNext, Getting, NotGetting, Spurious, Running

\* For every number of runners and every ring with room for what they push: get() prints
\* what was pushed, each number once and in the order of the slots, without those it
\* overtook (thread_test2.cpp:126-163).
THEOREM NumbersInOrder == PlainSpec => []PrintsAllButOvertaken
<1>1. PlainInit => PlainInv
  <2>1. SUFFICES ASSUME PlainInit PROVE PlainInv
    OBVIOUS
  <2>2. /\ buffer = [k \in 0 .. RingSize - 1 |-> NoNumber] /\ start = 0 /\ end = 0
        /\ doing = [t \in Crew |-> "born"] /\ taken = [t \in Crew |-> 0] /\ pushed = [t \in Runners |-> 0]
        /\ got = <<>> /\ claims = <<>> /\ overtaken = {}
    BY <2>1 DEF PlainInit
  <2>3. RingTypes
    <3>1. got \in Seq(Pushable) /\ claims \in Seq(Pushable)
      BY <2>2, EmptySeq
    <3>2. pushed \in [Runners -> 0 .. PerRunner]
      BY <2>2, RingNumbers
    <3>3. QED BY <2>2, <3>1, <3>2 DEF RingTypes, Stages
  <2>4. Len(claims) = 0 /\ Len(got) = 0 /\ DOMAIN claims = {}
    BY <2>2
  <2>5. \A t \in Crew : doing[t] = "born"
    BY <2>2
  <2>6. ClaimsInv
    BY <2>2, <2>4, <2>5, RingNumbers DEF ClaimsInv, Crew
  <2>7. SlotsInv
    BY <2>2 DEF SlotsInv
  <2>8. PopInv
    BY <2>2, <2>5 DEF PopInv, Crew
  <2>9. Printed = {}
    BY <2>2 DEF Printed
  <2>10. PrintsAllButOvertaken
    BY <2>2, <2>4, <2>9, FS_EmptySet DEF PrintsAllButOvertaken
  <2>11. QED BY <2>3, <2>6, <2>7, <2>8, <2>10 DEF PlainInv
<1>2. PlainInv /\ [PlainNext]_plainVars => PlainInv'
  BY TypesKept, ClaimsKept, SlotsKept, PopKept, PrintKept DEF PlainInv
<1>3. PlainInv => PrintsAllButOvertaken
  BY DEF PlainInv
<1>4. QED BY <1>1, <1>2, <1>3, PTL DEF PlainSpec
-----------------------------------------------------------------------------
(* ZlibStream *)

ZlibSpec == ZlibInit /\ [][ZlibNext]_zlibVars

StreamInv == /\ job.source \in Nat /\ job.output \in Nat
             /\ src \in Nat /\ made \in Nat /\ total_write = made
             /\ loop = "done" => made = job.output
             /\ ofs = [k \in 1 .. made |-> k]

LEMMA WholeOf ==
  ASSUME NEW n \in Nat
  PROVE  [k \in 1 .. n |-> k] \in Seq(Nat) /\ Len([k \in 1 .. n |-> k]) = n
<1>1. [k \in 1 .. n |-> k] \in [1 .. n -> Nat]
  OBVIOUS
<1>2. [k \in 1 .. n |-> k] \in Seq(Nat)
  BY <1>1, SeqDef
<1>3. QED BY <1>2, LenProperties

\* What is given behind what has been given.
LEMMA GivenBehind ==
  ASSUME NEW m \in Nat, NEW n \in Nat
  PROVE  [k \in 1 .. m |-> k] \o [k \in 1 .. n |-> m + k] = [k \in 1 .. m + n |-> k]
<1> DEFINE s == [k \in 1 .. m |-> k]
           t == [k \in 1 .. n |-> m + k]
           u == [k \in 1 .. m + n |-> k]
<1>1. s \in Seq(Nat) /\ Len(s) = m /\ u \in Seq(Nat) /\ Len(u) = m + n
  BY WholeOf
<1>2. t \in Seq(Nat) /\ Len(t) = n
  <2>1. t \in [1 .. n -> Nat]
    OBVIOUS
  <2>2. t \in Seq(Nat)
    BY <2>1, SeqDef
  <2>3. QED BY <2>2, LenProperties
<1>3. /\ \A k \in 1 .. m : s[k] = k
      /\ \A k \in 1 .. n : t[k] = m + k
      /\ \A k \in 1 .. m + n : u[k] = k
  OBVIOUS
<1> HIDE DEF s, t, u
<1>4. /\ s \o t \in Seq(Nat) /\ Len(s \o t) = Len(s) + Len(t)
      /\ \A i \in 1 .. Len(s) + Len(t) : (s \o t)[i] = IF i <= Len(s) THEN s[i] ELSE t[i - Len(s)]
  BY <1>1, <1>2, ConcatProperties
<1>5. \A i \in 1 .. m + n : (s \o t)[i] = u[i]
  <2>1. SUFFICES ASSUME NEW i \in 1 .. m + n PROVE (s \o t)[i] = i
    BY <1>3
  <2>2. CASE i <= m
    BY <1>1, <1>2, <1>3, <1>4, <2>2
  <2>3. CASE ~(i <= m)
    <3>1. i - m \in 1 .. n /\ m + (i - m) = i
      BY <2>3
    <3>2. (s \o t)[i] = t[i - m]
      BY <1>1, <1>2, <1>4, <2>3
    <3>3. QED BY <1>3, <3>1, <3>2
  <2>4. QED BY <2>2, <2>3
<1>6. s \o t = u
  BY <1>1, <1>2, <1>4, <1>5, SeqEqual
<1>7. QED BY <1>6 DEF s, t, u

\* For every source, every buffer and whatever zlib takes and gives: the file is the
\* stream, once and in order, and of its full length when the loop ends (zlib.hpp:53-82).
THEOREM NothingGetsLost == ZlibSpec => []FileIsStream
<1>1. ZlibInit => StreamInv
  <2>1. SUFFICES ASSUME ZlibInit PROVE StreamInv
    OBVIOUS
  <2>2. ofs = [k \in 1 .. 0 |-> k]
    <3>1. [k \in 1 .. 0 |-> k] \in Seq(Nat) /\ Len([k \in 1 .. 0 |-> k]) = 0
      BY WholeOf
    <3>2. [k \in 1 .. 0 |-> k] = <<>>
      BY <3>1, EmptySeq
    <3>3. QED BY <2>1, <3>2 DEF ZlibInit
  <2>3. /\ job.source \in Nat /\ job.output \in Nat /\ src = job.source
        /\ made = 0 /\ total_write = 0 /\ loop = "init"
    BY <2>1, LengthsAssumption DEF ZlibInit, ZlibJobs
  <2>4. QED BY <2>2, <2>3 DEF StreamInv
<1>2. StreamInv /\ [ZlibNext]_zlibVars => StreamInv'
  <2>1. SUFFICES ASSUME StreamInv, [ZlibNext]_zlibVars PROVE StreamInv'
    OBVIOUS
  <2>2. CASE Alloc \/ BeginLoop \/ StreamError \/ UNCHANGED zlibVars
    BY <2>1, <2>2 DEF StreamInv, Alloc, BeginLoop, StreamError, zlibVars
  <2>3. ASSUME NEW took \in 0 .. src, NEW given \in 0 .. BufferRoom,
               StreamEnd(took, given) \/ RunOut(took, given)
        PROVE  StreamInv'
    <3>1. /\ src' = src - took /\ made' = made + given /\ total_write' = total_write + given
          /\ ofs' = ofs \o Given(given) /\ job' = job
      BY <2>3 DEF StreamEnd, RunOut
    <3>2. given \in Nat
      BY <2>3, LengthsAssumption
    <3>3. ofs' = [k \in 1 .. made' |-> k]
      BY <2>1, <3>1, <3>2, GivenBehind DEF StreamInv, Given
    <3>4. src' \in Nat /\ made' \in Nat /\ total_write' = made'
      BY <2>1, <2>3, <3>1, <3>2 DEF StreamInv
    <3>5. loop' = "done" => made' = job'.output
      <4>1. CASE StreamEnd(took, given)
        <5>1. made + given = job.output
          BY <4>1 DEF StreamEnd, Ends
        <5>2. QED BY <2>1, <3>1, <5>1 DEF StreamInv
      <4>2. CASE RunOut(took, given)
        BY <4>2 DEF RunOut
      <4>3. QED BY <2>3, <4>1, <4>2
    <3>6. QED BY <2>1, <3>1, <3>3, <3>4, <3>5 DEF StreamInv
  <2>4. QED BY <2>1, <2>2, <2>3 DEF ZlibNext, CallZlib
<1>3. StreamInv => FileIsStream
  BY WholeOf DEF StreamInv, FileIsStream
<1>4. QED BY <1>1, <1>2, <1>3, PTL DEF ZlibSpec
-----------------------------------------------------------------------------
(* InputStep: the switch *)

StepSpec == StepInit /\ [][StepNext]_stepVars

\* Since the last press: nothing before it counts, and the counter says how long ago
\* it was.
LastPress == Len(outputs) - 4 + (IF count = 0 THEN 1 ELSE count)
Reads == [v : {0, 1}, more : BOOLEAN]
SwitchInv == /\ step_list \in StepLists /\ s_cnt \in Nat /\ s_cnt + 1 <= Len(step_list)
             /\ outputs \in Seq({"Off", "Hold", "On"}) /\ inputs \in Seq(Reads)
             /\ Len(inputs) = Len(outputs)
             /\ count \in 0 .. 4
             /\ count = 0 => state = "Off"
             /\ \A k \in DOMAIN outputs : outputs[k] = "On" => k <= LastPress
             /\ count > 0 => LastPress \in DOMAIN outputs /\ outputs[LastPress] = "On"

\* One turn of the loop: what it reads and puts out.
LEMMA TurnCases ==
  ASSUME SwitchInv, StepNext
  PROVE  /\ step_list' = step_list /\ s_cnt' \in Nat /\ s_cnt' + 1 <= Len(step_list)
         /\ on' \in {0, 1} /\ state' \in {"Off", "Hold", "On"} /\ Update(on')
         /\ outputs' = Append(outputs, state')
         /\ \E more \in BOOLEAN : inputs' = Append(inputs, [v |-> on', more |-> more])
<1>1. step_list \in Seq([v : {0, 1}, c : Nat \ {0}]) /\ Len(step_list) \in Nat
  BY StepAssumption, LenProperties DEF SwitchInv
<1>2. s_cnt' = IF LastCall /\ ~LastStep THEN s_cnt + 1 ELSE s_cnt
  BY DEF StepNext, GetInput
<1>3. s_cnt' \in Nat /\ s_cnt' + 1 <= Len(step_list)
  BY <1>1, <1>2 DEF SwitchInv, LastStep
<1>4. s_cnt' + 1 \in 1 .. Len(step_list)
  <2> DEFINE l == Len(step_list)
             c == s_cnt'
  <2>1. l \in Nat /\ c \in Nat /\ c + 1 <= l
    BY <1>1, <1>3
  <2> HIDE DEF l, c
  <2>2. c + 1 \in 1 .. l
    BY <2>1
  <2>3. QED BY <2>2 DEF l, c
<1>5. step_list[s_cnt' + 1] \in [v : {0, 1}, c : Nat \ {0}]
  BY <1>1, <1>4, ElementOfSeq
<1>6. on' = step_list[s_cnt' + 1].v
  BY DEF StepNext, Step
<1>7. state' \in {"Off", "Hold", "On"}
  <2>1. count > 0 \/ state = "Off"
    BY DEF SwitchInv
  <2>2. QED BY <2>1 DEF StepNext, Update
<1>8. QED
  <2>1. on' \in {0, 1}
    BY <1>5, <1>6
  <2>2. \E more \in BOOLEAN : inputs' = Append(inputs, [v |-> on', more |-> more])
    BY DEF StepNext, GetInput
  <2>3. QED BY <1>3, <1>7, <2>1, <2>2 DEF StepNext

LEMMA TurnKept ==
  ASSUME SwitchInv, PressHolds, StepNext
  PROVE  SwitchInv' /\ PressHolds'
<1> PICK n : n = Len(outputs)
  OBVIOUS
<1>0. /\ n = Len(outputs) /\ n \in Nat /\ DOMAIN outputs = 1 .. n /\ DOMAIN inputs = 1 .. n /\ count \in 0 .. 4
      /\ outputs \in Seq({"Off", "Hold", "On"}) /\ inputs \in Seq(Reads) /\ Len(inputs) = n
  BY LenProperties DEF SwitchInv
<1>1. PICK more \in BOOLEAN : inputs' = Append(inputs, [v |-> on', more |-> more])
  BY TurnCases
<1>2. [v |-> on', more |-> more] \in Reads
  BY <1>1, TurnCases DEF Reads
<1>3. /\ inputs' \in Seq(Reads) /\ Len(inputs') = n + 1 /\ inputs'[n + 1].v = on'
      /\ \A k \in 1 .. n : inputs'[k] = inputs[k]
  BY <1>0, <1>1, <1>2, AppendProperties
<1>4. /\ outputs' \in Seq({"Off", "Hold", "On"}) /\ Len(outputs') = n + 1 /\ outputs'[n + 1] = state'
      /\ DOMAIN outputs' = 1 .. n + 1
      /\ \A k \in 1 .. n : outputs'[k] = outputs[k]
  <2> DEFINE S == {"Off", "Hold", "On"}
  <2>1. outputs \in Seq(S) /\ state' \in S /\ outputs' = Append(outputs, state')
    BY <1>0, TurnCases
  <2> HIDE DEF S
  <2>2. /\ outputs' \in Seq(S) /\ Len(outputs') = n + 1 /\ outputs'[n + 1] = state'
        /\ \A k \in 1 .. n : outputs'[k] = outputs[k]
    BY <1>0, <2>1, AppendProperties
  <2>3. DOMAIN outputs' = 1 .. n + 1
    BY <2>2, LenProperties
  <2>4. QED BY <2>2, <2>3 DEF S
<1> DEFINE last == LastPress
<1>5. /\ last = n - 4 + (IF count = 0 THEN 1 ELSE count)
      /\ \A k \in 1 .. n : outputs[k] = "On" => k <= last
      /\ count > 0 => last \in 1 .. n /\ outputs[last] = "On"
  BY <1>0 DEF SwitchInv, LastPress
<1>6. LastPress' = (n + 1) - 4 + (IF count' = 0 THEN 1 ELSE count')
  BY <1>4 DEF LastPress
<1> HIDE DEF last
<1>7. Recent(n + 1)' <=> count > 1
  <2>1. Recent(n + 1)' <=> \E k \in 1 .. n : k + 3 >= n + 1 /\ outputs[k] = "On"
    <3>1. (n + 1) - 1 = n
      BY <1>0
    <3>2. Recent(n + 1)' <=> \E k \in 1 .. (n + 1) - 1 : k + 3 >= n + 1 /\ outputs'[k] = "On"
      BY DEF Recent
    <3>3. QED BY <1>4, <3>1, <3>2
  <2>2. CASE count > 1
    <3>1. last \in 1 .. n /\ outputs[last] = "On" /\ last + 3 >= n + 1
      BY <1>0, <1>5, <2>2
    <3>2. QED BY <2>1, <2>2, <3>1
  <2>3. CASE ~(count > 1)
    <3>1. last = n - 3
      BY <1>0, <1>5, <2>3
    <3>2. \A k \in 1 .. n : outputs[k] = "On" => ~(k + 3 >= n + 1)
      BY <1>0, <1>5, <3>1
    <3>3. QED BY <2>1, <2>3, <3>2
  <2>4. QED BY <2>2, <2>3
<1>8. /\ count' \in 0 .. 4
      /\ count > 1 => state' = "Hold" /\ count' = count - 1
      /\ ~(count > 1) /\ on' = 1 => state' = "On" /\ count' = 4
      /\ ~(count > 1) /\ on' # 1 => state' = "Off" /\ count' = 0
  <2>1. Update(on') /\ (count = 0 => state = "Off")
    BY TurnCases DEF SwitchInv
  <2>2. QED BY <1>0, <2>1 DEF Update, Left
<1>9. \A k \in DOMAIN outputs' : outputs'[k] = "On" => k <= LastPress'
  <2>1. SUFFICES ASSUME NEW k \in 1 .. n + 1, outputs'[k] = "On" PROVE k <= LastPress'
    BY <1>4
  <2>2. CASE k = n + 1
    <3>1. state' = "On"
      BY <1>4, <2>1, <2>2
    <3>2. count' = 4
      BY <1>8, <3>1, TurnCases
    <3>3. QED BY <1>0, <1>6, <2>2, <3>2
  <2>3. CASE k \in 1 .. n
    <3>1. k <= last
      BY <1>4, <1>5, <2>1, <2>3
    <3>2. CASE count > 1
      BY <1>0, <1>5, <1>6, <1>8, <2>3, <3>1, <3>2
    <3>3. CASE ~(count > 1)
      <4>1. last = n - 3
        BY <1>0, <1>5, <3>3
      <4>2. count' = 4 \/ count' = 0
        BY <1>8, <3>3
      <4>3. QED BY <1>0, <1>6, <2>3, <3>1, <4>1, <4>2
    <3>4. QED BY <3>2, <3>3
  <2>4. QED BY <1>0, <2>1, <2>2, <2>3
<1>10. count' > 0 => LastPress' \in DOMAIN outputs' /\ outputs'[LastPress'] = "On"
  <2>1. CASE count > 1
    <3>1. LastPress' = last /\ last \in 1 .. n /\ outputs[last] = "On"
      BY <1>0, <1>5, <1>6, <1>8, <2>1
    <3>2. last \in 1 .. n + 1
      BY <1>0, <3>1
    <3>3. QED BY <1>4, <3>1, <3>2
  <2>2. CASE ~(count > 1) /\ on' = 1
    <3>1. LastPress' = n + 1 /\ n + 1 \in 1 .. n + 1
      BY <1>0, <1>6, <1>8, <2>2
    <3>2. QED BY <1>4, <1>8, <2>2, <3>1
  <2>3. CASE ~(count > 1) /\ on' # 1
    BY <1>8, <2>3
  <2>4. QED BY <2>1, <2>2, <2>3
<1>11. SwitchInv'
  <2>1. count' = 0 => state' = "Off"
    <3>1. count > 1 => count' # 0
      BY <1>0, <1>8
    <3>2. QED BY <1>8, <3>1
  <2>2. step_list' \in StepLists /\ s_cnt' \in Nat /\ s_cnt' + 1 <= Len(step_list')
    BY TurnCases DEF SwitchInv
  <2>3. QED BY <1>3, <1>4, <1>8, <1>9, <1>10, <2>1, <2>2 DEF SwitchInv
<1>12. PressHolds'
  <2>1. SUFFICES ASSUME NEW k \in 1 .. n + 1
                 PROVE  outputs'[k] = IF Recent(k)' THEN "Hold" ELSE IF inputs'[k].v = 1 THEN "On" ELSE "Off"
    BY <1>4 DEF PressHolds
  <2>2. CASE k = n + 1
    BY <1>3, <1>4, <1>7, <1>8, <2>2
  <2>3. CASE k \in 1 .. n
    <3>1. \A i \in 1 .. k - 1 : outputs'[i] = outputs[i]
      BY <1>0, <1>4, <2>3
    <3>2. Recent(k)' <=> Recent(k)
      BY <3>1 DEF Recent
    <3>3. outputs[k] = IF Recent(k) THEN "Hold" ELSE IF inputs[k].v = 1 THEN "On" ELSE "Off"
      BY <1>0, <2>3 DEF PressHolds
    <3>4. QED BY <1>3, <1>4, <2>3, <3>2, <3>3
  <2>4. QED BY <1>0, <2>1, <2>2, <2>3
<1>13. QED BY <1>11, <1>12

\* For every list of steps and every number of turns: a press is reported once, the next
\* three updates say Hold whatever the input, and only then the input counts again
\* (input_step.cpp:66-86).
THEOREM PressLastsFour == StepSpec => []PressHolds
<1>1. StepInit => SwitchInv /\ PressHolds
  <2>1. SUFFICES ASSUME StepInit PROVE SwitchInv /\ PressHolds
    OBVIOUS
  <2>2. step_list \in StepLists /\ Len(step_list) \in Nat /\ Len(step_list) # 0
    <3>1. step_list \in Seq([v : {0, 1}, c : Nat \ {0}]) /\ step_list # <<>> /\ step_list \in StepLists
      BY <2>1, StepAssumption DEF StepInit
    <3>2. QED BY <3>1, LenProperties, EmptySeq
  <2>3. /\ s_cnt = 0 /\ count = 0 /\ state = "Off" /\ inputs = <<>> /\ outputs = <<>>
    BY <2>1 DEF StepInit
  <2>4. QED BY <2>2, <2>3 DEF SwitchInv, PressHolds
<1>2. SwitchInv /\ PressHolds /\ [StepNext]_stepVars => SwitchInv' /\ PressHolds'
  <2>1. ASSUME SwitchInv, PressHolds, UNCHANGED stepVars PROVE SwitchInv' /\ PressHolds'
    BY <2>1 DEF stepVars, SwitchInv, PressHolds, Recent, LastPress
  <2>2. QED BY <2>1, TurnKept
<1>3. QED BY <1>1, <1>2, PTL DEF StepSpec
-----------------------------------------------------------------------------
(* Password *)

PasswordSpec == PasswordInit /\ [][PasswordNext]_passwordVars

Letters == Uppers \cup Lowers
Places(c) == {k \in DOMAIN passwd : passwd[k] = c}

\* countList counts the characters of this word, and refuses the fourth of a kind.
WordInv == /\ passwd \in Seq(charList) /\ Len(passwd) <= WordLength
           /\ countList \in [charList -> 0 .. 3]
           /\ \A c \in charList : countList[c] = Occurs(c)
           /\ passwd # <<>> => passwd[1] \notin Digits
           /\ printed => Len(passwd) = WordLength

LEMMA PlacesFinite ==
  ASSUME passwd \in Seq(charList), NEW c
  PROVE  /\ IsFiniteSet(DOMAIN passwd) /\ Cardinality(DOMAIN passwd) = Len(passwd) /\ Len(passwd) \in Nat
         /\ IsFiniteSet(Places(c)) /\ Occurs(c) = Cardinality(Places(c)) /\ Occurs(c) \in Nat
<1>1. Len(passwd) \in Nat /\ DOMAIN passwd = 1 .. Len(passwd)
  BY LenProperties
<1>2. IsFiniteSet(1 .. Len(passwd)) /\ Cardinality(1 .. Len(passwd)) = Len(passwd)
  <2>1. 1 \in Int /\ Len(passwd) \in Int
    BY <1>1
  <2>2. /\ IsFiniteSet(1 .. Len(passwd))
        /\ Cardinality(1 .. Len(passwd)) = (IF 1 > Len(passwd) THEN 0 ELSE Len(passwd) - 1 + 1)
    BY <2>1, FS_Interval
  <2>3. QED BY <1>1, <2>2
<1>3. Places(c) \subseteq DOMAIN passwd
  BY DEF Places
<1>4. IsFiniteSet(Places(c)) /\ Cardinality(Places(c)) \in Nat
  BY <1>1, <1>2, <1>3, FS_Subset, FS_CardinalityType
<1>5. QED BY <1>1, <1>2, <1>4 DEF Occurs, Places

\* A word with three or more of every letter has three times as many characters.
LEMMA LettersLast ==
  ASSUME passwd \in Seq(charList), \A c \in Letters : Occurs(c) >= 3
  PROVE  3 * Cardinality(Letters) <= Len(passwd)
<1>1. IsFiniteSet(Letters) /\ Cardinality(Letters) \in Nat
  BY CharsAssumption, FS_Union, FS_CardinalityType DEF Letters
<1>2. IsFiniteSet(1 .. 3) /\ Cardinality(1 .. 3) = 3
  <2>1. 1 \in Int /\ 3 \in Int
    OBVIOUS
  <2>2. IsFiniteSet(1 .. 3) /\ Cardinality(1 .. 3) = (IF 1 > 3 THEN 0 ELSE 3 - 1 + 1)
    BY <2>1, FS_Interval
  <2>3. QED BY <2>2
<1>3. ASSUME NEW c \in Letters PROVE \E g \in [1 .. 3 -> Places(c)] : \A i, j \in 1 .. 3 : g[i] = g[j] => i = j
  <2>1. IsFiniteSet(Places(c)) /\ Cardinality(Places(c)) \in Nat /\ Cardinality(Places(c)) >= 3
    BY <1>3, PlacesFinite
  <2> DEFINE m == Cardinality(Places(c))
  <2>2. PICK f : f \in Bijection(1 .. m, Places(c))
    BY <2>1, FS_CardinalityType DEF ExistsBijection
  <2>3. f \in [1 .. m -> Places(c)] /\ \A i, j \in 1 .. m : f[i] = f[j] => i = j
    BY <2>2 DEF Bijection, Injection, IsInjective
  <2>4. m \in Nat /\ m >= 3
    BY <2>1
  <2> HIDE DEF m
  <2>5. \A i \in 1 .. 3 : i \in 1 .. m
    BY <2>4
  <2>6. [i \in 1 .. 3 |-> f[i]] \in [1 .. 3 -> Places(c)]
    BY <2>3, <2>5
  <2>7. \A i, j \in 1 .. 3 : [k \in 1 .. 3 |-> f[k]][i] = [k \in 1 .. 3 |-> f[k]][j] => i = j
    BY <2>3, <2>5
  <2>8. QED BY <2>6, <2>7
<1> DEFINE pick(c) == CHOOSE g \in [1 .. 3 -> Places(c)] : \A i, j \in 1 .. 3 : g[i] = g[j] => i = j
<1>4. \A c \in Letters : pick(c) \in [1 .. 3 -> Places(c)] /\ \A i, j \in 1 .. 3 : pick(c)[i] = pick(c)[j] => i = j
  BY <1>3
<1> HIDE DEF pick
<1> DEFINE all == [x \in Letters \X (1 .. 3) |-> pick(x[1])[x[2]]]
<1>5. \A c \in Letters, i \in 1 .. 3 : pick(c)[i] \in DOMAIN passwd /\ passwd[pick(c)[i]] = c
  BY <1>4 DEF Places
<1>6. all \in [Letters \X (1 .. 3) -> DOMAIN passwd]
  BY <1>5
<1>7. \A x, y \in Letters \X (1 .. 3) : all[x] = all[y] => x = y
  <2>1. SUFFICES ASSUME NEW c \in Letters, NEW i \in 1 .. 3, NEW d \in Letters, NEW j \in 1 .. 3,
                        pick(c)[i] = pick(d)[j]
                 PROVE  c = d /\ i = j
    OBVIOUS
  <2>2. c = d
    BY <1>5, <2>1
  <2>3. i = j
    BY <1>4, <2>1, <2>2
  <2>4. QED BY <2>2, <2>3
<1> HIDE DEF all
<1>8. all \in Injection(Letters \X (1 .. 3), DOMAIN passwd)
  BY <1>6, <1>7 DEF Injection, IsInjective
<1>9. Cardinality(Letters \X (1 .. 3)) <= Len(passwd)
  BY <1>8, PlacesFinite, FS_Injection
<1>10. Cardinality(Letters \X (1 .. 3)) = Cardinality(Letters) * 3
  BY <1>1, <1>2, FS_Product
<1>11. QED BY <1>1, <1>9, <1>10

LEMMA DrawKept ==
  ASSUME WordInv, NEW c \in charList, Draw(c)
  PROVE  WordInv'
<1> PICK n : n = Len(passwd)
  OBVIOUS
<1>1. /\ n \in Nat /\ DOMAIN passwd = 1 .. n /\ passwd \in Seq(charList)
  BY LenProperties DEF WordInv
<1>2. /\ n < WordLength /\ passwd' = Append(passwd, c) /\ countList' = [countList EXCEPT ![c] = @ + 1]
      /\ (passwd = <<>> => c \notin Digits) /\ UNCHANGED printed
  BY DEF Draw
<1>3. /\ passwd' \in Seq(charList) /\ Len(passwd') = n + 1 /\ passwd'[n + 1] = c
      /\ DOMAIN passwd' = 1 .. n + 1 /\ \A k \in 1 .. n : passwd'[k] = passwd[k]
  BY <1>1, <1>2, AppendProperties, LenProperties
<1>4. countList[c] \in 0 .. 2
  <2>1. \E retry \in 0 .. 99 : retry >= countList[c] * 40
    BY DEF Draw, Accepted
  <2>2. countList[c] \in 0 .. 3
    BY DEF WordInv
  <2>3. QED BY <2>1, <2>2
<1>5. countList' \in [charList -> 0 .. 3]
  BY <1>2, <1>4 DEF WordInv
<1>6. ASSUME NEW d \in charList PROVE countList'[d] = Occurs(d)'
  <2>1. /\ IsFiniteSet(Places(d)) /\ Occurs(d) = Cardinality(Places(d))
        /\ countList[d] = Occurs(d) /\ countList[d] \in 0 .. 3
    BY <1>1, PlacesFinite DEF WordInv
  <2>2. Occurs(d)' = Cardinality({k \in 1 .. n + 1 : passwd'[k] = d})
    BY <1>3 DEF Occurs
  <2>3. n + 1 \notin Places(d)
    BY <1>1 DEF Places
  <2>4. CASE d = c
    <3>1. {k \in 1 .. n + 1 : passwd'[k] = d} = Places(d) \cup {n + 1}
      BY <1>1, <1>3, <2>4 DEF Places
    <3>2. Occurs(d)' = Occurs(d) + 1
      BY <2>1, <2>2, <2>3, <3>1, FS_AddElement
    <3>3. QED BY <1>2, <2>1, <2>4, <3>2 DEF WordInv
  <2>5. CASE d # c
    <3>1. {k \in 1 .. n + 1 : passwd'[k] = d} = Places(d)
      BY <1>1, <1>3, <2>5 DEF Places
    <3>2. QED BY <1>2, <2>1, <2>2, <2>5, <3>1 DEF WordInv
  <2>6. QED BY <2>4, <2>5
<1>7. passwd'[1] \notin Digits
  <2>1. CASE passwd = <<>>
    <3>1. n = 0
      BY <1>1, <2>1
    <3>2. QED BY <1>2, <1>3, <2>1, <3>1
  <2>2. CASE passwd # <<>>
    <3>1. n # 0
      BY <1>1, <2>2, EmptySeq
    <3>2. passwd'[1] = passwd[1]
      BY <1>1, <1>3, <3>1
    <3>3. QED BY <2>2, <3>2 DEF WordInv
  <2>3. QED BY <2>1, <2>2
<1>8. n + 1 <= WordLength /\ (printed' => FALSE)
  <2>1. WordLength \in Nat
    BY WordAssumption
  <2>2. QED BY <1>1, <1>2, <2>1 DEF WordInv
<1>9. QED BY <1>3, <1>5, <1>6, <1>7, <1>8 DEF WordInv

LEMMA WordFresh ==
  ASSUME WordInv
  PROVE  FreshWords
<1>1. passwd \in Seq(charList) /\ Len(passwd) \in Nat
  BY LenProperties DEF WordInv
<1>2. ASSUME NEW c \in charList PROVE (Accepted(c) <=> Occurs(c) < 3) /\ Occurs(c) <= 3
  <2>1. countList[c] = Occurs(c) /\ countList[c] \in 0 .. 3
    BY DEF WordInv
  <2>2. (\E retry \in 0 .. 99 : retry >= countList[c] * 40) <=> countList[c] < 3
    <3>1. CASE countList[c] < 3
      <4>1. 80 \in 0 .. 99 /\ 80 >= countList[c] * 40
        BY <2>1, <3>1
      <4>2. QED BY <3>1, <4>1
    <3>2. CASE ~(countList[c] < 3)
      BY <2>1, <3>2
    <3>3. QED BY <3>1, <3>2
  <2>3. Occurs(c) <= 3
    BY <2>1
  <2>4. QED BY <2>1, <2>2, <2>3 DEF Accepted
<1>3. ASSUME Len(passwd) < WordLength PROVE \E c \in charList \ Digits : Occurs(c) < 3
  <2>1. Letters \subseteq charList \ Digits
    BY CharsAssumption DEF Letters, charList
  <2>2. SUFFICES ASSUME \A c \in Letters : ~(Occurs(c) < 3) PROVE FALSE
    BY <2>1
  <2>3. \A c \in Letters : Occurs(c) >= 3
    BY <1>1, <2>2, PlacesFinite
  <2>4. 3 * Cardinality(Letters) <= Len(passwd)
    BY <1>1, <2>3, LettersLast
  <2>5. Cardinality(Letters) \in Nat /\ WordLength \in 1 .. 3 * Cardinality(Letters)
    BY CharsAssumption, WordAssumption, FS_Union, FS_CardinalityType DEF Letters
  <2>6. QED BY <1>1, <1>3, <2>4, <2>5
<1>4. printed => passwd[1] \notin Digits
  <2>1. printed => Len(passwd) # 0
    BY WordAssumption DEF WordInv
  <2>2. QED BY <1>1, <2>1, EmptySeq DEF WordInv
<1>5. QED BY <1>2, <1>3, <1>4 DEF FreshWords

\* For every list of characters and every length a word of it can have: a word does not
\* feel those thrown away before it, can always be finished, and begins with a letter
\* (password.cpp:36-68).
THEOREM WordsAreFresh == PasswordSpec => []FreshWords
<1>1. PasswordInit => WordInv
  <2>1. SUFFICES ASSUME PasswordInit PROVE WordInv
    OBVIOUS
  <2>2. passwd = <<>> /\ countList = [c \in charList |-> 0] /\ ~printed
    BY <2>1 DEF PasswordInit, NoneDrawn
  <2>3. \A c \in charList : Occurs(c) = 0
    <3>1. \A c \in charList : {k \in DOMAIN passwd : passwd[k] = c} = {}
      BY <2>2
    <3>2. QED BY <3>1, FS_EmptySet DEF Occurs
  <2>4. passwd \in Seq(charList) /\ Len(passwd) = 0 /\ 0 <= WordLength
    BY <2>2, WordAssumption, EmptySeq
  <2>5. countList \in [charList -> 0 .. 3] /\ \A c \in charList : countList[c] = 0
    BY <2>2
  <2>6. QED BY <2>2, <2>3, <2>4, <2>5 DEF WordInv
<1>2. WordInv /\ [PasswordNext]_passwordVars => WordInv'
  <2>1. ASSUME WordInv, PrintWord PROVE WordInv'
    BY <2>1 DEF WordInv, PrintWord, Occurs
  <2>2. ASSUME WordInv, Again PROVE WordInv'
    <3>1. passwd' = <<>> /\ countList' = [c \in charList |-> 0] /\ ~printed'
      BY <2>2 DEF Again, NoneDrawn
    <3>2. \A c \in charList : Occurs(c)' = 0
      <4>1. \A c \in charList : {k \in DOMAIN passwd' : passwd'[k] = c} = {}
        BY <3>1
      <4>2. QED BY <4>1, FS_EmptySet DEF Occurs
    <3>3. passwd' \in Seq(charList) /\ Len(passwd') = 0 /\ 0 <= WordLength
      BY <3>1, WordAssumption, EmptySeq
    <3>4. countList' \in [charList -> 0 .. 3] /\ \A c \in charList : countList'[c] = 0
      BY <3>1
    <3>5. QED BY <3>1, <3>2, <3>3, <3>4 DEF WordInv
  <2>3. ASSUME WordInv, UNCHANGED passwordVars PROVE WordInv'
    BY <2>3 DEF WordInv, passwordVars, Occurs
  <2>4. QED BY <2>1, <2>2, <2>3, DrawKept DEF PasswordNext
<1>3. WordInv => FreshWords
  BY WordFresh
<1>4. QED BY <1>1, <1>2, <1>3, PTL DEF PasswordSpec
-----------------------------------------------------------------------------
(* Battle *)

BattleSpec == BattleInit /\ [][BattleNext]_battleVars

\* exp_list has entries for 50 levels; what the program does above them is undefined.
LevelsListed == \A p \in Players : player[p].level <= 50

Members == [life : Nat, hp : Nat, healing : Nat, exp : Nat, level : Nat]
BattleTypes == /\ player \in [Players -> Members] /\ heals \in [Players -> Nat]
               /\ strokes = <<>> \/ \E p \in Players : strokes = <<p>> \/ strokes = <<p, Other(p)>>

\* The numbers of a player that was healed n times: life is bounded by the points of
\* its levels, and the true number of healings left is not negative.
Sound(s, n) == /\ s.level >= 1
               /\ s.life \in 1 .. 130 + 16 * (s.level - 1) /\ s.hp <= s.life
               /\ n <= 8 + s.level /\ s.healing = (8 + s.level - n) % 16

FightInv == /\ \A p \in Players : Sound(player[p], heals[p])
            /\ strokes # <<>> => \A p \in Players : player[p].hp > 0
            /\ SomebodyLives

LEMMA TwoPlayers ==
  ASSUME NEW p \in Players
  PROVE  Other(p) \in Players /\ Other(p) # p /\ Players = {p, Other(p)}
BY PlayersAssumption DEF Other

LEMMA FieldsKeep ==
  /\ \A n \in Nat : Field10(n) \in Nat /\ (n <= 1023 => Field10(n) = n)
  /\ \A n \in Nat : Field4(n) \in Nat /\ Field4(n) = n % 16
<1>1. 2^10 = 1024 /\ 2^4 = 16
  OBVIOUS
<1>2. \A n \in Nat : n % 1024 \in Nat /\ (n <= 1023 => n % 1024 = n) /\ n % 16 \in Nat
  OBVIOUS
<1>3. QED BY <1>1, <1>2 DEF Field10, Field4

\* Types do not depend on how many levels there are, and no level is ever lost.
LEMMA HealedTypes ==
  ASSUME NEW s \in Members, NEW h \in Nat, Needs(s)
  PROVE  Healed(s, h) \in Members /\ Healed(s, h).level = s.level
<1>1. s.healing - 1 \in Nat /\ s.hp + h \in Nat
  BY DEF Members, Needs
<1>2. Field4(s.healing - 1) \in Nat /\ Field10(IF s.life < s.hp + h THEN s.life ELSE s.hp + h) \in Nat
  BY <1>1, FieldsKeep DEF Members
<1>3. QED BY <1>2 DEF Healed, Members

LEMMA RaisedTypes ==
  ASSUME NEW s \in Members, NEW gain \in LifeGains
  PROVE  Raised(s, gain) \in Members /\ Raised(s, gain).level = s.level + 1
<1>1. gain \in 0 .. 16
  BY PointsAssumption
<1>2. s.healing + 1 \in Nat /\ s.life + gain \in Nat /\ s.level + 1 \in Nat
  BY <1>1 DEF Members
<1>3. Field4(s.healing + 1) \in Nat /\ Field10(s.life + gain) \in Nat
  BY <1>2, FieldsKeep
<1>4. QED BY <1>2, <1>3 DEF Raised, Members

\* What a hit does, with names for its stages.
LEMMA HitCases ==
  ASSUME BattleTypes, ~Over, NEW d \in Hurts, NEW h \in Heals, NEW gain \in LifeGains, Hit(d, h, gain)
  PROVE  \E p \in Players, damage \in Nat, struck \in Members, richer \in Members :
           LET q == Other(p) IN
           /\ p = Striker /\ q \in Players /\ p # q /\ Players = {p, q} /\ h \in Nat
           /\ damage <= player[q].hp
           /\ struck = [player[q] EXCEPT !.hp = Field10(@ - damage)]
           /\ richer = [player[p] EXCEPT !.exp = @ + damage \div 2]
           /\ player' \in [Players -> Members] /\ heals' \in [Players -> Nat]
           /\ player'[q] = (IF Needs(struck) THEN Healed(struck, h) ELSE struck)
           /\ player'[p] = (IF Rises(richer) THEN Raised(richer, gain) ELSE richer)
           /\ heals'[q] = (IF Needs(struck) THEN heals[q] + 1 ELSE heals[q]) /\ heals'[p] = heals[p]
           /\ strokes' = After(struck)
<1> PICK p : p = Striker
  OBVIOUS
<1>1. p \in Players
  BY DEF BattleTypes, Over, Striker
<1> PICK q : q = Other(p)
  OBVIOUS
<1>2. q \in Players /\ q # p /\ Players = {p, q}
  BY <1>1, TwoPlayers
<1>3. player[p] \in Members /\ player[q] \in Members /\ heals \in [Players -> Nat] /\ player \in [Players -> Members]
  BY <1>1, <1>2 DEF BattleTypes
<1>4. h \in Nat /\ d \in Nat
  BY PointsAssumption DEF Hurts
<1> PICK damage : damage = Damage(q, d)
  OBVIOUS
<1>5. damage \in Nat /\ damage <= player[q].hp /\ player[q].hp - damage \in Nat
  BY <1>3, <1>4 DEF Damage, Hp, Members
<1> PICK struck : struck = [player[q] EXCEPT !.hp = Field10(@ - damage)]
  OBVIOUS
<1>6. struck \in Members
  <2>1. Field10(player[q].hp - damage) \in Nat
    BY <1>5, FieldsKeep
  <2>2. QED BY <1>3, <2>1 DEF Members
<1> PICK richer : richer = [player[p] EXCEPT !.exp = @ + damage \div 2]
  OBVIOUS
<1>7. richer \in Members
  <2>1. player[p].exp + damage \div 2 \in Nat
    BY <1>3, <1>5 DEF Members
  <2>2. QED BY <1>3, <2>1 DEF Members
<1> PICK after : after = IF Needs(struck) THEN Healed(struck, h) ELSE struck
  OBVIOUS
<1>8. after \in Members
  BY <1>4, <1>6, HealedTypes
<1> PICK up : up = IF Rises(richer) THEN Raised(richer, gain) ELSE richer
  OBVIOUS
<1>9. up \in Members
  BY <1>7, RaisedTypes
<1>10. /\ player' = [player EXCEPT ![q] = after, ![p] = up]
       /\ heals' = [heals EXCEPT ![q] = IF Needs(struck) THEN @ + 1 ELSE @]
       /\ strokes' = After(struck)
  BY DEF Hit
<1>11. player' \in [Players -> Members] /\ player'[q] = after /\ player'[p] = up
  BY <1>1, <1>2, <1>3, <1>8, <1>9, <1>10
<1>12. /\ heals' \in [Players -> Nat] /\ heals'[p] = heals[p]
       /\ heals'[q] = (IF Needs(struck) THEN heals[q] + 1 ELSE heals[q])
  BY <1>1, <1>2, <1>3, <1>10
<1>13. QED BY <1>1, <1>2, <1>4, <1>5, <1>6, <1>7, <1>10, <1>11, <1>12

LEMMA StrokesLess ==
  ASSUME BattleTypes, ~Over
  PROVE  Tail(strokes) = <<>> \/ \E p \in Players : Tail(strokes) = <<p>>
<1>1. ASSUME NEW p \in Players, strokes = <<p>> PROVE Tail(strokes) = <<>>
  BY <1>1
<1>2. ASSUME NEW p \in Players, strokes = <<p, Other(p)>> PROVE Tail(strokes) = <<Other(p)>>
  BY <1>2
<1>3. QED BY <1>1, <1>2, TwoPlayers DEF BattleTypes, Over

LEMMA BattleTypesStep ==
  ASSUME BattleTypes, [BattleNext]_battleVars
  PROVE  BattleTypes' /\ (LevelsListed' => LevelsListed)
<1>1. CASE BeginBattle
  BY <1>1, TwoPlayers DEF BeginBattle, BattleTypes, LevelsListed
<1>2. CASE Miss
  BY <1>2, StrokesLess DEF Miss, BattleTypes, LevelsListed
<1>3. ASSUME ~Over, NEW d \in Hurts, NEW h \in Heals, NEW gain \in LifeGains, Hit(d, h, gain)
      PROVE  BattleTypes' /\ (LevelsListed' => LevelsListed)
  <2>1. PICK p \in Players, damage \in Nat, struck \in Members, richer \in Members :
          /\ Other(p) \in Players /\ Players = {p, Other(p)} /\ h \in Nat
          /\ struck = [player[Other(p)] EXCEPT !.hp = Field10(@ - damage)]
          /\ richer = [player[p] EXCEPT !.exp = @ + damage \div 2]
          /\ player' \in [Players -> Members] /\ heals' \in [Players -> Nat]
          /\ player'[Other(p)] = (IF Needs(struck) THEN Healed(struck, h) ELSE struck)
          /\ player'[p] = (IF Rises(richer) THEN Raised(richer, gain) ELSE richer)
          /\ strokes' = After(struck)
    BY <1>3, HitCases
  <2>2. strokes' = <<>> \/ \E o \in Players : strokes' = <<o>>
    <3>1. strokes' \in {<<>>, Tail(strokes)}
      BY <2>1 DEF After
    <3>2. QED BY <1>3, <3>1, StrokesLess
  <2>3. player[p] \in Members /\ player[Other(p)] \in Members
    BY <2>1 DEF BattleTypes
  <2>4. struck.level = player[Other(p)].level /\ richer.level = player[p].level
    BY <2>1, <2>3 DEF Members
  <2>5. player'[Other(p)].level = player[Other(p)].level
    BY ZenonT(60), <2>1, <2>4, HealedTypes
  <2>6. player'[p].level \in {player[p].level, player[p].level + 1}
    BY <2>1, <2>4, RaisedTypes
  <2>7. player[p].level \in Nat
    BY <2>3 DEF Members
  <2>8. ASSUME LevelsListed' PROVE LevelsListed
    <3>1. player'[p].level <= 50 /\ player'[Other(p)].level <= 50
      BY <2>1, <2>8 DEF LevelsListed
    <3>2. player[Other(p)].level <= 50
      BY <2>5, <3>1
    <3>3. player[p].level <= 50
      <4>1. CASE player'[p].level = player[p].level
        BY <3>1, <4>1
      <4>2. CASE player'[p].level = player[p].level + 1
        <5>1. player[p].level + 1 <= 50
          BY <3>1, <4>2
        <5>2. QED BY <2>7, <5>1
      <4>3. QED BY <2>6, <4>1, <4>2
    <3>4. QED BY <2>1, <3>2, <3>3 DEF LevelsListed
  <2>9. QED BY <2>1, <2>2, <2>8 DEF BattleTypes
<1>4. CASE UNCHANGED battleVars
  BY <1>4 DEF battleVars, BattleTypes, LevelsListed
<1>5. QED BY <1>1, <1>2, <1>3, <1>4 DEF BattleNext

LEMMA StruckSound ==
  ASSUME NEW s \in Members, NEW n \in Nat, Sound(s, n), s.level <= 50, NEW damage \in Nat, damage <= s.hp,
         NEW struck, struck = [s EXCEPT !.hp = Field10(@ - damage)]
  PROVE  Sound(struck, n)
<1>1. s.level \in Nat /\ s.hp \in Nat /\ s.life \in Nat
  BY DEF Members
<1>2. s.life <= 914 /\ s.hp <= 914
  BY <1>1 DEF Sound
<1>3. s.hp - damage \in Nat /\ s.hp - damage <= 1023
  BY <1>1, <1>2
<1>4. struck.hp = s.hp - damage
  BY <1>3, FieldsKeep DEF Members
<1>5. struck.level = s.level /\ struck.life = s.life /\ struck.healing = s.healing
  BY DEF Members
<1>6. struck.hp <= s.life
  BY <1>1, <1>4 DEF Sound
<1>7. QED BY <1>5, <1>6 DEF Sound

LEMMA HealedSound ==
  ASSUME NEW s \in Members, NEW n \in Nat, Sound(s, n), s.level <= 50, NEW h \in Nat, Needs(s)
  PROVE  Sound(Healed(s, h), n + 1) /\ Healed(s, h).hp > 0
<1>1. s.level \in Nat /\ s.hp \in Nat /\ s.life \in Nat /\ s.healing \in Nat
  BY DEF Members
<1>2. s.life <= 914 /\ s.hp <= s.life /\ s.life >= 1 /\ s.hp > 0 /\ s.healing > 0
  BY <1>1 DEF Sound, Needs
<1> PICK m : m = IF s.life < s.hp + h THEN s.life ELSE s.hp + h
  OBVIOUS
<1>3. m \in Nat /\ m <= s.life /\ m > 0 /\ m <= 1023
  BY <1>1, <1>2
<1>4. Field10(m) = m
  BY <1>3, FieldsKeep
<1>5. s.healing - 1 \in Nat
  BY <1>1, <1>2
<1>6. Field4(s.healing - 1) = (s.healing - 1) % 16
  BY <1>5, FieldsKeep
<1>7. Healed(s, h) = [s EXCEPT !.hp = m, !.healing = (s.healing - 1) % 16]
  BY <1>4, <1>6 DEF Healed, Members
<1>8. /\ Healed(s, h).hp = m /\ Healed(s, h).healing = (s.healing - 1) % 16
      /\ Healed(s, h).life = s.life /\ Healed(s, h).level = s.level
  BY <1>7 DEF Members
<1>9. n + 1 <= 8 + s.level /\ (s.healing - 1) % 16 = (8 + s.level - (n + 1)) % 16
  <2>1. n <= 8 + s.level /\ s.healing = (8 + s.level - n) % 16
    BY DEF Sound
  <2>2. n # 8 + s.level
    BY <1>1, <1>2, <2>1
  <2>3. QED BY <1>1, <1>2, <2>1, <2>2
<1>10. QED BY <1>3, <1>8, <1>9 DEF Sound

LEMMA RaisedSound ==
  ASSUME NEW s \in Members, NEW n \in Nat, Sound(s, n), s.level + 1 <= 50, NEW gain \in LifeGains
  PROVE  Sound(Raised(s, gain), n)
<1>1. s.level \in Nat /\ s.hp \in Nat /\ s.life \in Nat /\ s.healing \in Nat /\ gain \in 0 .. 16
  BY PointsAssumption DEF Members
<1>2. s.life <= 130 + 16 * (s.level - 1) /\ s.hp <= s.life /\ s.life >= 1 /\ s.level >= 1
  BY DEF Sound
<1>3. s.life + gain \in Nat /\ s.life + gain <= 130 + 16 * (s.level + 1 - 1) /\ s.life + gain <= 1023
  BY <1>1, <1>2
<1>4. Field10(s.life + gain) = s.life + gain
  BY <1>3, FieldsKeep
<1>5. Field4(s.healing + 1) = (s.healing + 1) % 16
  BY <1>1, FieldsKeep
<1>6. /\ Raised(s, gain).hp = s.hp /\ Raised(s, gain).healing = (s.healing + 1) % 16
      /\ Raised(s, gain).life = s.life + gain /\ Raised(s, gain).level = s.level + 1
  BY <1>4, <1>5 DEF Raised, Members
<1>7. n <= 8 + (s.level + 1) /\ (s.healing + 1) % 16 = (8 + (s.level + 1) - n) % 16
  <2>1. n <= 8 + s.level /\ s.healing = (8 + s.level - n) % 16
    BY DEF Sound
  <2>2. QED BY <1>1, <2>1
<1>8. QED BY <1>1, <1>2, <1>3, <1>6, <1>7 DEF Sound

LEMMA HitSound ==
  ASSUME BattleTypes, BattleTypes', FightInv, LevelsListed, LevelsListed',
         ~Over, NEW d \in Hurts, NEW h \in Heals, NEW gain \in LifeGains, Hit(d, h, gain)
  PROVE  FightInv'
<1>1. PICK p \in Players, damage \in Nat, struck \in Members, richer \in Members :
        /\ p = Striker /\ Other(p) \in Players /\ p # Other(p) /\ Players = {p, Other(p)} /\ h \in Nat
        /\ damage <= player[Other(p)].hp
        /\ struck = [player[Other(p)] EXCEPT !.hp = Field10(@ - damage)]
        /\ richer = [player[p] EXCEPT !.exp = @ + damage \div 2]
        /\ player' \in [Players -> Members] /\ heals' \in [Players -> Nat]
        /\ player'[Other(p)] = (IF Needs(struck) THEN Healed(struck, h) ELSE struck)
        /\ player'[p] = (IF Rises(richer) THEN Raised(richer, gain) ELSE richer)
        /\ heals'[Other(p)] = (IF Needs(struck) THEN heals[Other(p)] + 1 ELSE heals[Other(p)])
        /\ heals'[p] = heals[p]
        /\ strokes' = After(struck)
  BY HitCases
<1> PICK q : q = Other(p)
  OBVIOUS
<1>2. /\ player[p] \in Members /\ player[q] \in Members /\ heals[p] \in Nat /\ heals[q] \in Nat
      /\ Sound(player[p], heals[p]) /\ Sound(player[q], heals[q])
      /\ player[p].level <= 50 /\ player[q].level <= 50 /\ player'[p].level <= 50
      /\ player[p].hp > 0
  BY <1>1 DEF BattleTypes, FightInv, LevelsListed, Over
<1>3. Sound(struck, heals[q]) /\ struck.level = player[q].level
  BY <1>1, <1>2, StruckSound DEF Members
<1>4. Sound(player'[q], heals'[q]) /\ (struck.hp > 0 => player'[q].hp > 0)
  <2>1. CASE Needs(struck)
    <3>1. player'[q] = Healed(struck, h) /\ heals'[q] = heals[q] + 1
      BY <1>1, <2>1
    <3>2. struck.level <= 50 /\ struck \in Members /\ h \in Nat
      BY <1>1, <1>2, <1>3
    <3>3. Sound(Healed(struck, h), heals[q] + 1) /\ Healed(struck, h).hp > 0
      BY <1>2, <1>3, <2>1, <3>2, HealedSound
    <3>4. QED BY <3>1, <3>3
  <2>2. CASE ~Needs(struck)
    <3>1. player'[q] = struck /\ heals'[q] = heals[q]
      BY <1>1, <2>2
    <3>2. QED BY <1>3, <3>1
  <2>3. QED BY <2>1, <2>2
<1>5. /\ richer.level = player[p].level /\ richer.hp = player[p].hp /\ richer.life = player[p].life
      /\ richer.healing = player[p].healing
  BY <1>1, <1>2 DEF Members
<1>6. Sound(richer, heals[p])
  BY <1>2, <1>5 DEF Sound
<1>7. Sound(player'[p], heals'[p]) /\ player'[p].hp > 0
  <2>1. CASE Rises(richer)
    <3>1. player'[p] = Raised(richer, gain) /\ heals'[p] = heals[p]
      BY <1>1, <2>1
    <3>2. Raised(richer, gain).level = richer.level + 1
      BY RaisedTypes
    <3>3. richer.level + 1 <= 50
      BY <1>2, <3>1, <3>2
    <3>4. Sound(Raised(richer, gain), heals[p])
      BY <1>2, <1>6, <3>3, RaisedSound
    <3>5. Raised(richer, gain).hp = richer.hp
      BY DEF Raised, Members
    <3>6. QED BY <1>2, <1>5, <3>1, <3>4, <3>5
  <2>2. CASE ~Rises(richer)
    BY <1>1, <1>2, <1>5, <1>6, <2>2
  <2>3. QED BY <2>1, <2>2
<1>8. strokes' # <<>> => \A o \in Players : player'[o].hp > 0
  <2>1. strokes' # <<>> => struck.hp > 0
    BY <1>1 DEF After
  <2>2. QED BY <1>1, <1>4, <1>7, <2>1
<1>9. SomebodyLives'
  BY <1>7 DEF SomebodyLives, Hp
<1>10. \A o \in Players : Sound(player'[o], heals'[o])
  BY <1>1, <1>4, <1>7
<1>11. QED BY <1>8, <1>9, <1>10 DEF FightInv

LEMMA FightStep ==
  ASSUME BattleTypes, BattleTypes', FightInv, LevelsListed, LevelsListed', [BattleNext]_battleVars
  PROVE  FightInv'
<1>1. CASE BeginBattle
  <2>1. UNCHANGED <<player, heals>> /\ \A p \in Players : player[p].hp # 0
    BY <1>1 DEF BeginBattle, Hp
  <2>2. \A p \in Players : player[p].hp > 0
    BY <2>1 DEF BattleTypes, Members
  <2>3. QED BY <2>1, <2>2 DEF FightInv, SomebodyLives, Hp
<1>2. CASE Miss
  BY <1>2 DEF Miss, FightInv, SomebodyLives, Hp, Over
<1>3. CASE UNCHANGED battleVars
  BY <1>3 DEF battleVars, FightInv, SomebodyLives, Hp
<1>4. QED BY <1>1, <1>2, <1>3, HitSound DEF BattleNext

LEMMA FightHolds == BattleSpec => [](BattleTypes /\ (LevelsListed => FightInv))
<1>1. BattleInit => BattleTypes /\ FightInv
  <2>1. SUFFICES ASSUME BattleInit PROVE BattleTypes /\ FightInv
    OBVIOUS
  <2>2. /\ player \in [Players -> [life : FirstLives, hp : {100}, healing : {9}, exp : {0}, level : {1}]]
        /\ strokes = <<>> /\ heals = [p \in Players |-> 0]
    BY <2>1 DEF BattleInit, FirstPlayers
  <2>3. ASSUME NEW p \in Players
        PROVE  /\ player[p] \in Members /\ player[p].life \in 100 .. 130 /\ player[p].hp = 100
               /\ player[p].healing = 9 /\ player[p].level = 1
    <3>1. player[p] \in [life : FirstLives, hp : {100}, healing : {9}, exp : {0}, level : {1}]
      BY <2>2
    <3>2. /\ player[p].life \in FirstLives /\ player[p].hp = 100 /\ player[p].healing = 9
          /\ player[p].exp = 0 /\ player[p].level = 1
      BY <3>1
    <3>3. player[p].life \in 100 .. 130
      BY <3>2, PointsAssumption
    <3>4. player[p] \in [life : Nat, hp : Nat, healing : Nat, exp : Nat, level : Nat]
      BY <3>1, <3>3
    <3>5. QED BY <3>1, <3>2, <3>3 DEF Members
  <2>4. player \in [Players -> Members] /\ heals \in [Players -> Nat] /\ \A p \in Players : heals[p] = 0
    BY <2>2, <2>3
  <2>5. BattleTypes
    BY <2>2, <2>4 DEF BattleTypes
  <2>6. \A p \in Players : Sound(player[p], heals[p])
    BY <2>3, <2>4 DEF Sound
  <2>7. SomebodyLives
    BY <2>3, PlayersAssumption DEF SomebodyLives, Hp
  <2>8. QED BY <2>2, <2>5, <2>6, <2>7 DEF FightInv
<1>2. BattleTypes /\ (LevelsListed => FightInv) /\ [BattleNext]_battleVars
        => BattleTypes' /\ (LevelsListed' => FightInv')
  BY BattleTypesStep, FightStep
<1>3. QED BY <1>1, <1>2, PTL DEF BattleSpec

\* For every damage, healing and gain of life that the status points allow, and any number
\* of battles: two players never kill each other, so every round leaves somebody
\* (game_test.cpp:108-147), as long as no level runs out of exp_list.
THEOREM SomebodyIsLeft == BattleSpec => [](LevelsListed => SomebodyLives)
<1>1. (LevelsListed => FightInv) => (LevelsListed => SomebodyLives)
  BY DEF FightInv
<1>2. QED BY <1>1, FightHolds, PTL

\* Under the same conditions hit points never exceed life, the fields of ten bits never
\* wrap, and the four of healing hold what was won less what was used
\* (game_test.cpp:70-98, 117-130).
THEOREM FieldsHold == BattleSpec => [](LevelsListed => HpWithinLife)
<1>1. ASSUME BattleTypes, LevelsListed, FightInv PROVE HpWithinLife
  <2>1. SUFFICES ASSUME NEW p \in Players
                 PROVE  Hp(p) <= Life(p) /\ player[p].healing = Field4(9 + (player[p].level - 1) - heals[p])
    BY DEF HpWithinLife
  <2>2. Sound(player[p], heals[p]) /\ player[p].level \in Nat /\ heals[p] \in Nat
    BY <1>1 DEF FightInv, BattleTypes, Members
  <2>3. Field4(9 + (player[p].level - 1) - heals[p]) = (8 + player[p].level - heals[p]) % 16
    <3>1. 9 + (player[p].level - 1) - heals[p] = 8 + player[p].level - heals[p]
      BY <2>2
    <3>2. 8 + player[p].level - heals[p] \in Nat
      BY <2>2 DEF Sound
    <3>3. QED BY <3>1, <3>2, FieldsKeep
  <2>4. QED BY <2>2, <2>3 DEF Sound, Hp, Life
<1>2. BattleTypes /\ (LevelsListed => FightInv) => (LevelsListed => HpWithinLife)
  BY <1>1
<1>3. QED BY <1>2, FightHolds, PTL
-----------------------------------------------------------------------------
(***************************************************************************)
(* ImageConv.  The bytes of a picture, and the pair of bytes a pixel       *)
(* becomes, are functions of the PNG: the invariant says from where on     *)
(* they are there.                                                         *)
(***************************************************************************)

ImageSpec == ImageInit /\ [][ImageNext]_imageVars

\* What read_png makes of the rows, and what translate makes of that.
Rows == [k \in PixelNumbers |->
           IF Channels \in {3, 4}
           THEN [c \in 1 .. 3 |-> ByteOf(k * Channels + c - 1)]
           ELSE [c \in 1 .. 3 |-> ByteOf(k * Channels)]]
Pairs == [k \in 0 .. 2 * (png.size[1] * png.size[2]) - 1 |->
            LET px == Packed(image[k \div 2]) IN IF k % 2 = 0 THEN px % 256 ELSE px \div 256]

ImageInv ==
  /\ png \in Pictures
  /\ conv \in {"open", "refused", "aborted", "read", "translate", "write", "done", "undefined"}
  /\ conv \in {"read", "translate", "write", "done"} => png.kind \in {"rgb", "rgba", "gray alpha"}
  /\ conv \in {"translate", "write", "done"} => png.defect = "none" /\ image = Rows
  /\ conv \in {"write", "done"} => img16 = Pairs
  /\ written # <<>> => /\ conv = "done"
                       /\ written = <<Int16(png.size[1]), Int16(png.size[2]), img16>>

LEMMA ImageHolds == ImageSpec => []ImageInv
<1>1. ImageInit => ImageInv
  BY DEF ImageInit, ImageInv
<1>2. ImageInv /\ [ImageNext]_imageVars => ImageInv'
  <2>1. SUFFICES ASSUME ImageInv, [ImageNext]_imageVars PROVE ImageInv'
    OBVIOUS
  <2>2. CASE OpenPng
    BY <2>1, <2>2 DEF OpenPng, Converts, ImageInv
  <2>3. CASE ReadFails
    BY <2>1, <2>3 DEF ReadFails, Converts, ImageInv
  <2>9. CASE CreateOverflows
    <3>1. UNCHANGED <<png, image, img16, written>> /\ conv = "read" /\ conv' \in {"aborted", "undefined"}
      BY <2>9 DEF CreateOverflows
    <3>2. QED BY <2>1, <3>1 DEF ImageInv
  <2>4. CASE Create
    <3>1. image' = Rows /\ UNCHANGED <<png, img16, written>> /\ conv = "read" /\ conv' = "translate"
      BY <2>4 DEF Create, Converts, Rows
    <3>2. Rows' = Rows
      <4>1. png' = png
        BY <3>1
      <4>2. QED BY <4>1 DEF Rows, PixelNumbers, Channels, ByteOf
    <3>3. png.defect = "none" /\ png.kind \in {"rgb", "rgba", "gray alpha"}
      BY <2>1, <2>4, <3>1 DEF Create, ImageInv
    <3>4. QED BY <2>1, <3>1, <3>2, <3>3 DEF ImageInv
  <2>5. CASE Translate
    <3>1. img16' = Pairs /\ UNCHANGED <<png, image, written>> /\ conv = "translate" /\ conv' = "write"
      BY <2>5 DEF Translate, Converts, Pairs
    <3>2. Rows' = Rows /\ Pairs' = Pairs
      BY <3>1 DEF Rows, Pairs, PixelNumbers, Channels, ByteOf, Packed
    <3>3. QED BY <2>1, <3>1, <3>2 DEF ImageInv
  <2>6. CASE Write
    <3>1. /\ UNCHANGED <<png, image, img16>> /\ conv = "write" /\ conv' = "done"
          /\ written' = <<>> \/ written' = <<Int16(png.size[1]), Int16(png.size[2]), img16>>
      BY <2>6 DEF Write, Converts
    <3>2. Rows' = Rows /\ Pairs' = Pairs
      BY <3>1 DEF Rows, Pairs, PixelNumbers, Channels, ByteOf, Packed
    <3>3. written' # <<>> => written' = <<Int16(png'.size[1]), Int16(png'.size[2]), img16'>>
      BY <3>1
    <3>4. QED BY <2>1, <3>1, <3>2, <3>3 DEF ImageInv, Int16
  <2>7. CASE UNCHANGED imageVars
    <3>1. Rows' = Rows /\ Pairs' = Pairs
      BY <2>7 DEF imageVars, Rows, Pairs, PixelNumbers, Channels, ByteOf, Packed
    <3>2. QED BY <2>1, <2>7, <3>1 DEF imageVars, ImageInv, Int16
  <2>8. QED BY <2>1, <2>2, <2>3, <2>9, <2>4, <2>5, <2>6, <2>7 DEF ImageNext
<1>3. QED BY <1>1, <1>2, PTL DEF ImageSpec

\* The two bytes of a pixel give the pixel back, and its bits the leading bits of the
\* three colours.
Shows(px, r, g, b) ==
  /\ (px % 256) + 256 * (px \div 256) = px
  /\ Near((px \div 2048) * 8, r, 8) /\ Near(((px \div 32) % 64) * 4, g, 4) /\ Near((px % 32) * 8, b, 8)

LEMMA PackedShows ==
  ASSUME NEW p, NEW r \in 0 .. 255, NEW g \in 0 .. 255, NEW b \in 0 .. 255, p = <<r, g, b>>,
         NEW px, px = Packed(p)
  PROVE  Shows(px, r, g, b)
<1> PICK x, y, z : x = r \div 8 /\ y = g \div 4 /\ z = b \div 8
  OBVIOUS
<1>0. px = x * 2048 + y * 32 + z
  BY DEF Packed
<1>1. x \in 0 .. 31 /\ 8 * x <= r /\ r < 8 * x + 8
  OBVIOUS
<1>2. y \in 0 .. 63 /\ 4 * y <= g /\ g < 4 * y + 4
  OBVIOUS
<1>3. z \in 0 .. 31 /\ 8 * z <= b /\ b < 8 * z + 8
  OBVIOUS
<1>4. px \in Nat /\ px = x * 2048 + y * 32 + z
  BY <1>0, <1>1, <1>2, <1>3
<1>5. (px % 256) + 256 * (px \div 256) = px
  BY <1>4
<1>6. px \div 2048 = x
  BY <1>1, <1>2, <1>3, <1>4
<1>7. px \div 32 = x * 64 + y
  BY <1>1, <1>2, <1>3, <1>4
<1>8. (px \div 32) % 64 = y
  BY <1>1, <1>2, <1>7
<1>9. px % 32 = z
  BY <1>1, <1>2, <1>3, <1>4
<1>10. QED BY <1>1, <1>2, <1>3, <1>5, <1>6, <1>8, <1>9 DEF Near, Shows

\* A side is in the header as it is exactly when an int16_t holds it.
LEMMA HeaderHolds ==
  ASSUME NEW n \in Nat
  PROVE  Int16(n) = n <=> n < DimLimit
<1>1. DimLimit \in Nat /\ DimLimit > 0
  BY PictureAssumption
<1> PICK m : m = 2 * DimLimit
  OBVIOUS
<1>2. m \in Nat /\ m > 0 /\ DimLimit < m
  BY <1>1
<1>3. n % m \in 0 .. m - 1
  BY <1>2
<1>4. CASE n < DimLimit
  <2>1. n % m = n
    BY <1>1, <1>2, <1>4, SmallMod
  <2>2. QED BY <1>4, <2>1 DEF Int16
<1>5. CASE ~(n < DimLimit)
  <2>1. CASE n % m < DimLimit
    BY <1>1, <1>5, <2>1 DEF Int16
  <2>2. CASE ~(n % m < DimLimit)
    <3>1. Int16(n) = (n % m) - m /\ (n % m) - m < 0
      BY <1>2, <1>3, <2>2 DEF Int16
    <3>2. QED BY <1>5, <3>1
  <2>3. QED BY <2>1, <2>2
<1>6. QED BY <1>4, <1>5

\* For every size and whatever the bytes of the PNG: a reader of the written file sees
\* the picture, and the header holds a side exactly when an int16_t does
\* (conv_arimg.cpp:66-127, 210-229).
THEOREM FileIsPicture == ImageSpec => []FileShows
<1>1. ASSUME ImageInv, written # <<>> PROVE FileShows
  <2>1. /\ png \in Pictures /\ png.kind \in {"rgb", "rgba", "gray alpha"} /\ png.defect = "none"
        /\ image = Rows /\ img16 = Pairs
        /\ written = <<Int16(png.size[1]), Int16(png.size[2]), img16>>
    BY <1>1 DEF ImageInv
  <2>2. png.size \in (Nat \ {0}) \X (Nat \ {0}) /\ png.seed \in Nat
    BY <2>1, PictureAssumption DEF Pictures
  <2>3. \A d \in 1 .. 2 : written[d] = png.size[d] <=> png.size[d] < DimLimit
    <3>1. png.size[1] \in Nat /\ png.size[2] \in Nat
      BY <2>2
    <3>2. written[1] = Int16(png.size[1]) /\ written[2] = Int16(png.size[2])
      BY <2>1
    <3>3. /\ written[1] = png.size[1] <=> png.size[1] < DimLimit
          /\ written[2] = png.size[2] <=> png.size[2] < DimLimit
      BY <3>1, <3>2, HeaderHolds
    <3>4. QED BY <3>3
  <2>4. ASSUME png.depth = 8, NEW k \in PixelNumbers
        PROVE  \A c \in 1 .. 3 : Near(Pixel(k)[c], Colour(k, c), IF c = 2 THEN 4 ELSE 8)
    <3> PICK n : n = png.size[1] * png.size[2]
      OBVIOUS
    <3>1. n \in Nat /\ k \in Nat /\ k < n
      BY <2>2 DEF PixelNumbers
    <3>2. 2 * k \in 0 .. 2 * n - 1 /\ 2 * k + 1 \in 0 .. 2 * n - 1
      BY <3>1
    <3>3. (2 * k) \div 2 = k /\ (2 * k + 1) \div 2 = k /\ (2 * k) % 2 = 0 /\ (2 * k + 1) % 2 # 0
      BY <3>1
    <3> PICK p : p = image[k]
      OBVIOUS
    <3> PICK px : px = Packed(p)
      OBVIOUS
    <3>4. img16[2 * k] = px % 256 /\ img16[2 * k + 1] = px \div 256
      BY <2>1, <3>2, <3>3 DEF Pairs
    <3>5. /\ image[k] = [c \in 1 .. 3 |-> Colour(k, c)]
          /\ \A c \in 1 .. 3 : Colour(k, c) \in 0 .. 255
      <4> PICK m : m = k * Channels
        OBVIOUS
      <4>1. /\ Channels \in 1 .. 4
            /\ png.kind = "gray alpha" => Channels \notin {3, 4}
            /\ png.kind # "gray alpha" => Channels \in {3, 4}
        <5>1. CASE png.kind = "rgb"
          BY <5>1 DEF Channels
        <5>2. CASE png.kind = "rgba"
          BY <5>2 DEF Channels
        <5>3. CASE png.kind = "gray alpha"
          <6>1. Channels = 2
            BY <5>3, Zenon DEF Channels
          <6>2. 2 \in 1 .. 4 /\ 2 \notin {3, 4}
            OBVIOUS
          <6>3. QED BY <5>3, <6>1, <6>2, Zenon
        <5>4. png.kind \in {"rgb", "rgba", "gray alpha"}
          BY <2>1
        <5>5. QED BY <5>1, <5>2, <5>3, <5>4
      <4>2. m \in Nat
        <5>1. \A x, y \in Nat : x * y \in Nat
          OBVIOUS
        <5> PICK w : w = Channels
          OBVIOUS
        <5>2. w \in Nat
          <6>1. w \in 1 .. 4
            BY <4>1, Zenon
          <6>2. QED BY <6>1
        <5>4. m = k * w
          OBVIOUS
        <5>3. QED BY <3>1, <5>1, <5>2, <5>4
      <4>3. ASSUME NEW j \in Nat PROVE ByteOf(j) \in 0 .. 255
        <5>1. png.seed + 37 * j \in Nat
          BY <2>2
        <5>2. \A x \in Nat : x % 256 \in 0 .. 255
          OBVIOUS
        <5>3. QED BY <5>1, <5>2 DEF ByteOf
      <4>4. CASE png.kind = "gray alpha"
        <5>1. image[k] = [c \in 1 .. 3 |-> ByteOf(m)]
          BY <2>1, <4>1, <4>4 DEF Rows
        <5>2. \A c \in 1 .. 3 : Colour(k, c) = ByteOf(m)
          <6>1. m + 0 = m
            BY <4>2
          <6>2. QED BY <4>4, <6>1 DEF Colour
        <5>3. QED BY <4>2, <4>3, <5>1, <5>2
      <4>5. CASE png.kind # "gray alpha"
        <5>1. image[k] = [c \in 1 .. 3 |-> ByteOf(m + c - 1)]
          BY <2>1, <4>1, <4>5 DEF Rows
        <5>2. \A c \in 1 .. 3 : m + (c - 1) = m + c - 1 /\ m + c - 1 \in Nat
          BY <4>2
        <5>3. \A c \in 1 .. 3 : Colour(k, c) = ByteOf(m + c - 1)
          BY <4>5, <5>2 DEF Colour
        <5>4. QED BY <4>3, <5>1, <5>2, <5>3
      <4>6. QED BY <4>4, <4>5
    <3> PICK r, g, b : r = Colour(k, 1) /\ g = Colour(k, 2) /\ b = Colour(k, 3)
      OBVIOUS
    <3>b. r \in 0 .. 255 /\ g \in 0 .. 255 /\ b \in 0 .. 255
      BY <3>5
    <3>6. p = <<r, g, b>>
      BY <3>5
    <3>7. Shows(px, r, g, b)
      BY <3>b, <3>6, PackedShows
    <3>8. Pixel(k) = <<(px \div 2048) * 8, ((px \div 32) % 64) * 4, (px % 32) * 8>>
      <4>1. written[3] = img16
        BY <2>1
      <4>2. written[3][2 * k] + 256 * written[3][2 * k + 1] = px
        BY <3>4, <3>7, <4>1 DEF Shows
      <4>3. QED BY <4>2 DEF Pixel
    <3>9. QED BY <3>7, <3>8 DEF Shows
  <2>5. QED BY <2>1, <2>3, <2>4 DEF FileShows
<1>2. ImageInv => FileShows
  BY <1>1 DEF FileShows
<1>3. QED BY <1>2, ImageHolds, PTL
=============================================================================
