-------------------------- MODULE SerialLink_proofs --------------------------
(***************************************************************************)
(* Proofs about SerialCommunicator for any number of commands, of starts   *)
(* of the display and of lost bytes, and a write that may fail.            *)
(***************************************************************************)
EXTENDS SerialLink, SequenceTheorems, FiniteSetTheorems, TLAPS

-----------------------------------------------------------------------------
(* How often a word occurs. *)

Places(s, w) == {k \in DOMAIN s : s[k] = w}
Count(s, w) == Cardinality(Places(s, w))

Words == {"#", "Screen", ":", "w", ",", "h", "Complete"}

LEMMA CountFinite ==
  ASSUME NEW s \in Seq(Words), NEW w
  PROVE  /\ IsFiniteSet(Places(s, w))
         /\ Count(s, w) \in Nat
         /\ Count(s, w) <= Len(s)
<1>1. Places(s, w) \subseteq 1 .. Len(s) /\ Len(s) \in Nat
  BY LenProperties DEF Places
<1>2. IsFiniteSet(1 .. Len(s)) /\ Cardinality(1 .. Len(s)) = Len(s)
  <2>1. 1 \in Int /\ Len(s) \in Int
    BY <1>1
  <2>2. /\ IsFiniteSet(1 .. Len(s))
        /\ Cardinality(1 .. Len(s)) = IF 1 > Len(s) THEN 0 ELSE Len(s) - 1 + 1
    BY <2>1, FS_Interval
  <2>3. QED BY <1>1, <2>2
<1>3. IsFiniteSet(Places(s, w)) /\ Cardinality(Places(s, w)) <= Cardinality(1 .. Len(s))
  BY <1>1, <1>2, FS_Subset
<1>4. QED BY <1>2, <1>3, FS_CardinalityType DEF Count

LEMMA CountConcat ==
  ASSUME NEW s \in Seq(Words), NEW t \in Seq(Words), NEW w
  PROVE  Count(s \o t, w) = Count(s, w) + Count(t, w)
<1> DEFINE A == Places(s, w)
           B == Places(t, w)
           C == {Len(s) + k : k \in B}
           f == [k \in B |-> Len(s) + k]
<1>1. /\ DOMAIN s = 1 .. Len(s) /\ DOMAIN t = 1 .. Len(t)
      /\ Len(s) \in Nat /\ Len(t) \in Nat
  BY LenProperties
<1>2. /\ DOMAIN (s \o t) = 1 .. Len(s) + Len(t)
      /\ \A i \in 1 .. Len(s) + Len(t) : (s \o t)[i] = IF i <= Len(s) THEN s[i] ELSE t[i - Len(s)]
  BY ConcatProperties, LenProperties, <1>1
<1>3. Places(s \o t, w) = A \cup C
  <2>1. ASSUME NEW i \in Places(s \o t, w) PROVE i \in A \cup C
    <3>1. i \in 1 .. Len(s) + Len(t) /\ (s \o t)[i] = w
      BY <1>2 DEF Places
    <3>2. CASE i <= Len(s)
      BY <1>1, <1>2, <3>1, <3>2 DEF Places
    <3>3. CASE ~(i <= Len(s))
      <4>1. i - Len(s) \in B /\ i = Len(s) + (i - Len(s))
        BY <1>1, <1>2, <3>1, <3>3 DEF Places
      <4>2. QED BY <4>1
    <3>4. QED BY <3>2, <3>3
  <2>2. ASSUME NEW i \in A PROVE i \in Places(s \o t, w)
    BY <1>1, <1>2 DEF Places
  <2>3. ASSUME NEW i \in C PROVE i \in Places(s \o t, w)
    BY <1>1, <1>2 DEF Places
  <2>4. QED BY <2>1, <2>2, <2>3
<1>4. A \cap C = {}
  BY <1>1 DEF Places
<1>5. IsFiniteSet(A) /\ IsFiniteSet(B) /\ Cardinality(A) \in Nat /\ Cardinality(B) \in Nat
  BY CountFinite DEF Count
<1>6. f \in Bijection(B, C)
  <2>1. \A k \in B : k \in Nat
    BY <1>1 DEF Places
  <2>2. f \in [B -> C]
    OBVIOUS
  <2>3. \A a, b \in B : f[a] = f[b] => a = b
    BY <1>1, <2>1
  <2>4. \A c \in C : \E a \in B : f[a] = c
    OBVIOUS
  <2>5. QED BY <2>2, <2>3, <2>4 DEF Bijection, Injection, Surjection, IsInjective
<1>7. IsFiniteSet(C) /\ Cardinality(C) = Cardinality(B)
  BY <1>5, <1>6, FS_Bijection DEF ExistsBijection
<1>8. Cardinality(A \cup C) = Cardinality(A) + Cardinality(C)
  <2> HIDE DEF A, C
  <2>1. Cardinality(A \cup C) = Cardinality(A) + Cardinality(C) - Cardinality(A \cap C)
    BY <1>5, <1>7, FS_Union
  <2>2. Cardinality(A \cap C) = 0
    BY <1>4, FS_EmptySet
  <2>3. QED BY <1>5, <1>7, <2>1, <2>2
<1>9. QED BY <1>3, <1>7, <1>8 DEF Count

LEMMA CountEmpty ==
  ASSUME NEW w
  PROVE  Count(<<>>, w) = 0
<1>1. Places(<<>>, w) = {}
  BY DEF Places
<1>2. QED BY <1>1, FS_EmptySet DEF Count

LEMMA CountOne ==
  ASSUME NEW a \in Words, NEW w
  PROVE  Count(<<a>>, w) = IF a = w THEN 1 ELSE 0
<1>1. Places(<<a>>, w) = IF a = w THEN {1} ELSE {}
  BY DEF Places
<1>2. QED BY <1>1, FS_EmptySet, FS_Singleton DEF Count

LEMMA CountAppend ==
  ASSUME NEW s \in Seq(Words), NEW a \in Words, NEW w
  PROVE  Count(Append(s, a), w) = Count(s, w) + (IF a = w THEN 1 ELSE 0)
<1>1. Append(s, a) = s \o <<a>> /\ <<a>> \in Seq(Words)
  BY AppendIsConcat
<1>2. Count(Append(s, a), w) = Count(s, w) + Count(<<a>>, w)
  BY ZenonT(60), <1>1, CountConcat
<1>3. QED BY <1>2, CountOne

LEMMA CountTail ==
  ASSUME NEW s \in Seq(Words), s # <<>>, NEW w
  PROVE  /\ Head(s) \in Words /\ Tail(s) \in Seq(Words)
         /\ Count(s, w) = (IF Head(s) = w THEN 1 ELSE 0) + Count(Tail(s), w)
<1>1. Head(s) \in Words /\ Tail(s) \in Seq(Words)
  BY HeadTailProperties
<1>2. s = <<Head(s)>> \o Tail(s) /\ <<Head(s)>> \in Seq(Words)
  <2>1. Len(s) \in Nat \ {0}
    BY EmptySeq
  <2>2. SubSeq(s, 1, Len(s)) = <<s[1]>> \o SubSeq(s, 2, Len(s))
    BY <2>1, SubSeqRecursiveFirst
  <2>3. SubSeq(s, 1, Len(s)) = s /\ SubSeq(s, 2, Len(s)) = Tail(s) /\ Head(s) = s[1]
    BY SubSeqFull, TailIsSubSeq
  <2>4. QED BY <1>1, <2>2, <2>3
<1>3. Count(s, w) = Count(<<Head(s)>>, w) + Count(Tail(s), w)
  BY ZenonT(60), <1>1, <1>2, CountConcat
<1>4. QED BY <1>1, <1>3, CountOne

\* A byte that is lost adds none.
LEMMA CountRemoveAt ==
  ASSUME NEW s \in Seq(Words), NEW k \in DOMAIN s, NEW w
  PROVE  /\ RemoveAt(s, k) \in Seq(Words)
         /\ Count(RemoveAt(s, k), w) <= Count(s, w)
<1> DEFINE a == SubSeq(s, 1, k - 1)
           b == SubSeq(s, k, Len(s))
           c == SubSeq(s, k + 1, Len(s))
<1>1. k \in 1 .. Len(s) /\ Len(s) \in Nat /\ \A i \in 1 .. Len(s) : s[i] \in Words
  BY LenProperties, ElementOfSeq
<1>2. a \in Seq(Words) /\ b \in Seq(Words) /\ c \in Seq(Words) /\ s[k] \in Words
  BY <1>1, SubSeqProperties
<1>3. b = <<s[k]>> \o c
  <2>1. Len(s) \in k .. Len(s)
    BY <1>1
  <2>2. QED BY <1>1, <2>1, SubSeqRecursiveFirst
<1>4. s = a \o b
  <2>1. 1 \in 1 .. Len(s) + 1 /\ k - 1 \in 1 - 1 .. Len(s) /\ Len(s) \in k - 1 .. Len(s)
    BY <1>1
  <2>2. SubSeq(s, 1, k - 1) \o SubSeq(s, (k - 1) + 1, Len(s)) = SubSeq(s, 1, Len(s))
    BY <2>1, ConcatAdjacentSubSeq
  <2>3. (k - 1) + 1 = k
    BY <1>1
  <2>4. SubSeq(s, 1, Len(s)) = s
    BY SubSeqFull
  <2>5. QED BY <2>2, <2>3, <2>4
<1>5. RemoveAt(s, k) = a \o c /\ a \o c \in Seq(Words)
  BY <1>2, ConcatProperties DEF RemoveAt
<1> HIDE DEF a, b, c
<1>6. Count(a \o c, w) = Count(a, w) + Count(c, w)
  BY <1>2, CountConcat
<1>7. Count(s, w) = Count(a, w) + Count(b, w)
  BY <1>2, <1>4, CountConcat
<1>8. Count(b, w) = Count(<<s[k]>>, w) + Count(c, w) /\ <<s[k]>> \in Seq(Words)
  <2>1. <<s[k]>> \in Seq(Words)
    BY <1>2
  <2>2. QED BY <1>2, <1>3, <2>1, CountConcat
<1>9. Count(a, w) \in Nat /\ Count(c, w) \in Nat /\ Count(<<s[k]>>, w) \in Nat
  BY <1>2, <1>8, CountFinite
<1>10. QED BY <1>5, <1>6, <1>7, <1>8, <1>9

-----------------------------------------------------------------------------
(* The types, and what one byte does to the parser. *)

Calls == [command : Seq(Words), arguments : Seq(Seq(Words))]

Links == [commandIn : BOOLEAN, argumentIn : BOOLEAN, readString : Seq(Words),
          command : Seq(Words), arguments : Seq(Seq(Words)), sendQueue : Seq(Nat),
          sendEnable : BOOLEAN, issued : Nat, calls : Seq(Calls)]

TypeInv == /\ link \in Links
           /\ rested \in BOOLEAN
           /\ toPC \in Seq(Words)
           /\ toDisplay \in Seq(Nat) /\ executed \in Seq(Nat) /\ failed \in Seq(Nat)
           /\ started \in Nat /\ lost \in Nat

LEMMA TupleIsSeq ==
  ASSUME NEW S, NEW a \in S, NEW b \in S, NEW c \in S, NEW d \in S, NEW e \in S, NEW f \in S,
         NEW g \in S
  PROVE  <<a, b, c>> \in Seq(S) /\ <<a, b, c, d, e, f, g>> \in Seq(S)
OBVIOUS

LEMMA WordsType ==
  /\ "#" \in Words /\ "Screen" \in Words /\ ":" \in Words /\ "w" \in Words
  /\ "," \in Words /\ "h" \in Words /\ "Complete" \in Words
  /\ Screen \in Seq(Words) /\ Complete \in Seq(Words)
<1>1. /\ "#" \in Words /\ "Screen" \in Words /\ ":" \in Words /\ "w" \in Words
      /\ "," \in Words /\ "h" \in Words /\ "Complete" \in Words
  BY DEF Words
<1>2. Screen \in Seq(Words)
  BY <1>1, TupleIsSeq DEF Screen
<1>3. Complete \in Seq(Words)
  BY ZenonT(60), <1>1, TupleIsSeq DEF Complete
<1>4. QED BY <1>1, <1>2, <1>3

\* The commands Enqueue adds have the next numbers.
LEMMA EnqueueType ==
  ASSUME NEW s \in Links, NEW n \in Nat
  PROVE  /\ [k \in 1 .. n |-> s.issued + k] \in Seq(Nat)
         /\ Enqueue(s, n) = [s EXCEPT !.sendQueue = s.sendQueue \o [k \in 1 .. n |-> s.issued + k],
                                      !.issued = s.issued + n]
         /\ Enqueue(s, n) \in Links
<1>1. s.issued \in Nat /\ s.sendQueue \in Seq(Nat)
  BY DEF Links
<1>2. [k \in 1 .. n |-> s.issued + k] \in Seq(Nat)
  <2>1. \A k \in 1 .. n : s.issued + k \in Nat
    BY <1>1
  <2>2. QED BY <2>1, IsASeq
<1>3. s.sendQueue \o [k \in 1 .. n |-> s.issued + k] \in Seq(Nat)
  BY <1>1, <1>2, ConcatProperties
<1>4. Enqueue(s, n) = [s EXCEPT !.sendQueue = s.sendQueue \o [k \in 1 .. n |-> s.issued + k],
                               !.issued = s.issued + n]
  BY DEF Enqueue, Links
<1>5. Enqueue(s, n) \in Links
  <2> DEFINE q == s.sendQueue \o [k \in 1 .. n |-> s.issued + k]
             i == s.issued + n
  <2>1. q \in Seq(Nat) /\ i \in Nat
    BY <1>1, <1>3
  <2>2. Enqueue(s, n) = [s EXCEPT !.sendQueue = q, !.issued = i]
    BY <1>4
  <2> HIDE DEF q, i
  <2>3. QED BY <2>1, <2>2 DEF Links
<1>6. QED BY <1>2, <1>4, <1>5

\* recvFunction is called once more; the parser is left alone.
LEMMA ReceiveShape ==
  ASSUME NEW s \in Links
  PROVE  LET called == [s EXCEPT !.calls = Append(s.calls, [command |-> s.command,
                                                           arguments |-> s.arguments])]
         IN /\ called \in Links
            /\ Receive(s) = IF s.command = <<"Screen">> THEN Enqueue(called, PerScreen) ELSE called
            /\ Receive(s) \in Links
            /\ Receive(s).calls = called.calls
            /\ Receive(s).sendEnable = s.sendEnable
            /\ Receive(s).arguments = s.arguments
            /\ Receive(s).command = s.command
<1> DEFINE c == [command |-> s.command, arguments |-> s.arguments]
           called == [s EXCEPT !.calls = Append(s.calls, c)]
<1>1. c \in Calls /\ s.calls \in Seq(Calls)
  BY DEF Links, Calls
<1>2. Append(s.calls, c) \in Seq(Calls)
  BY <1>1, AppendProperties
<1>3. /\ called \in Links
      /\ called.sendEnable = s.sendEnable /\ called.arguments = s.arguments
      /\ called.command = s.command
  BY <1>2 DEF Links
<1>4. Receive(s) = IF s.command = <<"Screen">> THEN Enqueue(called, PerScreen) ELSE called
  BY DEF Receive, Links
<1> HIDE DEF called
<1>5. Enqueue(called, PerScreen) \in Links
  BY <1>3, BoundAssumption, EnqueueType
<1>6. /\ Enqueue(called, PerScreen).calls = called.calls
      /\ Enqueue(called, PerScreen).sendEnable = called.sendEnable
      /\ Enqueue(called, PerScreen).arguments = called.arguments
      /\ Enqueue(called, PerScreen).command = called.command
  BY <1>3 DEF Enqueue, Links
<1>7. /\ Receive(s) \in Links
      /\ Receive(s).calls = called.calls
      /\ Receive(s).sendEnable = s.sendEnable
      /\ Receive(s).arguments = s.arguments
      /\ Receive(s).command = s.command
  BY <1>3, <1>4, <1>5, <1>6
<1>8. QED BY <1>3, <1>4, <1>7 DEF called

LEMMA StoreShape ==
  ASSUME NEW s \in Links
  PROVE  /\ Store(s) \in Links
         /\ s.readString = <<>> => Store(s) = s
         /\ s.readString # <<>> /\ s.argumentIn =>
              Store(s) = [s EXCEPT !.arguments = Append(s.arguments, s.readString)]
         /\ s.readString # <<>> /\ ~s.argumentIn =>
              Store(s) = [s EXCEPT !.command = s.readString]
<1>1. s.arguments \in Seq(Seq(Words)) /\ s.readString \in Seq(Words)
  BY DEF Links
<1>2. Append(s.arguments, s.readString) \in Seq(Seq(Words))
  BY <1>1, AppendProperties
<1>3. /\ s.readString = <<>> => Store(s) = s
      /\ s.readString # <<>> /\ s.argumentIn =>
           Store(s) = [s EXCEPT !.arguments = Append(s.arguments, s.readString)]
      /\ s.readString # <<>> /\ ~s.argumentIn =>
           Store(s) = [s EXCEPT !.command = s.readString]
  BY DEF Store, Links
<1>4. Store(s) \in Links
  BY <1>1, <1>2, <1>3 DEF Links
<1>5. QED BY <1>3, <1>4

Closed(s) == [s EXCEPT !.readString = <<>>, !.commandIn = FALSE, !.argumentIn = FALSE]

LEMMA DispatchShape ==
  ASSUME NEW s \in Links
  PROVE  /\ Dispatch(s) \in Links
         /\ s.command = <<"Complete">> => Dispatch(s) = Closed([s EXCEPT !.sendEnable = TRUE])
         /\ s.command # <<"Complete">> => Dispatch(s) = Closed(Receive(s))
<1>1. <<>> \in Seq(Words)
  OBVIOUS
<1>2. [s EXCEPT !.sendEnable = TRUE] \in Links /\ Receive(s) \in Links
  BY ReceiveShape DEF Links
<1>3. \A t \in Links : Closed(t) \in Links
  BY <1>1 DEF Links, Closed
<1>4. /\ s.command = <<"Complete">> => Dispatch(s) = Closed([s EXCEPT !.sendEnable = TRUE])
      /\ s.command # <<"Complete">> => Dispatch(s) = Closed(Receive(s))
  BY <1>2 DEF Dispatch, Closed
<1>5. QED BY <1>2, <1>3, <1>4

LEMMA ParseShape ==
  ASSUME NEW s \in Links, NEW ch \in Words
  PROVE  /\ Parse(s, ch) \in Links
         /\ ch = "#" /\ s.commandIn => Parse(s, ch) = Dispatch(Store(s))
         /\ ch = "#" /\ ~s.commandIn => Parse(s, ch) = [s EXCEPT !.commandIn = TRUE, !.command = <<>>]
         /\ ch # "#" /\ ~s.commandIn => Parse(s, ch) = s
         /\ ch = "," /\ s.commandIn /\ s.argumentIn =>
              Parse(s, ch) = [s EXCEPT !.arguments = Append(s.arguments, s.readString),
                                       !.readString = <<>>]
         /\ ch = ":" /\ s.commandIn /\ ~s.argumentIn =>
              Parse(s, ch) = [s EXCEPT !.argumentIn = TRUE, !.command = s.readString,
                                       !.readString = <<>>]
         /\ /\ s.commandIn /\ ch # "#"
            /\ ~(ch = "," /\ s.argumentIn) /\ ~(ch = ":" /\ ~s.argumentIn)
            => Parse(s, ch) = [s EXCEPT !.readString = Append(s.readString, ch)]
<1>1. s.arguments \in Seq(Seq(Words)) /\ s.readString \in Seq(Words) /\ <<>> \in Seq(Words)
  BY DEF Links
<1>2. /\ Append(s.arguments, s.readString) \in Seq(Seq(Words))
      /\ Append(s.readString, ch) \in Seq(Words)
  BY <1>1, AppendProperties
<1>3. Dispatch(Store(s)) \in Links
  BY StoreShape, DispatchShape
<1>4. /\ ch = "#" /\ s.commandIn => Parse(s, ch) = Dispatch(Store(s))
      /\ ch = "#" /\ ~s.commandIn => Parse(s, ch) = Open(s)
      /\ ch # "#" /\ ~s.commandIn => Parse(s, ch) = s
  BY DEF Parse
<1>5. /\ ch = "," /\ s.commandIn /\ s.argumentIn =>
           Parse(s, ch) = [s EXCEPT !.arguments = Append(@, s.readString), !.readString = <<>>]
      /\ ch = ":" /\ s.commandIn /\ ~s.argumentIn =>
           Parse(s, ch) = [s EXCEPT !.argumentIn = TRUE, !.command = s.readString,
                                    !.readString = <<>>]
  BY DEF Parse
<1>6. /\ s.commandIn /\ ch # "#"
      /\ ~(ch = "," /\ s.argumentIn) /\ ~(ch = ":" /\ ~s.argumentIn)
      => Parse(s, ch) = [s EXCEPT !.readString = Append(@, ch)]
  BY DEF Parse
<1>7. Open(s) = [s EXCEPT !.commandIn = TRUE, !.command = <<>>] /\ Open(s) \in Links
  BY <1>1 DEF Open, Links
<1>8. [s EXCEPT !.arguments = Append(@, s.readString), !.readString = <<>>] \in Links
  BY <1>1, <1>2 DEF Links
<1>9. [s EXCEPT !.argumentIn = TRUE, !.command = s.readString, !.readString = <<>>] \in Links
  BY <1>1, <1>2 DEF Links
<1>10. [s EXCEPT !.readString = Append(@, ch)] \in Links
  BY <1>1, <1>2 DEF Links
<1>11. s.commandIn \in BOOLEAN /\ s.argumentIn \in BOOLEAN
  BY DEF Links
<1>12. Parse(s, ch) \in Links
  BY <1>3, <1>4, <1>5, <1>6, <1>7, <1>8, <1>9, <1>10, <1>11
<1>13. QED BY <1>4, <1>5, <1>6, <1>7, <1>12

LEMMA TypeStep == TypeInv /\ [Next]_vars => TypeInv'
<1> SUFFICES ASSUME TypeInv, [Next]_vars PROVE TypeInv'
  OBVIOUS
<1> USE DEF TypeInv
<1>1. CASE ReadByte
  <2>1. Head(toPC) \in Words /\ Tail(toPC) \in Seq(Words)
    BY <1>1, HeadTailProperties DEF ReadByte
  <2>2. link' \in Links
    BY <1>1, <2>1, ParseShape DEF ReadByte
  <2>3. QED BY <1>1, <2>1, <2>2 DEF ReadByte
<1>2. CASE SendCommand
  <2>1. link.sendQueue \in Seq(Nat) /\ link.sendQueue # <<>>
    BY <1>2 DEF SendCommand, Links
  <2>2. Head(link.sendQueue) \in Nat /\ Tail(link.sendQueue) \in Seq(Nat)
    BY <2>1, HeadTailProperties
  <2>3. /\ Append(toDisplay, Head(link.sendQueue)) \in Seq(Nat)
        /\ Append(failed, Head(link.sendQueue)) \in Seq(Nat)
    BY <2>2, AppendProperties
  <2>4. Sent(link) \in Links
    BY <2>2 DEF Sent, Links
  <2>5. QED BY <1>2, <2>3, <2>4 DEF SendCommand
<1>3. CASE Rest BY <1>3 DEF Rest
<1>4. CASE Start
  <2>1. toPC \o Screen \in Seq(Words)
    BY WordsType, ConcatProperties
  <2>2. QED BY <1>4, <2>1 DEF Start
<1>5. CASE Execute
  <2>1. Head(toDisplay) \in Nat /\ Tail(toDisplay) \in Seq(Nat)
    BY <1>5, HeadTailProperties DEF Execute
  <2>2. Append(executed, Head(toDisplay)) \in Seq(Nat)
    BY <2>1, AppendProperties
  <2>3. toPC \o Complete \in Seq(Words)
    BY WordsType, ConcatProperties
  <2>4. QED BY <1>5, <2>1, <2>2, <2>3 DEF Execute
<1>6. CASE Lose
  <2>1. toPC' \in Seq(Words)
    BY <1>6, CountRemoveAt DEF Lose
  <2>2. QED BY <1>6, <2>1 DEF Lose
<1>7. CASE UNCHANGED vars BY <1>7 DEF vars
<1>8. QED BY <1>1, <1>2, <1>3, <1>4, <1>5, <1>6, <1>7 DEF Next

LEMMA TypeInit == Init => TypeInv
<1> SUFFICES ASSUME Init PROVE TypeInv
  OBVIOUS
<1>1. link \in Links
  BY DEF Init, Links
<1>2. <<>> \in Seq(Words) /\ <<>> \in Seq(Nat)
  BY EmptySeq
<1>3. QED BY <1>1, <1>2 DEF Init, TypeInv

-----------------------------------------------------------------------------
(* Commands are executed in the order they were queued. *)

Numbers(n) == [k \in 1 .. n |-> k]

LEMMA NumbersSeq ==
  ASSUME NEW m \in Nat
  PROVE  /\ Numbers(m) \in Seq(Nat)
         /\ Len(Numbers(m)) = m
         /\ \A k \in 1 .. m : Numbers(m)[k] = k
<1>1. Numbers(m) \in Seq(Nat)
  <2>1. \A k \in 1 .. m : k \in Nat
    OBVIOUS
  <2>2. QED BY <2>1, IsASeq DEF Numbers
<1>2. Len(Numbers(m)) = m /\ \A k \in 1 .. m : Numbers(m)[k] = k
  BY DEF Numbers
<1>3. QED BY <1>1, <1>2

LEMMA NumbersConcat ==
  ASSUME NEW m \in Nat, NEW n \in Nat
  PROVE  Numbers(m) \o [k \in 1 .. n |-> m + k] = Numbers(m + n)
<1> DEFINE more == [k \in 1 .. n |-> m + k]
           a == Numbers(m)
           b == Numbers(m + n)
<1>1. more \in Seq(Nat) /\ Len(more) = n /\ \A k \in 1 .. n : more[k] = m + k
  <2>1. \A k \in 1 .. n : m + k \in Nat
    OBVIOUS
  <2>2. QED BY <2>1, IsASeq
<1>2. a \in Seq(Nat) /\ Len(a) = m /\ \A k \in 1 .. m : a[k] = k
  BY NumbersSeq
<1>3. b \in Seq(Nat) /\ Len(b) = m + n /\ \A k \in 1 .. m + n : b[k] = k
  <2>1. m + n \in Nat
    OBVIOUS
  <2>2. QED BY <2>1, NumbersSeq
<1> HIDE DEF more, a, b
<1>4. /\ a \o more \in Seq(Nat)
      /\ Len(a \o more) = m + n
      /\ \A k \in 1 .. m + n : (a \o more)[k] = IF k <= m THEN a[k] ELSE more[k - m]
  BY <1>1, <1>2, ConcatProperties
<1>5. ASSUME NEW k \in 1 .. m + n PROVE (a \o more)[k] = b[k]
  <2>1. CASE k <= m
    BY <1>2, <1>3, <1>4, <2>1
  <2>2. CASE ~(k <= m)
    <3>1. k - m \in 1 .. n
      BY <2>2
    <3>2. more[k - m] = m + (k - m)
      BY <1>1, <3>1
    <3>3. QED BY SMTT(30), <1>3, <1>4, <2>2, <3>2
  <2>3. QED BY <2>1, <2>2
<1>6. a \o more = b
  BY <1>3, <1>4, <1>5, SeqEqual
<1>7. QED BY <1>6 DEF a, b, more

LEMMA ConcatNat ==
  ASSUME NEW a \in Seq(Nat), NEW b \in Seq(Nat), NEW c \in Seq(Nat)
  PROVE  (a \o b) \o c = a \o (b \o c)
BY ConcatAssociative

\* Queueing n more commands makes the numbers 1 .. issued longer by n.
LEMMA EnqueueOrder ==
  ASSUME NEW s \in Links, NEW n \in Nat, NEW q \in Seq(Nat),
         q \o s.sendQueue = Numbers(s.issued)
  PROVE  q \o Enqueue(s, n).sendQueue = Numbers(Enqueue(s, n).issued)
<1> DEFINE more == [k \in 1 .. n |-> s.issued + k]
           i == s.issued
           b == s.sendQueue
<1>1. i \in Nat /\ b \in Seq(Nat) /\ more \in Seq(Nat)
  BY EnqueueType DEF Links
<1>2. Enqueue(s, n).sendQueue = b \o more /\ Enqueue(s, n).issued = i + n
  BY DEF Enqueue, Links
<1>3. Numbers(i) \o more = Numbers(i + n)
  BY <1>1, NumbersConcat
<1>4. q \o b = Numbers(i)
  OBVIOUS
<1> HIDE DEF more, i, b
<1>5. q \o (b \o more) = (q \o b) \o more
  BY <1>1, ConcatNat
<1>6. QED BY <1>2, <1>3, <1>4, <1>5

\* A byte leaves the queue as it is or makes it longer.
LEMMA ParseQueue ==
  ASSUME NEW s \in Links, NEW ch \in Words
  PROVE  \/ Parse(s, ch).sendQueue = s.sendQueue /\ Parse(s, ch).issued = s.issued
         \/ \E t \in Links : /\ t.sendQueue = s.sendQueue /\ t.issued = s.issued
                             /\ Parse(s, ch).sendQueue = Enqueue(t, PerScreen).sendQueue
                             /\ Parse(s, ch).issued = Enqueue(t, PerScreen).issued
<1>1. CASE ch = "#" /\ s.commandIn
  <2> DEFINE u == Store(s)
             called == [u EXCEPT !.calls = Append(u.calls, [command |-> u.command,
                                                           arguments |-> u.arguments])]
  <2>1. u \in Links /\ u.sendQueue = s.sendQueue /\ u.issued = s.issued
    BY StoreShape DEF Store, Links
  <2>2. Parse(s, ch) = Dispatch(u)
    BY <1>1, ParseShape
  <2> HIDE DEF u
  <2>3. /\ called \in Links
        /\ Receive(u) \in Links
        /\ Receive(u) = IF u.command = <<"Screen">> THEN Enqueue(called, PerScreen) ELSE called
    BY <2>1, ReceiveShape
  <2>4. called.sendQueue = s.sendQueue /\ called.issued = s.issued
    BY <2>1 DEF Links
  <2> HIDE DEF called
  <2>5. CASE u.command = <<"Complete">>
    <3>1. Dispatch(u) = Closed([u EXCEPT !.sendEnable = TRUE])
      BY <2>1, <2>5, DispatchShape
    <3>2. QED BY <2>1, <2>2, <3>1 DEF Closed, Links
  <2>6. CASE u.command # <<"Complete">>
    <3>1. Dispatch(u) = Closed(Receive(u))
      BY <2>1, <2>6, DispatchShape
    <3>2. /\ Dispatch(u).sendQueue = Receive(u).sendQueue
          /\ Dispatch(u).issued = Receive(u).issued
      BY <2>3, <3>1 DEF Closed, Links
    <3>3. QED BY <2>2, <2>3, <2>4, <3>2
  <2>7. QED BY <2>5, <2>6
<1>2. CASE ~(ch = "#" /\ s.commandIn)
  <2>1. s.commandIn \in BOOLEAN /\ s.argumentIn \in BOOLEAN
    BY DEF Links
  <2>2. CASE ~s.commandIn
    <3>1. \/ Parse(s, ch) = s
          \/ Parse(s, ch) = [s EXCEPT !.commandIn = TRUE, !.command = <<>>]
      BY <2>2, ParseShape
    <3>2. QED BY <3>1 DEF Links
  <2>3. CASE s.commandIn /\ ch = "," /\ s.argumentIn
    <3>1. Parse(s, ch) = [s EXCEPT !.arguments = Append(s.arguments, s.readString),
                                   !.readString = <<>>]
      BY <2>3, ParseShape
    <3>2. QED BY <3>1 DEF Links
  <2>4. CASE s.commandIn /\ ch = ":" /\ ~s.argumentIn
    <3>1. Parse(s, ch) = [s EXCEPT !.argumentIn = TRUE, !.command = s.readString,
                                   !.readString = <<>>]
      BY <2>4, ParseShape
    <3>2. QED BY <3>1 DEF Links
  <2>5. CASE s.commandIn /\ ~(ch = "," /\ s.argumentIn) /\ ~(ch = ":" /\ ~s.argumentIn)
    <3>1. Parse(s, ch) = [s EXCEPT !.readString = Append(s.readString, ch)]
      BY <1>2, <2>5, ParseShape
    <3>2. QED BY <3>1 DEF Links
  <2>6. QED BY <2>1, <2>2, <2>3, <2>4, <2>5
<1>3. QED BY <1>1, <1>2

\* Moving the head of one queue to the end of the other.
LEMMA MoveHead ==
  ASSUME NEW a \in Seq(Nat), NEW b \in Seq(Nat), b # <<>>
  PROVE  Append(a, Head(b)) \o Tail(b) = a \o b
<1> DEFINE h == Head(b)
           t == Tail(b)
<1>1. h \in Nat /\ t \in Seq(Nat)
  BY HeadTailProperties
<1>2. b = <<h>> \o t
  <2>1. Len(b) \in Nat \ {0}
    BY EmptySeq
  <2>2. 1 \in 1 .. Len(b) /\ Len(b) \in 1 .. Len(b)
    BY <2>1
  <2>3. SubSeq(b, 1, Len(b)) = <<b[1]>> \o SubSeq(b, 1 + 1, Len(b))
    BY <2>2, SubSeqRecursiveFirst
  <2>4. SubSeq(b, 1, Len(b)) = b /\ SubSeq(b, 2, Len(b)) = t /\ h = b[1]
    BY SubSeqFull, TailIsSubSeq
  <2>5. QED BY <2>3, <2>4
<1> HIDE DEF h, t
<1>3. <<h>> \in Seq(Nat) /\ Append(a, h) = a \o <<h>>
  BY <1>1, AppendIsConcat
<1>4. (a \o <<h>>) \o t = a \o (<<h>> \o t)
  BY <1>1, <1>3, ConcatAssociative
<1>5. Append(a, h) \o t = a \o b
  BY <1>2, <1>3, <1>4
<1>6. QED BY <1>5 DEF h, t

\* A write that fails leaves no other command behind it.
NoneFailed == link.sendEnable => failed = <<>>

LEMMA OrderStep == TypeInv /\ InOrder /\ NoneFailed /\ [Next]_vars => InOrder'
<1> SUFFICES ASSUME TypeInv, InOrder, NoneFailed, [Next]_vars PROVE InOrder'
  OBVIOUS
<1> DEFINE line == executed \o toDisplay
<1>1. /\ executed \in Seq(Nat) /\ toDisplay \in Seq(Nat) /\ failed \in Seq(Nat) /\ link \in Links
      /\ link.sendQueue \in Seq(Nat) /\ line \in Seq(Nat) /\ line \o failed \in Seq(Nat)
  BY ConcatProperties DEF TypeInv, Links
<1>2. (line \o failed) \o link.sendQueue = Numbers(link.issued)
  BY <1>1 DEF InOrder, Numbers
<1>3. CASE ReadByte
  <2>1. Head(toPC) \in Words
    BY <1>3, HeadTailProperties DEF ReadByte, TypeInv
  <2>2. (line \o failed) \o link'.sendQueue = Numbers(link'.issued)
    <3> HIDE DEF line
    <3>1. link' = Parse(link, Head(toPC))
      BY <1>3 DEF ReadByte
    <3>2. CASE link'.sendQueue = link.sendQueue /\ link'.issued = link.issued
      BY <1>2, <3>2
    <3>3. CASE \E t \in Links : /\ t.sendQueue = link.sendQueue /\ t.issued = link.issued
                                /\ link'.sendQueue = Enqueue(t, PerScreen).sendQueue
                                /\ link'.issued = Enqueue(t, PerScreen).issued
      BY <1>1, <1>2, <3>3, EnqueueOrder, BoundAssumption
    <3>4. QED BY <1>1, <2>1, <3>1, <3>2, <3>3, ParseQueue
  <2>3. QED BY <1>3, <2>2 DEF ReadByte, InOrder, Numbers
<1>4. CASE SendCommand
  <2> DEFINE h == Head(link.sendQueue)
             t == Tail(link.sendQueue)
  <2>1. link.sendQueue # <<>> /\ executed' = executed /\ failed = <<>>
    BY <1>4 DEF SendCommand, NoneFailed
  <2>2. link'.sendQueue = t /\ link'.issued = link.issued
    BY <1>1, <1>4 DEF SendCommand, Sent, Links
  <2>3. h \in Nat /\ t \in Seq(Nat)
    BY <1>1, <2>1, HeadTailProperties
  <2>4. line \o link.sendQueue = Numbers(link.issued)
    <3>1. line \o <<>> = line
      BY <1>1, ConcatEmptySeq
    <3>2. QED BY <1>2, <2>1, <3>1
  <2>5. (line' \o failed') \o t = line \o link.sendQueue
    <3>1. CASE toDisplay' = Append(toDisplay, h) /\ failed' = failed
      <4>1. Append(toDisplay, h) \o t = toDisplay \o link.sendQueue
        BY <1>1, <2>1, MoveHead
      <4> HIDE DEF h, t
      <4>2. Append(toDisplay, h) \in Seq(Nat)
        BY <1>1, <2>3, AppendProperties
      <4>a. /\ executed \in Seq(Nat) /\ toDisplay \in Seq(Nat) /\ link.sendQueue \in Seq(Nat)
            /\ t \in Seq(Nat)
        BY <1>1, <2>3
      <4>3. (executed \o Append(toDisplay, h)) \o t = executed \o (Append(toDisplay, h) \o t)
        BY ZenonT(60), <4>a, <4>2, ConcatNat
      <4>4. (executed \o toDisplay) \o link.sendQueue = executed \o (toDisplay \o link.sendQueue)
        BY ZenonT(60), <4>a, ConcatNat
      <4>5. executed \o Append(toDisplay, h) \in Seq(Nat)
        BY <1>1, <4>2, ConcatProperties
      <4>6. (executed \o Append(toDisplay, h)) \o <<>> = executed \o Append(toDisplay, h)
        BY <4>5, ConcatEmptySeq
      <4>7. QED BY <2>1, <3>1, <4>1, <4>3, <4>4, <4>6
    <3>2. CASE failed' = Append(failed, h) /\ toDisplay' = toDisplay
      <4>1. Append(<<>>, h) \o t = <<>> \o link.sendQueue
        BY <1>1, <2>1, MoveHead, EmptySeq
      <4> HIDE DEF h, t, line
      <4>2. <<>> \o link.sendQueue = link.sendQueue
        BY <1>1, ConcatEmptySeq
      <4>3. Append(<<>>, h) \in Seq(Nat)
        BY <2>3, AppendProperties, EmptySeq
      <4>4. (line \o Append(<<>>, h)) \o t = line \o (Append(<<>>, h) \o t)
        BY ZenonT(60), <1>1, <2>3, <4>3, ConcatNat
      <4>5. line' = line
        BY <2>1, <3>2 DEF line
      <4>6. QED BY <2>1, <3>2, <4>1, <4>2, <4>4, <4>5
    <3>3. QED BY <1>4, <3>1, <3>2 DEF SendCommand
  <2>6. QED BY <2>2, <2>4, <2>5 DEF InOrder, Numbers
<1>5. CASE Execute
  <2>1. /\ toDisplay # <<>> /\ toDisplay' = Tail(toDisplay) /\ failed' = failed
        /\ executed' = Append(executed, Head(toDisplay)) /\ link' = link
    BY <1>5 DEF Execute
  <2>2. Append(executed, Head(toDisplay)) \o Tail(toDisplay) = executed \o toDisplay
    BY <1>1, <2>1, MoveHead
  <2>3. ((executed' \o toDisplay') \o failed') \o link'.sendQueue = Numbers(link'.issued)
    BY <1>2, <2>1, <2>2
  <2>4. QED BY <2>3 DEF InOrder, Numbers
<1>6. CASE UNCHANGED <<executed, toDisplay, failed, link>>
  BY <1>6 DEF InOrder
<1>7. QED BY <1>3, <1>4, <1>5, <1>6 DEF Next, Rest, Start, Lose, vars

LEMMA OrderInit == Init => InOrder
<1> SUFFICES ASSUME Init PROVE InOrder
  OBVIOUS
<1>1. executed = <<>> /\ toDisplay = <<>> /\ failed = <<>> /\ link.sendQueue = <<>> /\ link.issued = 0
  BY DEF Init
<1>2. ((<<>> \o <<>>) \o <<>>) \o <<>> = <<>>
  BY EmptySeq, ConcatEmptySeq
<1>3. [k \in 1 .. 0 |-> k] = <<>>
  OBVIOUS
<1>4. QED BY <1>1, <1>2, <1>3 DEF InOrder

-----------------------------------------------------------------------------
(* At most one command is unanswered. *)

\* Answers the parser has read but not yet acted on.
Held(s) == IF s.commandIn THEN Count(s.readString, "Complete")
                                 + (IF s.command = <<"Complete">> THEN 1 ELSE 0)
                          ELSE 0

Pending == Len(toDisplay) + Answers + Len(failed) + Held(link)

\* Every answer stands for one command: it is on the line, or in the parser.  A failed
\* write counts as a command that is never answered.
AnswerInv == /\ ~link.commandIn => link.readString = <<>>
             /\ Pending <= 1
             /\ link.sendEnable => Pending <= 0

LEMMA AnswersCount == Answers = Count(toPC, "Complete")
BY DEF Answers, Count, Places

\* A byte makes no answer up: either the parser still waits and holds what it held
\* and perhaps the byte, or it has just acted on one it held.
LEMMA ParseHeld ==
  ASSUME NEW s \in Links, NEW ch \in Words, ~s.commandIn => s.readString = <<>>
  PROVE  LET t == Parse(s, ch)
         IN /\ Held(s) \in Nat /\ Held(t) \in Nat
            /\ ~t.commandIn => t.readString = <<>>
            /\ \/ /\ t.sendEnable = s.sendEnable
                  /\ Held(t) <= Held(s) + (IF ch = "Complete" THEN 1 ELSE 0)
               \/ Held(t) = 0 /\ Held(s) >= 1 /\ ch = "#"
<1> DEFINE t == Parse(s, ch)
           G == /\ ~t.commandIn => t.readString = <<>>
                /\ \/ /\ t.sendEnable = s.sendEnable
                      /\ Held(t) <= Held(s) + (IF ch = "Complete" THEN 1 ELSE 0)
                   \/ Held(t) = 0 /\ Held(s) >= 1 /\ ch = "#"
<1>1. \A u \in Links : Held(u) \in Nat /\ Count(u.readString, "Complete") \in Nat
  <2>1. ASSUME NEW u \in Links PROVE Held(u) \in Nat /\ Count(u.readString, "Complete") \in Nat
    <3>1. u.readString \in Seq(Words)
      BY DEF Links
    <3>2. Count(u.readString, "Complete") \in Nat
      BY <3>1, CountFinite
    <3>3. QED BY <3>2 DEF Held
  <2>2. QED BY <2>1
<1>2. t \in Links
  BY ParseShape
<1>3. Count(<<>>, "Complete") = 0
  BY CountEmpty
<1>4. s.commandIn \in BOOLEAN /\ s.argumentIn \in BOOLEAN /\ s.readString \in Seq(Words)
  BY DEF Links
<1> DEFINE n == Count(s.readString, "Complete")
           e == IF ch = "Complete" THEN 1 ELSE 0
<1>a. n \in Nat /\ Held(s) \in Nat /\ Held(t) \in Nat /\ e \in Nat
  BY <1>1, <1>2
<1>5. CASE ~s.commandIn /\ ch # "#"
  <2>1. t = s
    BY <1>5, ParseShape
  <2>2. G
    BY <1>1, <2>1
  <2>3. QED BY <1>1, <1>2, <2>2
<1>6. CASE ~s.commandIn /\ ch = "#"
  <2>1. t = [s EXCEPT !.commandIn = TRUE, !.command = <<>>]
    BY <1>6, ParseShape
  <2>2. /\ t.commandIn /\ t.command = <<>> /\ t.readString = <<>>
        /\ t.sendEnable = s.sendEnable
    BY <1>6, <2>1 DEF Links
  <2> HIDE DEF t
  <2>3. Held(t) = 0
    BY <1>3, <2>2 DEF Held
  <2>4. G
    BY <1>1, <2>2, <2>3
  <2>5. QED BY <1>1, <1>2, <2>4 DEF t
<1>7. CASE s.commandIn /\ ch = "," /\ s.argumentIn
  <2>1. t = [s EXCEPT !.arguments = Append(s.arguments, s.readString), !.readString = <<>>]
    BY <1>7, ParseShape
  <2>2. /\ t.commandIn /\ t.command = s.command /\ t.readString = <<>>
        /\ t.sendEnable = s.sendEnable
    BY <1>7, <2>1 DEF Links
  <2> HIDE DEF t
  <2>3. Held(t) = IF s.command = <<"Complete">> THEN 1 ELSE 0
    BY <1>3, <2>2 DEF Held
  <2>4. Held(s) = Count(s.readString, "Complete") + (IF s.command = <<"Complete">> THEN 1 ELSE 0)
    BY <1>7 DEF Held
  <2>5. Held(t) <= Held(s) + e
    <3> HIDE DEF n, e
    <3>1. QED BY SMTT(30), <1>a, <2>3, <2>4 DEF n
  <2>6. G
    BY <2>2, <2>5
  <2>7. QED BY <1>1, <1>2, <2>6 DEF t
<1>8. CASE s.commandIn /\ ch = ":" /\ ~s.argumentIn
  <2>1. t = [s EXCEPT !.argumentIn = TRUE, !.command = s.readString, !.readString = <<>>]
    BY <1>8, ParseShape
  <2>2. /\ t.commandIn /\ t.command = s.readString /\ t.readString = <<>>
        /\ t.sendEnable = s.sendEnable
    BY <1>8, <2>1 DEF Links
  <2> HIDE DEF t
  <2>3. Held(t) = IF s.readString = <<"Complete">> THEN 1 ELSE 0
    BY <1>3, <2>2 DEF Held
  <2>4. s.readString = <<"Complete">> => Count(s.readString, "Complete") = 1
    BY WordsType, CountOne
  <2>5. Held(s) >= Count(s.readString, "Complete")
    BY <1>1, <1>8 DEF Held
  <2>6. G
    BY <1>1, <1>8, <2>2, <2>3, <2>4, <2>5
  <2>7. QED BY <1>1, <1>2, <2>6 DEF t
<1>9. CASE s.commandIn /\ ch # "#" /\ ~(ch = "," /\ s.argumentIn) /\ ~(ch = ":" /\ ~s.argumentIn)
  <2>1. t = [s EXCEPT !.readString = Append(s.readString, ch)]
    BY <1>9, ParseShape
  <2>2. /\ t.commandIn /\ t.command = s.command /\ t.readString = Append(s.readString, ch)
        /\ t.sendEnable = s.sendEnable
    BY <1>9, <2>1 DEF Links
  <2> HIDE DEF t
  <2>3. Count(t.readString, "Complete") =
          Count(s.readString, "Complete") + (IF ch = "Complete" THEN 1 ELSE 0)
    BY <1>4, <2>2, CountAppend
  <2>4. Held(t) = Held(s) + e
    <3>1. /\ Held(t) = Count(t.readString, "Complete")
                         + (IF s.command = <<"Complete">> THEN 1 ELSE 0)
          /\ Held(s) = n + (IF s.command = <<"Complete">> THEN 1 ELSE 0)
      BY <1>9, <2>2 DEF Held
    <3>2. Count(t.readString, "Complete") = n + e
      BY <2>3
    <3> HIDE DEF n, e
    <3>3. QED BY <1>a, <3>1, <3>2
  <2>5. G
    BY <1>a, <2>2, <2>4
  <2>6. QED BY <1>1, <1>2, <2>5 DEF t
<1>10. CASE s.commandIn /\ ch = "#"
  <2> DEFINE u == Store(s)
  <2>1. t = Dispatch(u) /\ u \in Links
    BY <1>10, ParseShape, StoreShape
  <2>2. /\ u.sendEnable = s.sendEnable
        /\ u.command = IF s.readString # <<>> /\ ~s.argumentIn THEN s.readString ELSE s.command
    BY ZenonT(60), <1>4, StoreShape DEF Links
  <2> HIDE DEF u
  <2>3. /\ ~t.commandIn /\ t.readString = <<>>
        /\ u.command # <<"Complete">> => t.sendEnable = u.sendEnable
    <3>1. CASE u.command = <<"Complete">>
      <4>1. t = Closed([u EXCEPT !.sendEnable = TRUE])
        BY <2>1, <3>1, DispatchShape
      <4>2. QED BY <2>1, <3>1, <4>1 DEF Closed, Links
    <3>2. CASE u.command # <<"Complete">>
      <4>1. t = Closed(Receive(u))
        BY <2>1, <3>2, DispatchShape
      <4>2. Receive(u) \in Links /\ Receive(u).sendEnable = u.sendEnable
        BY <2>1, ReceiveShape
      <4>3. QED BY <4>1, <4>2 DEF Closed, Links
    <3>3. QED BY <3>1, <3>2
  <2> HIDE DEF t
  <2>4. Held(t) = 0
    BY <2>3 DEF Held
  <2>5. u.command = <<"Complete">> => Held(s) >= 1
    <3>1. s.readString = <<"Complete">> => Count(s.readString, "Complete") = 1
      BY WordsType, CountOne
    <3>2. QED BY <1>1, <1>10, <2>2, <3>1 DEF Held
  <2>6. G
    BY <1>1, <1>10, <2>2, <2>3, <2>4, <2>5
  <2>7. QED BY <1>1, <1>2, <2>6 DEF t
<1>11. QED BY <1>4, <1>5, <1>6, <1>7, <1>8, <1>9, <1>10

LEMMA AnswersInFrames ==
  Count(Screen, "Complete") = 0 /\ Count(Complete, "Complete") = 1
<1>1. Places(Screen, "Complete") = {}
  <2>1. /\ DOMAIN Screen = 1 .. 7 /\ Screen[1] = "#" /\ Screen[2] = "Screen" /\ Screen[3] = ":"
        /\ Screen[4] = "w" /\ Screen[5] = "," /\ Screen[6] = "h" /\ Screen[7] = "#"
    BY DEF Screen
  <2>2. \A k \in 1 .. 7 : k = 1 \/ k = 2 \/ k = 3 \/ k = 4 \/ k = 5 \/ k = 6 \/ k = 7
    OBVIOUS
  <2>3. \A k \in 1 .. 7 : Screen[k] # "Complete"
    BY <2>1, <2>2
  <2>4. QED BY <2>1, <2>3 DEF Places
<1>2. Places(Complete, "Complete") = {2}
  BY DEF Places, Complete
<1>3. QED BY <1>1, <1>2, FS_Singleton, FS_EmptySet DEF Count

LEMMA AnswerStep == TypeInv /\ AnswerInv /\ [Next]_vars => AnswerInv'
<1> SUFFICES ASSUME TypeInv, AnswerInv, [Next]_vars PROVE AnswerInv'
  OBVIOUS
<1> DEFINE d == Len(toDisplay) + Len(failed)
           a == Count(toPC, "Complete")
           h == Held(link)
<1>0. /\ Len(toDisplay) \in Nat /\ Len(failed) \in Nat
      /\ toDisplay \in Seq(Nat) /\ failed \in Seq(Nat)
  BY LenProperties DEF TypeInv
<1>1. /\ d \in Nat /\ a \in Nat /\ toPC \in Seq(Words) /\ link \in Links
      /\ link.sendEnable \in BOOLEAN
  BY <1>0, CountFinite, LenProperties DEF TypeInv, Links
<1>2. h \in Nat
  <2>1. link.readString \in Seq(Words)
    BY <1>1 DEF Links
  <2>2. Count(link.readString, "Complete") \in Nat
    BY <2>1, CountFinite
  <2>3. QED BY <2>2 DEF Held
<1>3. Pending = d + a + h
  <2> DEFINE x == Len(toDisplay)
             y == Len(failed)
             z == Answers
  <2>1. x \in Nat /\ y \in Nat /\ z \in Nat /\ h \in Nat
    BY <1>0, <1>1, <1>2, AnswersCount
  <2> HIDE DEF x, y, z, h
  <2>2. x + z + y + h = x + y + z + h
    BY <2>1
  <2>3. QED BY <2>2, AnswersCount DEF Pending, x, y, z, h
<1>4. Pending' = d' + a' + h'
  <2>1. TypeInv'
    BY TypeStep
  <2>2. /\ Len(toDisplay') \in Nat /\ Len(failed') \in Nat
        /\ toPC' \in Seq(Words) /\ link' \in Links
    BY <2>1, LenProperties DEF TypeInv
  <2>3. Held(link') \in Nat /\ Count(toPC', "Complete") \in Nat
    <3>1. link'.readString \in Seq(Words)
      BY <2>2 DEF Links
    <3>2. Count(link'.readString, "Complete") \in Nat
      BY <3>1, CountFinite
    <3>3. QED BY <2>2, <3>2, CountFinite DEF Held
  <2>4. PICK x \in Nat, y \in Nat, z \in Nat, w \in Nat :
          x = Len(toDisplay') /\ y = Len(failed') /\ z = Count(toPC', "Complete") /\ w = Held(link')
    BY <2>2, <2>3
  <2>5. Answers' = Count(toPC', "Complete")
    BY DEF Answers, Count, Places
  <2>6. Pending' = x + z + y + w
    BY <2>4, <2>5 DEF Pending
  <2>7. x + z + y + w = (x + y) + z + w
    OBVIOUS
  <2>8. d' + a' + h' = (x + y) + z + w
    BY <2>4
  <2>9. QED BY <2>6, <2>7, <2>8
<1>5. CASE ReadByte
  <2> DEFINE ch == Head(toPC)
  <2>1. ch \in Words /\ a' = IF ch = "Complete" THEN a - 1 ELSE a
    <3>1. toPC # <<>> /\ toPC' = Tail(toPC)
      BY <1>5 DEF ReadByte
    <3>2. ch \in Words /\ Tail(toPC) \in Seq(Words)
          /\ a = (IF ch = "Complete" THEN 1 ELSE 0) + Count(Tail(toPC), "Complete")
      BY <1>1, <3>1, CountTail
    <3>3. Count(Tail(toPC), "Complete") \in Nat
      BY <3>2, CountFinite
    <3>4. a' = Count(Tail(toPC), "Complete")
      BY <3>1
    <3> HIDE DEF a
    <3>5. CASE ch = "Complete"
      <4>1. a = 1 + Count(Tail(toPC), "Complete")
        BY <3>2, <3>5
      <4>2. QED BY <3>2, <3>3, <3>4, <3>5, <4>1
    <3>6. CASE ch # "Complete"
      <4>1. a = 0 + Count(Tail(toPC), "Complete")
        BY <3>2, <3>6
      <4>2. QED BY <3>2, <3>3, <3>4, <3>6, <4>1
    <3>7. QED BY <3>5, <3>6
  <2>2. link' = Parse(link, ch) /\ d' = d
    BY <1>5 DEF ReadByte
  <2> HIDE DEF ch
  <2>3. /\ h' \in Nat
        /\ ~link'.commandIn => link'.readString = <<>>
        /\ \/ /\ link'.sendEnable = link.sendEnable
              /\ h' <= h + (IF ch = "Complete" THEN 1 ELSE 0)
           \/ h' = 0 /\ h >= 1 /\ ch = "#"
    BY <1>1, <2>1, <2>2, ParseHeld DEF AnswerInv
  <2> HIDE DEF d, a, h
  <2>4. ~link'.commandIn => link'.readString = <<>>
    BY <2>3
  <2>5. d \in Nat /\ a \in Nat /\ h \in Nat /\ h' \in Nat
    BY <1>1, <1>2, <2>3
  <2>6. CASE h' = 0 /\ h >= 1 /\ ch = "#"
    <3>1. a' = a
      BY <2>1, <2>6
    <3>2. Pending' = d + a + 0
      BY <1>4, <2>2, <2>6, <3>1
    <3>3. Pending' <= 0 /\ Pending' <= 1
      BY <1>3, <2>5, <2>6, <3>2 DEF AnswerInv
    <3>4. QED BY <2>4, <3>3 DEF AnswerInv
  <2>7. CASE link'.sendEnable = link.sendEnable
             /\ h' <= h + (IF ch = "Complete" THEN 1 ELSE 0)
    <3>1. Pending' <= Pending
      <4>1. Pending' = d + a' + h' /\ Pending = d + a + h
        BY <1>3, <1>4, <2>2
      <4>2. CASE ch = "Complete"
        <5>1. Pending' = d + (a - 1) + h'
          BY <2>1, <4>1, <4>2
        <5>2. h' <= h + 1
          BY <2>7, <4>2
        <5>3. d + (a - 1) + h' <= d + a + h
          <6> DEFINE h1 == h'
          <6>1. d \in Nat /\ a \in Nat /\ h \in Nat /\ h1 \in Nat /\ h1 <= h + 1
            BY <2>5, <5>2
          <6> HIDE DEF h1
          <6>2. d + (a - 1) + h1 <= d + a + h
            BY <6>1
          <6>3. QED BY <6>2 DEF h1
        <5>4. QED BY <4>1, <5>1, <5>3, Zenon
      <4>3. CASE ch # "Complete"
        <5>1. Pending' = d + a + h'
          BY <2>1, <4>1, <4>3
        <5>2. h' <= h + 0
          BY <2>7, <4>3
        <5>3. d + a + h' <= d + a + h
          <6> DEFINE h1 == h'
          <6>1. d \in Nat /\ a \in Nat /\ h \in Nat /\ h1 \in Nat /\ h1 <= h
            BY <2>5, <5>2
          <6> HIDE DEF h1
          <6>2. d + a + h1 <= d + a + h
            BY <6>1
          <6>3. QED BY <6>2 DEF h1
        <5>4. QED BY <4>1, <5>1, <5>3, Zenon
      <4>4. QED BY <4>2, <4>3
    <3>2. Pending \in Nat /\ Pending' \in Int
      BY <1>3, <1>4, <2>1, <2>2, <2>5
    <3>3. QED BY <2>4, <2>7, <3>1, <3>2 DEF AnswerInv
  <2>8. QED BY <2>3, <2>6, <2>7
<1>6. CASE SendCommand
  <2>1. link' = Sent(link) /\ toPC' = toPC /\ link.sendQueue # <<>>
    BY <1>6 DEF SendCommand
  <2>2. d' = d + 1
    <3> DEFINE c == Head(link.sendQueue)
    <3>1. link.sendQueue \in Seq(Nat) /\ c \in Nat
      BY <1>1, <2>1, HeadTailProperties DEF Links
    <3>2. /\ Len(Append(toDisplay, c)) = Len(toDisplay) + 1
          /\ Len(Append(failed, c)) = Len(failed) + 1
      BY <1>0, <3>1, AppendProperties
    <3>3. \/ toDisplay' = Append(toDisplay, c) /\ failed' = failed
          \/ failed' = Append(failed, c) /\ toDisplay' = toDisplay
      BY <1>6 DEF SendCommand
    <3> HIDE DEF c
    <3>4. \/ Len(toDisplay') = Len(toDisplay) + 1 /\ Len(failed') = Len(failed)
          \/ Len(toDisplay') = Len(toDisplay) /\ Len(failed') = Len(failed) + 1
      BY <3>2, <3>3
    <3>5. PICK x \in Nat, y \in Nat : x = Len(toDisplay) /\ y = Len(failed)
      BY <1>0
    <3>6. (x + 1) + y = (x + y) + 1 /\ x + (y + 1) = (x + y) + 1
      BY <3>5
    <3>7. QED BY <3>4, <3>5, <3>6
  <2>3. /\ link'.commandIn = link.commandIn /\ link'.readString = link.readString
        /\ link'.command = link.command /\ link'.sendEnable = FALSE
    BY <1>1, <2>1 DEF Sent, Links
  <2>4. h' = h /\ a' = a
    BY <2>1, <2>3 DEF Held
  <2>5. Pending <= 0
    BY <1>6 DEF SendCommand, AnswerInv
  <2> HIDE DEF d, a, h
  <2>6. QED BY <1>1, <1>2, <1>3, <1>4, <2>2, <2>3, <2>4, <2>5 DEF AnswerInv
<1>7. CASE Start
  <2>1. toPC' = toPC \o Screen /\ link' = link /\ toDisplay' = toDisplay /\ failed' = failed
    BY <1>7 DEF Start
  <2>2. Count(Screen, "Complete") = 0
    BY AnswersInFrames
  <2>3. a' = a
    <3>1. Count(toPC \o Screen, "Complete") = a + Count(Screen, "Complete")
      BY <1>1, WordsType, CountConcat
    <3> HIDE DEF a
    <3>2. a' = Count(toPC \o Screen, "Complete")
      BY <2>1 DEF a
    <3>3. QED BY <1>1, <2>2, <3>1, <3>2
  <2>4. QED BY <1>3, <1>4, <2>1, <2>3 DEF AnswerInv
<1>8. CASE Execute
  <2>1. /\ toPC' = toPC \o Complete /\ link' = link /\ toDisplay # <<>>
        /\ toDisplay' = Tail(toDisplay) /\ failed' = failed
    BY <1>8 DEF Execute
  <2>2. Count(Complete, "Complete") = 1
    BY AnswersInFrames
  <2>3. a' = a + 1
    <3>1. Count(toPC \o Complete, "Complete") = a + Count(Complete, "Complete")
      BY <1>1, WordsType, CountConcat
    <3> HIDE DEF a
    <3>2. a' = Count(toPC \o Complete, "Complete")
      BY <2>1 DEF a
    <3>3. QED BY <1>1, <2>2, <3>1, <3>2
  <2>4. d' = d - 1
    <3>1. Len(toDisplay') = Len(toDisplay) - 1
      BY <1>0, <2>1, HeadTailProperties
    <3>2. PICK x \in Nat, y \in Nat : x = Len(toDisplay) /\ y = Len(failed)
      BY <1>0
    <3>3. (x - 1) + y = (x + y) - 1
      BY <3>2
    <3>4. QED BY <2>1, <3>1, <3>2, <3>3
  <2> HIDE DEF d, a
  <2>5. QED BY <1>1, <1>2, <1>3, <1>4, <2>1, <2>3, <2>4 DEF AnswerInv
<1>9. CASE Lose
  <2>1. link' = link /\ toDisplay' = toDisplay /\ failed' = failed
    BY <1>9 DEF Lose
  <2>2. a' \in Nat /\ a' <= a
    BY <1>1, <1>9, CountRemoveAt, CountFinite DEF Lose
  <2> HIDE DEF a
  <2>3. QED BY <1>1, <1>2, <1>3, <1>4, <2>1, <2>2 DEF AnswerInv
<1>10. CASE UNCHANGED <<toPC, toDisplay, failed, link>>
  BY <1>3, <1>4, <1>10 DEF AnswerInv
<1>11. QED BY <1>5, <1>6, <1>7, <1>8, <1>9, <1>10 DEF Next, Rest, vars

LEMMA AnswerInit == Init => AnswerInv
<1> SUFFICES ASSUME Init PROVE AnswerInv
  OBVIOUS
<1>1. toPC = <<>> /\ toDisplay = <<>> /\ failed = <<>> /\ ~link.commandIn /\ link.readString = <<>>
  BY DEF Init
<1>2. Len(toDisplay) = 0 /\ Len(failed) = 0 /\ Answers = 0 /\ Held(link) = 0
  BY <1>1, AnswersCount, CountEmpty DEF Held
<1>3. QED BY <1>1, <1>2 DEF AnswerInv, Pending

LEMMA AnswerBound ==
  TypeInv /\ AnswerInv => OneAtATime /\ NoneFailed
<1> SUFFICES ASSUME TypeInv, AnswerInv PROVE OneAtATime /\ NoneFailed
  OBVIOUS
<1>1. Held(link) \in Nat
  <2>1. link.readString \in Seq(Words)
    BY DEF TypeInv, Links
  <2>2. Count(link.readString, "Complete") \in Nat
    BY <2>1, CountFinite
  <2>3. QED BY <2>2 DEF Held
<1>2. Len(toDisplay) \in Nat /\ Answers \in Nat /\ Len(failed) \in Nat
  BY LenProperties, CountFinite, AnswersCount DEF TypeInv
<1>3. PICK x \in Nat, y \in Nat, z \in Nat, w \in Nat :
        x = Len(toDisplay) /\ y = Answers /\ z = Len(failed) /\ w = Held(link)
  BY <1>1, <1>2
<1>4. Pending = x + y + z + w /\ Unanswered = x + y + z
  BY <1>3 DEF Pending, Unanswered
<1>5. /\ x + y + z + w <= 1 => x + y + z <= 1
      /\ x + y + z + w <= 0 => x + y + z = 0 /\ z = 0
  BY <1>3
<1>6. OneAtATime
  BY <1>4, <1>5 DEF AnswerInv, OneAtATime
<1>7. NoneFailed
  <2>1. ASSUME link.sendEnable PROVE failed = <<>>
    <3>1. Len(failed) = 0
      BY <1>3, <1>4, <1>5, <2>1 DEF AnswerInv
    <3>2. QED BY <3>1, EmptySeq DEF TypeInv
  <2>2. QED BY <2>1 DEF NoneFailed
<1>8. QED BY <1>6, <1>7

\* At most one command is unanswered, and none when the program may send, however many
\* bytes the line loses and whatever write fails: what is left of the frames is never
\* taken for an answer (arduino_serial.hpp:50-69, 84-138).
THEOREM OneUnanswered == Spec => []OneAtATime
<1>1. Init => TypeInv /\ AnswerInv
  BY TypeInit, AnswerInit
<1>2. TypeInv /\ AnswerInv /\ [Next]_vars => TypeInv' /\ AnswerInv'
  BY TypeStep, AnswerStep
<1>3. TypeInv /\ AnswerInv => OneAtATime
  BY AnswerBound
<1>4. QED BY <1>1, <1>2, <1>3, PTL DEF Spec

\* The display executes the commands in the order they were queued, each once, and only
\* the last one written may be missing, if its write failed
\* (arduino_serial.hpp:63-66).
THEOREM CommandsInOrder == Spec => []InOrder
<1>1. Init => TypeInv /\ AnswerInv /\ InOrder
  BY TypeInit, AnswerInit, OrderInit
<1>2. TypeInv /\ AnswerInv /\ InOrder /\ [Next]_vars => TypeInv' /\ AnswerInv' /\ InOrder'
  BY TypeStep, AnswerStep, AnswerBound, OrderStep
<1>3. QED BY <1>1, <1>2, PTL DEF Spec

-----------------------------------------------------------------------------
(* Each frame is one call. *)

\* The symbols of #Screen:w,h# are 1 to 7, those of #Complete# are 8 to 10.
Roles == 1 .. 10
Symbol == <<"#", "Screen", ":", "w", ",", "h", "#", "#", "Complete", "#">>
Follows(p, q) == IF p \in {7, 10} THEN q \in {1, 8} ELSE q = p + 1

\* t is the rest of the frame that was read up to p and then whole frames; r says
\* which symbol of which frame each byte is.
Spells(p, r, t) == /\ Len(r) = Len(t)
                   /\ \A k \in 1 .. Len(r) : t[k] = Symbol[r[k]]
                   /\ \A k \in 1 .. Len(r) - 1 : Follows(r[k], r[k + 1])
                   /\ r = <<>> => p \in {7, 10}
                   /\ r # <<>> => Follows(p, r[1]) /\ r[Len(r)] \in {7, 10}

\* What the parser holds when it has read up to p.
Parsed(p, s) == /\ p \in {7, 10} => s.commandIn = FALSE
                /\ p \notin {7, 10} => s.commandIn = TRUE
                /\ p \in 3 .. 6 => s.argumentIn = TRUE
                /\ p \notin 3 .. 6 => s.argumentIn = FALSE
                /\ p = 2 => s.readString = <<"Screen">>
                /\ p = 4 => s.readString = <<"w">>
                /\ p = 6 => s.readString = <<"h">>
                /\ p = 9 => s.readString = <<"Complete">>
                /\ p \notin {2, 4, 6, 9} => s.readString = <<>>
                /\ p \in 3 .. 6 => s.command = <<"Screen">>
                /\ p \in {5, 6} => Len(s.arguments) = 2 * Len(s.calls) + 1
                /\ p \notin {5, 6} => Len(s.arguments) = 2 * Len(s.calls)
                /\ \A k \in 1 .. Len(s.calls) : /\ s.calls[k].command = <<"Screen">>
                                               /\ Len(s.calls[k].arguments) = 2 * k

\* A Screen frame is on the line, or in the parser, or has been handed to recvFunction.
FrameInv == lost = 0 =>
              \E p \in Roles, r \in Seq(Roles) :
                /\ Spells(p, r, toPC)
                /\ Parsed(p, link)
                /\ Len(link.calls) + (IF p \in 2 .. 6 THEN 1 ELSE 0) + Count(toPC, "Screen") = started

LEMMA SymbolValues ==
  /\ Symbol[1] = "#" /\ Symbol[2] = "Screen" /\ Symbol[3] = ":" /\ Symbol[4] = "w"
  /\ Symbol[5] = "," /\ Symbol[6] = "h" /\ Symbol[7] = "#"
  /\ Symbol[8] = "#" /\ Symbol[9] = "Complete" /\ Symbol[10] = "#"
BY DEF Symbol

LEMMA SpellsTail ==
  ASSUME NEW p \in Roles, NEW r \in Seq(Roles), NEW t \in Seq(Words), t # <<>>, Spells(p, r, t)
  PROVE  /\ r[1] \in Roles /\ Follows(p, r[1]) /\ Head(t) = Symbol[r[1]]
         /\ Tail(r) \in Seq(Roles) /\ Spells(r[1], Tail(r), Tail(t))
<1> DEFINE n == Len(r)
           r1 == Tail(r)
           t1 == Tail(t)
<1>1. /\ n \in Nat /\ n = Len(t) /\ n >= 1 /\ r # <<>>
      /\ \A k \in 1 .. n : r[k] \in Roles
  <2>1. Len(t) \in Nat \ {0}
    BY EmptySeq
  <2>2. n = Len(t)
    BY DEF Spells
  <2>3. \A k \in 1 .. n : r[k] \in Roles
    BY ElementOfSeq
  <2>4. r # <<>>
    BY <2>1, <2>2, EmptySeq
  <2>5. QED BY <2>1, <2>2, <2>3, <2>4
<1>2. /\ r1 \in Seq(Roles) /\ Len(r1) = n - 1 /\ \A i \in 1 .. n - 1 : r1[i] = r[i + 1]
      /\ t1 \in Seq(Words) /\ Len(t1) = n - 1 /\ \A i \in 1 .. n - 1 : t1[i] = t[i + 1]
  BY <1>1, HeadTailProperties
<1>3. /\ \A k \in 1 .. n : t[k] = Symbol[r[k]]
      /\ \A k \in 1 .. n - 1 : Follows(r[k], r[k + 1])
      /\ Follows(p, r[1]) /\ r[n] \in {7, 10}
  BY <1>1 DEF Spells
<1>4. Head(t) = t[1]
  OBVIOUS
<1> HIDE DEF n, r1, t1
<1>5. \A k \in 1 .. n - 1 : t1[k] = Symbol[r1[k]]
  BY <1>1, <1>2, <1>3
<1>6. \A k \in 1 .. n - 2 : Follows(r1[k], r1[k + 1])
  BY SMTT(30), <1>1, <1>2, <1>3
<1>7. r1 = <<>> => r[1] \in {7, 10}
  <2>1. r1 = <<>> => n = 1
    BY <1>1, <1>2, EmptySeq
  <2>2. QED BY <1>3, <2>1
<1>8. r1 # <<>> => Follows(r[1], r1[1]) /\ r1[n - 1] \in {7, 10}
  <2>1. r1 # <<>> => n - 1 \in Nat \ {0}
    BY <1>2, EmptySeq
  <2>2. r1 # <<>> => 1 \in 1 .. n - 1 /\ n - 1 \in 1 .. n - 1 /\ (n - 1) + 1 = n /\ 1 + 1 = 2
    BY <1>1, <2>1
  <2>3. QED BY <1>2, <1>3, <2>2
<1>9. Len(r1) - 1 = n - 2
  BY <1>1, <1>2
<1>10. Spells(r[1], r1, t1)
  BY <1>2, <1>5, <1>6, <1>7, <1>8, <1>9 DEF Spells
<1>11. QED BY <1>1, <1>2, <1>3, <1>4, <1>10 DEF r1, t1, n

LEMMA SpellsConcat ==
  ASSUME NEW p \in Roles, NEW r \in Seq(Roles), NEW t \in Seq(Words), Spells(p, r, t),
         NEW u \in Seq(Roles), NEW v \in Seq(Words), u # <<>>, Spells(10, u, v)
  PROVE  r \o u \in Seq(Roles) /\ Spells(p, r \o u, t \o v)
<1> DEFINE n == Len(r)
           m == Len(u)
           a == r \o u
           b == t \o v
<1>1. /\ n \in Nat /\ m \in Nat \ {0} /\ Len(t) = n /\ Len(v) = m
      /\ r = <<>> <=> n = 0
  BY EmptySeq, LenProperties DEF Spells
<1>2. /\ a \in Seq(Roles) /\ Len(a) = n + m
      /\ \A i \in 1 .. n + m : a[i] = IF i <= n THEN r[i] ELSE u[i - n]
  BY ConcatProperties
<1>3. /\ b \in Seq(Words) /\ Len(b) = n + m
      /\ \A i \in 1 .. n + m : b[i] = IF i <= n THEN t[i] ELSE v[i - n]
  <2>1. /\ b \in Seq(Words) /\ Len(b) = Len(t) + Len(v)
        /\ \A i \in 1 .. Len(t) + Len(v) : b[i] = IF i <= Len(t) THEN t[i] ELSE v[i - Len(t)]
    BY ConcatProperties
  <2> HIDE DEF n, m, b
  <2>2. QED BY <1>1, <2>1
<1>4. /\ \A k \in 1 .. n : t[k] = Symbol[r[k]]
      /\ \A k \in 1 .. n - 1 : Follows(r[k], r[k + 1])
      /\ n = 0 => p \in {7, 10}
      /\ n # 0 => Follows(p, r[1]) /\ r[n] \in {7, 10}
  BY <1>1 DEF Spells
<1>5. /\ \A k \in 1 .. m : v[k] = Symbol[u[k]]
      /\ \A k \in 1 .. m - 1 : Follows(u[k], u[k + 1])
      /\ u[1] \in {1, 8} /\ u[m] \in {7, 10}
  BY <1>1 DEF Spells, Follows
<1> HIDE DEF n, m, a, b
<1>6. ASSUME NEW k \in 1 .. n + m PROVE b[k] = Symbol[a[k]]
  <2>1. CASE k <= n
    <3>1. k \in 1 .. n
      BY <1>1, <2>1
    <3>2. a[k] = r[k] /\ b[k] = t[k]
      BY <1>2, <1>3, <2>1
    <3>3. QED BY <1>4, <3>1, <3>2
  <2>2. CASE ~(k <= n)
    <3>1. k - n \in 1 .. m
      BY <1>1, <2>2
    <3>2. QED BY <1>2, <1>3, <1>5, <2>2, <3>1
  <2>3. QED BY <2>1, <2>2
<1>7. ASSUME NEW k \in 1 .. n + m - 1 PROVE Follows(a[k], a[k + 1])
  <2>0. k \in 1 .. n + m /\ k + 1 \in 1 .. n + m
    BY <1>1
  <2>1. CASE k < n
    <3>1. k \in 1 .. n - 1 /\ k <= n /\ k + 1 <= n
      BY <1>1, <2>1
    <3>2. a[k] = r[k] /\ a[k + 1] = r[k + 1]
      BY <1>2, <2>0, <3>1
    <3>3. QED BY <1>4, <3>1, <3>2
  <2>2. CASE k = n
    <3>1. k <= n /\ ~(k + 1 <= n) /\ (k + 1) - n = 1 /\ n # 0
      BY <1>1, <2>2
    <3>2. a[k] = r[n] /\ a[k + 1] = u[1]
      BY <1>2, <2>0, <2>2, <3>1
    <3>3. QED BY <1>4, <1>5, <3>1, <3>2 DEF Follows
  <2>3. CASE k > n
    <3>1. k - n \in 1 .. m - 1 /\ ~(k <= n) /\ ~(k + 1 <= n) /\ (k + 1) - n = (k - n) + 1
      BY <1>1, <2>3
    <3>2. a[k] = u[k - n] /\ a[k + 1] = u[(k - n) + 1]
      BY <1>2, <2>0, <3>1
    <3>3. QED BY <1>5, <3>1, <3>2
  <2>4. QED BY <1>1, <2>1, <2>2, <2>3
<1>8. a # <<>>
  BY <1>1, <1>2, EmptySeq
<1>9. a[n + m] \in {7, 10}
  <2>1. n + m \in 1 .. n + m /\ ~(n + m <= n) /\ (n + m) - n = m
    BY <1>1
  <2>2. QED BY <1>2, <1>5, <2>1
<1>10. Follows(p, a[1])
  <2>1. 1 \in 1 .. n + m
    BY <1>1
  <2>2. CASE n = 0
    <3>1. ~(1 <= n) /\ 1 - n = 1
      BY <2>2
    <3>2. a[1] = u[1]
      BY <1>2, <2>1, <3>1
    <3>3. QED BY <1>4, <1>5, <2>2, <3>2 DEF Follows
  <2>3. CASE n # 0
    <3>1. 1 <= n
      BY <1>1, <2>3
    <3>2. QED BY <1>2, <1>4, <2>1, <2>3, <3>1
  <2>4. QED BY <2>2, <2>3
<1>11. Spells(p, a, b)
  <2>1. \A k \in 1 .. Len(a) : b[k] = Symbol[a[k]]
    BY <1>2, <1>6
  <2>2. \A k \in 1 .. Len(a) - 1 : Follows(a[k], a[k + 1])
    <3>1. Len(a) - 1 = n + m - 1
      BY <1>1, <1>2
    <3>2. QED BY <1>7, <3>1
  <2>3. Len(a) = Len(b) /\ a[Len(a)] \in {7, 10}
    BY <1>2, <1>3, <1>9
  <2>4. QED BY <1>8, <1>10, <2>1, <2>2, <2>3 DEF Spells
<1>12. QED BY <1>2, <1>11 DEF a, b

LEMMA FramesSpelled ==
  /\ <<1, 2, 3, 4, 5, 6, 7>> \in Seq(Roles) /\ Spells(10, <<1, 2, 3, 4, 5, 6, 7>>, Screen)
  /\ <<8, 9, 10>> \in Seq(Roles) /\ Spells(10, <<8, 9, 10>>, Complete)
<1> DEFINE r == <<1, 2, 3, 4, 5, 6, 7>>
           u == <<8, 9, 10>>
<1>1. r \in Seq(Roles) /\ u \in Seq(Roles)
  <2>1. \A i \in 1 .. 10 : i \in Roles
    BY DEF Roles
  <2>2. QED BY <2>1, TupleIsSeq
<1>2. /\ Len(r) = 7 /\ \A k \in 1 .. 7 : r[k] = k
      /\ Len(u) = 3 /\ \A k \in 1 .. 3 : u[k] = k + 7
  OBVIOUS
<1>3. /\ Len(Screen) = 7 /\ Screen[1] = "#" /\ Screen[2] = "Screen" /\ Screen[3] = ":"
      /\ Screen[4] = "w" /\ Screen[5] = "," /\ Screen[6] = "h" /\ Screen[7] = "#"
  BY DEF Screen
<1>4. /\ Len(Complete) = 3 /\ Complete[1] = "#" /\ Complete[2] = "Complete"
      /\ Complete[3] = "#"
  BY DEF Complete
<1> HIDE DEF r, u
<1>5. \A k \in 1 .. 7 : Screen[k] = Symbol[r[k]]
  <2>1. \A k \in 1 .. 7 : k = 1 \/ k = 2 \/ k = 3 \/ k = 4 \/ k = 5 \/ k = 6 \/ k = 7
    OBVIOUS
  <2>2. \A k \in 1 .. 7 : Screen[k] = Symbol[k]
    BY <1>3, <2>1, SymbolValues
  <2>3. QED BY <1>2, <2>2
<1>6. \A k \in 1 .. 3 : Complete[k] = Symbol[u[k]]
  <2>1. \A k \in 1 .. 3 : (k = 1 /\ u[k] = 8) \/ (k = 2 /\ u[k] = 9) \/ (k = 3 /\ u[k] = 10)
    BY <1>2
  <2>2. QED BY <1>4, <2>1, SymbolValues
<1>7. /\ \A k \in 1 .. 6 : Follows(r[k], r[k + 1])
      /\ \A k \in 1 .. 2 : Follows(u[k], u[k + 1])
  BY <1>2 DEF Follows
<1>8. r # <<>> /\ u # <<>>
  BY SMTT(30), <1>2
<1>9. r[1] = 1 /\ r[7] = 7 /\ u[1] = 8 /\ u[3] = 10
  BY <1>2
<1>10. Spells(10, r, Screen)
  <2>1. Follows(10, r[1]) /\ r[Len(r)] \in {7, 10} /\ Len(r) - 1 = 6
    BY <1>2, <1>9 DEF Follows
  <2>2. QED BY <1>2, <1>3, <1>5, <1>7, <1>8, <2>1 DEF Spells
<1>11. Spells(10, u, Complete)
  <2>1. Follows(10, u[1]) /\ u[Len(u)] \in {7, 10} /\ Len(u) - 1 = 2
    BY <1>2, <1>9 DEF Follows
  <2>2. QED BY <1>2, <1>4, <1>6, <1>7, <1>8, <2>1 DEF Spells
<1>12. QED BY <1>1, <1>10, <1>11 DEF r, u

\* The parser and the next byte of a frame.
LEMMA ParseFrame ==
  ASSUME NEW s \in Links, NEW p \in Roles, NEW q \in Roles, Parsed(p, s), Follows(p, q)
  PROVE  /\ Parsed(q, Parse(s, Symbol[q]))
         /\ q = 7 => Len(Parse(s, Symbol[q]).calls) = Len(s.calls) + 1
         /\ q # 7 => Len(Parse(s, Symbol[q]).calls) = Len(s.calls)
<1> DEFINE t == Parse(s, Symbol[q])
<1>0. q = 1 \/ q = 2 \/ q = 3 \/ q = 4 \/ q = 5 \/ q = 6 \/ q = 7 \/ q = 8 \/ q = 9 \/ q = 10
  BY DEF Roles
<1>p. /\ q = 3 => p = 2
      /\ q = 5 => p = 4
      /\ q = 7 => p = 6
      /\ q = 10 => p = 9
  BY DEF Roles, Follows
<1>1. Symbol[q] \in Words
  BY <1>0, SymbolValues, WordsType
<1>2. /\ s.readString \in Seq(Words) /\ s.arguments \in Seq(Seq(Words))
      /\ s.calls \in Seq(Calls) /\ s.command \in Seq(Words)
      /\ Len(s.calls) \in Nat /\ Len(s.arguments) \in Nat
      /\ Append(s.arguments, s.readString) \in Seq(Seq(Words))
      /\ Len(Append(s.arguments, s.readString)) = Len(s.arguments) + 1
  <2>1. /\ s.readString \in Seq(Words) /\ s.arguments \in Seq(Seq(Words))
        /\ s.calls \in Seq(Calls) /\ s.command \in Seq(Words)
    BY DEF Links
  <2>2. Len(s.calls) \in Nat /\ Len(s.arguments) \in Nat
    BY <2>1, LenProperties
  <2>3. /\ Append(s.arguments, s.readString) \in Seq(Seq(Words))
        /\ Len(Append(s.arguments, s.readString)) = Len(s.arguments) + 1
    BY <2>1, AppendProperties
  <2>4. QED BY <2>1, <2>2, <2>3
<1>3. CASE q = 1 \/ q = 8
  <2>1. p = 7 \/ p = 10
    BY <1>3 DEF Roles, Follows
  <2>a. Symbol[q] = "#"
    BY <1>3, SymbolValues
  <2>2. t = [s EXCEPT !.commandIn = TRUE, !.command = <<>>]
    BY <1>1, <2>1, <2>a, ParseShape DEF Parsed
  <2>3. /\ t.commandIn = TRUE /\ t.argumentIn = s.argumentIn /\ t.readString = s.readString
        /\ t.arguments = s.arguments /\ t.calls = s.calls
    BY <2>2 DEF Links
  <2> HIDE DEF t
  <2>4. Parsed(q, t)
    <3>1. /\ p \in {7, 10} /\ p \notin 3 .. 6 /\ p \notin {2, 4, 6, 9} /\ p \notin {5, 6}
          /\ q \notin {7, 10} /\ q \notin 3 .. 6 /\ q \notin {2, 4, 6, 9} /\ q \notin {5, 6}
          /\ q \notin {4, 6} /\ q # 2 /\ q # 9
      BY <1>3, <2>1
    <3>2. /\ s.argumentIn = FALSE /\ s.readString = <<>>
          /\ Len(s.arguments) = 2 * Len(s.calls)
          /\ \A k \in 1 .. Len(s.calls) : /\ s.calls[k].command = <<"Screen">>
                                         /\ Len(s.calls[k].arguments) = 2 * k
      BY <3>1 DEF Parsed
    <3>3. QED BY <2>3, <3>1, <3>2 DEF Parsed
  <2>5. QED BY <1>2, <1>3, <2>3, <2>4 DEF t
<1>4. CASE q = 2 \/ q = 4 \/ q = 6 \/ q = 9
  <2>a. p = q - 1
    BY <1>4 DEF Roles, Follows
  <2>1. /\ p = q - 1 /\ Symbol[q] \in {"Screen", "w", "h", "Complete"}
        /\ q = 2 => Symbol[q] = "Screen"
        /\ q = 4 => Symbol[q] = "w"
        /\ q = 6 => Symbol[q] = "h"
        /\ q = 9 => Symbol[q] = "Complete"
    BY <1>4, <2>a, SymbolValues
  <2>2. s.commandIn = TRUE /\ s.readString = <<>>
    BY <1>4, <2>1 DEF Parsed
  <2>3. t = [s EXCEPT !.readString = Append(s.readString, Symbol[q])]
    BY <1>1, <2>1, <2>2, ParseShape
  <2>4. /\ t.commandIn = TRUE /\ t.argumentIn = s.argumentIn
        /\ t.readString = Append(<<>>, Symbol[q])
        /\ t.command = s.command /\ t.arguments = s.arguments /\ t.calls = s.calls
    BY <2>2, <2>3 DEF Links
  <2>5. Append(<<>>, Symbol[q]) = <<Symbol[q]>> /\ <<Symbol[q]>> # <<>>
    OBVIOUS
  <2> HIDE DEF t
  <2>6. Parsed(q, t)
    BY <1>4, <2>1, <2>4, <2>5 DEF Parsed
  <2>7. QED BY <1>2, <1>4, <2>4, <2>6 DEF t
<1>5. CASE q = 3
  <2>1. p = 2 /\ Symbol[q] = ":"
    BY <1>p, <1>5, SymbolValues
  <2>2. s.commandIn = TRUE /\ s.argumentIn = FALSE /\ s.readString = <<"Screen">>
    BY <2>1 DEF Parsed
  <2>3. t = [s EXCEPT !.argumentIn = TRUE, !.command = s.readString, !.readString = <<>>]
    BY <1>1, <2>1, <2>2, ParseShape
  <2>4. /\ t.commandIn = TRUE /\ t.argumentIn = TRUE /\ t.readString = <<>>
        /\ t.command = <<"Screen">> /\ t.arguments = s.arguments /\ t.calls = s.calls
    BY <2>2, <2>3 DEF Links
  <2> HIDE DEF t
  <2>5. Parsed(q, t)
    BY <1>5, <2>1, <2>4 DEF Parsed
  <2>6. QED BY <1>2, <1>5, <2>4, <2>5 DEF t
<1>6. CASE q = 5
  <2>1. p = 4
    BY <1>p, <1>6
  <2>b. Symbol[q] = ","
    BY <1>6, SymbolValues
  <2>a. p \notin {7, 10} /\ p \in 3 .. 6 /\ p \notin {5, 6}
    BY <2>1
  <2>2. /\ s.commandIn = TRUE /\ s.argumentIn = TRUE /\ s.command = <<"Screen">>
        /\ Len(s.arguments) = 2 * Len(s.calls)
    BY <2>a DEF Parsed
  <2>3. t = [s EXCEPT !.arguments = Append(s.arguments, s.readString), !.readString = <<>>]
    BY <1>1, <2>b, <2>2, ParseShape
  <2>4. /\ t.commandIn = TRUE /\ t.argumentIn = TRUE /\ t.readString = <<>>
        /\ t.command = <<"Screen">> /\ t.calls = s.calls
        /\ t.arguments = Append(s.arguments, s.readString)
    BY <2>2, <2>3 DEF Links
  <2> HIDE DEF t
  <2>5. Len(t.arguments) = 2 * Len(t.calls) + 1
    BY <1>2, <2>2, <2>4
  <2>6. Parsed(q, t)
    <3>1. q \notin {7, 10} /\ q \in 3 .. 6 /\ q \in {5, 6} /\ q \notin {2, 4, 6, 9}
      BY <1>6
    <3>2. q # 2 /\ q \notin {4, 6} /\ q # 9
      BY <1>6
    <3>3. \A k \in 1 .. Len(t.calls) : /\ t.calls[k].command = <<"Screen">>
                                     /\ Len(t.calls[k].arguments) = 2 * k
      BY <2>4 DEF Parsed
    <3>4. QED BY <2>4, <2>5, <3>1, <3>2, <3>3 DEF Parsed
  <2>7. QED BY <1>2, <1>6, <2>4, <2>6 DEF t
<1>7. CASE q = 7
  <2> DEFINE u == Store(s)
             c == [command |-> u.command, arguments |-> u.arguments]
             called == [u EXCEPT !.calls = Append(u.calls, c)]
  <2>1. p = 6 /\ Symbol[q] = "#"
    BY <1>p, <1>7, SymbolValues
  <2>2. /\ s.commandIn = TRUE /\ s.argumentIn = TRUE /\ s.command = <<"Screen">>
        /\ s.readString # <<>> /\ Len(s.arguments) = 2 * Len(s.calls) + 1
    BY <2>1 DEF Parsed
  <2>3. t = Dispatch(u) /\ u \in Links
        /\ u = [s EXCEPT !.arguments = Append(s.arguments, s.readString)]
    BY <1>1, <2>1, <2>2, ParseShape, StoreShape
  <2>4. /\ u.command = <<"Screen">> /\ u.calls = s.calls
        /\ u.arguments = Append(s.arguments, s.readString)
    BY <2>2, <2>3 DEF Links
  <2>5. Len(u.arguments) = 2 * (Len(s.calls) + 1)
    BY <1>2, <2>2, <2>4
  <2> HIDE DEF u
  <2>6. /\ Receive(u) \in Links /\ Receive(u).calls = called.calls
        /\ Receive(u).arguments = u.arguments
    BY <2>3, ReceiveShape
  <2>7. called.calls = Append(s.calls, c) /\ c \in Calls
    BY <2>3, <2>4 DEF Links, Calls
  <2> HIDE DEF called
  <2>8. u.command # <<"Complete">>
    BY <2>4
  <2>9. t = Closed(Receive(u))
    BY <2>3, <2>8, DispatchShape
  <2>10. /\ t.commandIn = FALSE /\ t.argumentIn = FALSE /\ t.readString = <<>>
         /\ t.calls = Append(s.calls, c) /\ t.arguments = u.arguments
    BY <2>6, <2>7, <2>9 DEF Closed, Links
  <2>11. c.command = <<"Screen">> /\ Len(c.arguments) = 2 * (Len(s.calls) + 1)
    BY <2>4, <2>5
  <2> HIDE DEF t, c
  <2>12. /\ Len(t.calls) = Len(s.calls) + 1
         /\ \A k \in 1 .. Len(s.calls) : t.calls[k] = s.calls[k]
         /\ t.calls[Len(s.calls) + 1] = c
    BY <1>2, <2>7, <2>10, AppendProperties
  <2>13. ASSUME NEW k \in 1 .. Len(t.calls)
         PROVE  t.calls[k].command = <<"Screen">> /\ Len(t.calls[k].arguments) = 2 * k
    <3>1. CASE k \in 1 .. Len(s.calls)
      BY <2>12, <3>1 DEF Parsed
    <3>2. CASE k = Len(s.calls) + 1
      BY <2>11, <2>12, <3>2
    <3>3. QED BY <1>2, <2>12, <3>1, <3>2
  <2>14. Len(t.arguments) = 2 * Len(t.calls)
    BY <1>2, <2>5, <2>10, <2>12
  <2>15. Parsed(q, t)
    BY <1>7, <2>10, <2>13, <2>14 DEF Parsed
  <2>16. QED BY <1>7, <2>12, <2>15 DEF t
<1>8. CASE q = 10
  <2> DEFINE u == Store(s)
  <2>1. p = 9 /\ Symbol[q] = "#"
    BY <1>p, <1>8, SymbolValues
  <2>2. /\ s.commandIn = TRUE /\ s.argumentIn = FALSE /\ s.readString = <<"Complete">>
    BY <2>1 DEF Parsed
  <2>3. t = Dispatch(u) /\ u \in Links /\ u = [s EXCEPT !.command = s.readString]
    <3>1. t = Dispatch(u)
      BY <1>1, <2>1, <2>2, ParseShape
    <3>2. s.readString # <<>> /\ ~s.argumentIn
      BY <2>2
    <3>3. QED BY <3>1, <3>2, StoreShape
  <2>4. u.command = <<"Complete">> /\ u.calls = s.calls /\ u.arguments = s.arguments
    BY <2>2, <2>3 DEF Links
  <2> HIDE DEF u
  <2>5. t = Closed([u EXCEPT !.sendEnable = TRUE])
    BY <2>3, <2>4, DispatchShape
  <2>6. /\ t.commandIn = FALSE /\ t.argumentIn = FALSE /\ t.readString = <<>>
        /\ t.calls = s.calls /\ t.arguments = s.arguments
    BY <2>3, <2>4, <2>5 DEF Closed, Links
  <2> HIDE DEF t
  <2>7. Parsed(q, t)
    BY <1>8, <2>1, <2>6 DEF Parsed
  <2>8. QED BY <1>2, <1>8, <2>6, <2>7 DEF t
<1>9. QED BY <1>0, <1>3, <1>4, <1>5, <1>6, <1>7, <1>8

InScreen(p) == IF p \in 2 .. 6 THEN 1 ELSE 0

Framed(p, r) == /\ Spells(p, r, toPC)
                /\ Parsed(p, link)
                /\ Len(link.calls) + InScreen(p) + Count(toPC, "Screen") = started

LEMMA FrameInvExpanded ==
  FrameInv <=> (lost = 0 => \E p \in Roles, r \in Seq(Roles) : Framed(p, r))
BY DEF FrameInv, Framed, InScreen

LEMMA CountInFrames ==
  Count(Screen, "Screen") = 1 /\ Count(Complete, "Screen") = 0
<1>1. Places(Screen, "Screen") = {2}
  <2>1. /\ DOMAIN Screen = 1 .. 7 /\ Screen[1] = "#" /\ Screen[2] = "Screen" /\ Screen[3] = ":"
        /\ Screen[4] = "w" /\ Screen[5] = "," /\ Screen[6] = "h" /\ Screen[7] = "#"
    BY DEF Screen
  <2>2. \A k \in 1 .. 7 : k = 1 \/ k = 2 \/ k = 3 \/ k = 4 \/ k = 5 \/ k = 6 \/ k = 7
    OBVIOUS
  <2>3. \A k \in 1 .. 7 : k # 2 => Screen[k] # "Screen"
    BY <2>1, <2>2
  <2>4. Places(Screen, "Screen") = {k \in 1 .. 7 : Screen[k] = "Screen"}
    BY <2>1 DEF Places
  <2>5. {k \in 1 .. 7 : Screen[k] = "Screen"} = {2}
    <3>1. 2 \in 1 .. 7
      OBVIOUS
    <3>2. Screen[2] = "Screen"
      BY DEF Screen
    <3>3. QED BY <2>3, <3>1, <3>2
  <2>6. QED BY <2>4, <2>5
<1>2. Places(Complete, "Screen") = {}
  <2>1. /\ DOMAIN Complete = 1 .. 3 /\ Complete[1] = "#" /\ Complete[2] = "Complete"
        /\ Complete[3] = "#"
    BY DEF Complete
  <2>2. \A k \in 1 .. 3 : k = 1 \/ k = 2 \/ k = 3
    OBVIOUS
  <2>3. \A k \in 1 .. 3 : Complete[k] # "Screen"
    BY <2>1, <2>2
  <2>4. QED BY <2>1, <2>3 DEF Places
<1>3. QED BY <1>1, <1>2, FS_Singleton, FS_EmptySet DEF Count

\* The frame counted at its second symbol stays counted until its last.
LEMMA InScreenMoves ==
  ASSUME NEW p \in Roles, NEW q \in Roles, Follows(p, q)
  PROVE  /\ Symbol[q] = "Screen" <=> q = 2
         /\ q = 2 => InScreen(p) = 0 /\ InScreen(q) = 1
         /\ q = 7 => InScreen(p) = 1 /\ InScreen(q) = 0
         /\ q # 2 /\ q # 7 => InScreen(p) = InScreen(q)
<1>1. q = 1 \/ q = 2 \/ q = 3 \/ q = 4 \/ q = 5 \/ q = 6 \/ q = 7 \/ q = 8 \/ q = 9 \/ q = 10
  BY DEF Roles
<1>2. Symbol[q] = "Screen" <=> q = 2
  BY <1>1, SymbolValues
<1>3. /\ q = 2 => InScreen(p) = 0 /\ InScreen(q) = 1
      /\ q = 7 => InScreen(p) = 1 /\ InScreen(q) = 0
      /\ q # 2 /\ q # 7 => InScreen(p) = InScreen(q)
  BY DEF Roles, Follows, InScreen
<1>4. QED BY <1>2, <1>3

LEMMA FrameStep == TypeInv /\ FrameInv /\ [Next]_vars => FrameInv'
<1> SUFFICES ASSUME TypeInv, FrameInv, [Next]_vars, lost' = 0
             PROVE  (\E p \in Roles, r \in Seq(Roles) : Framed(p, r))'
  BY DEF FrameInv, Framed, InScreen
<1>1. /\ toPC \in Seq(Words) /\ link \in Links /\ started \in Nat
      /\ Len(link.calls) \in Nat /\ Count(toPC, "Screen") \in Nat
  <2>1. toPC \in Seq(Words) /\ link \in Links /\ started \in Nat /\ link.calls \in Seq(Calls)
    BY DEF TypeInv, Links
  <2>2. QED BY <2>1, LenProperties, CountFinite
<1>2. lost = 0
  BY DEF TypeInv, Next, ReadByte, SendCommand, Rest, Start, Execute, Lose, vars
<1>3. PICK p \in Roles, r \in Seq(Roles) : Framed(p, r)
  BY <1>2, FrameInvExpanded
<1>4. \A x \in Roles : InScreen(x) \in Nat
  BY DEF InScreen
<1>5. CASE ReadByte
  <2> DEFINE q == r[1]
             r1 == Tail(r)
             ch == Head(toPC)
  <2>1. toPC # <<>> /\ toPC' = Tail(toPC) /\ link' = Parse(link, ch) /\ started' = started
    BY <1>5 DEF ReadByte
  <2>2. /\ q \in Roles /\ Follows(p, q) /\ ch = Symbol[q]
        /\ r1 \in Seq(Roles) /\ Spells(q, r1, toPC')
    BY <1>1, <1>3, <2>1, SpellsTail DEF Framed
  <2>3. /\ Tail(toPC) \in Seq(Words)
        /\ Count(toPC, "Screen") = (IF ch = "Screen" THEN 1 ELSE 0) + Count(Tail(toPC), "Screen")
    BY <1>1, <2>1, CountTail
  <2> HIDE DEF q, r1, ch
  <2>4. /\ Parsed(q, link')
        /\ q = 7 => Len(link'.calls) = Len(link.calls) + 1
        /\ q # 7 => Len(link'.calls) = Len(link.calls)
    BY <1>1, <1>3, <2>1, <2>2, ParseFrame DEF Framed
  <2>5. Len(link.calls) + InScreen(p) + Count(toPC, "Screen") = started
    BY <1>3 DEF Framed
  <2> DEFINE n == Count(Tail(toPC), "Screen")
             c == Len(link.calls)
  <2>6. n \in Nat /\ c \in Nat
    BY <1>1, <2>3, CountFinite
  <2>7. n = Count(toPC', "Screen")
    BY <2>1
  <2>8. Count(toPC, "Screen") = (IF q = 2 THEN 1 ELSE 0) + n
    BY <2>2, <2>3, InScreenMoves
  <2>a. c + InScreen(p) + Count(toPC, "Screen") = started
    BY <2>5
  <2>b. Len(link.calls) = c
    OBVIOUS
  <2> HIDE DEF n, c
  <2>9. Len(link'.calls) + InScreen(q) + n = started
    <3>1. CASE q = 2
      <4>1. /\ Len(link'.calls) = c /\ InScreen(p) = 0 /\ InScreen(q) = 1
            /\ Count(toPC, "Screen") = 1 + n
        BY <2>2, <2>4, <2>8, <2>b, <3>1, InScreenMoves
      <4>2. c + 0 + (1 + n) = c + 1 + n
        BY <2>6
      <4>3. QED BY <2>a, <4>1, <4>2
    <3>2. CASE q = 7
      <4>1. /\ Len(link'.calls) = c + 1 /\ InScreen(p) = 1 /\ InScreen(q) = 0
            /\ Count(toPC, "Screen") = 0 + n
        BY <2>2, <2>4, <2>8, <2>b, <3>2, InScreenMoves
      <4>2. c + 1 + (0 + n) = (c + 1) + 0 + n
        BY <2>6
      <4>3. QED BY <2>a, <4>1, <4>2
    <3>3. CASE q # 2 /\ q # 7
      <4>1. /\ Len(link'.calls) = c /\ InScreen(p) = InScreen(q)
            /\ Count(toPC, "Screen") = 0 + n
        BY <2>2, <2>4, <2>8, <2>b, <3>3, InScreenMoves
      <4>2. 0 + n = n
        BY <2>6
      <4>3. QED BY <2>a, <4>1, <4>2
    <3>4. QED BY <3>1, <3>2, <3>3
  <2>10. Framed(q, r1)'
    BY <2>1, <2>2, <2>4, <2>7, <2>9 DEF Framed
  <2>11. QED BY <2>2, <2>10
<1>6. CASE SendCommand
  <2>1. /\ link' = Sent(link) /\ toPC' = toPC /\ started' = started
    BY <1>6 DEF SendCommand
  <2>2. /\ link'.commandIn = link.commandIn /\ link'.argumentIn = link.argumentIn
        /\ link'.readString = link.readString /\ link'.command = link.command
        /\ link'.arguments = link.arguments /\ link'.calls = link.calls
    BY <1>1, <2>1 DEF Sent, Links
  <2>3. Parsed(p, link')
    BY <1>3, <2>2 DEF Framed, Parsed
  <2>4. Framed(p, r)'
    BY <1>3, <2>1, <2>2, <2>3 DEF Framed
  <2>5. QED BY <2>4
<1>7. CASE Start
  <2> DEFINE u == <<1, 2, 3, 4, 5, 6, 7>>
  <2>1. toPC' = toPC \o Screen /\ link' = link /\ started' = started + 1
    BY <1>7 DEF Start
  <2>2. u \in Seq(Roles) /\ u # <<>> /\ Spells(10, u, Screen)
    BY FramesSpelled
  <2> HIDE DEF u
  <2>3. Spells(p, r, toPC)
    BY <1>3 DEF Framed
  <2>4. r \o u \in Seq(Roles) /\ Spells(p, r \o u, toPC \o Screen)
    BY <1>1, <2>2, <2>3, WordsType, SpellsConcat
  <2>5. Count(toPC \o Screen, "Screen") = Count(toPC, "Screen") + 1
    <3>1. Count(toPC \o Screen, "Screen") = Count(toPC, "Screen") + Count(Screen, "Screen")
      BY <1>1, WordsType, CountConcat
    <3>2. QED BY <3>1, CountInFrames
  <2>6. Len(link.calls) + InScreen(p) + Count(toPC \o Screen, "Screen") = started + 1
    <3> DEFINE n == Count(toPC, "Screen")
               c == Len(link.calls)
               i == InScreen(p)
    <3>1. n \in Nat /\ c \in Nat /\ i \in Nat
      BY <1>1, <1>4
    <3>2. c + i + n = started
      BY <1>3 DEF Framed
    <3> HIDE DEF n, c, i
    <3>3. c + i + (n + 1) = (c + i + n) + 1
      BY <3>1
    <3>4. QED BY <2>5, <3>2, <3>3 DEF n, c, i
  <2>7. Framed(p, r \o u)'
    BY <1>3, <2>1, <2>4, <2>6 DEF Framed
  <2>8. QED BY <2>4, <2>7
<1>8. CASE Execute
  <2> DEFINE u == <<8, 9, 10>>
  <2>1. toPC' = toPC \o Complete /\ link' = link /\ started' = started
    BY <1>8 DEF Execute
  <2>2. u \in Seq(Roles) /\ u # <<>> /\ Spells(10, u, Complete)
    BY FramesSpelled
  <2> HIDE DEF u
  <2>3. Spells(p, r, toPC)
    BY <1>3 DEF Framed
  <2>4. r \o u \in Seq(Roles) /\ Spells(p, r \o u, toPC \o Complete)
    BY <1>1, <2>2, <2>3, WordsType, SpellsConcat
  <2>5. Count(toPC \o Complete, "Screen") = Count(toPC, "Screen")
    <3>1. Count(toPC \o Complete, "Screen") = Count(toPC, "Screen") + Count(Complete, "Screen")
      BY <1>1, WordsType, CountConcat
    <3>2. QED BY <1>1, <3>1, CountInFrames
  <2>6. Framed(p, r \o u)'
    BY <1>3, <2>1, <2>4, <2>5 DEF Framed
  <2>7. QED BY <2>4, <2>6
<1>9. CASE Lose
  BY <1>2, <1>9 DEF Lose
<1>10. CASE UNCHANGED <<toPC, link, started>>
  <2>1. Framed(p, r)'
    BY <1>3, <1>10 DEF Framed
  <2>2. QED BY <2>1
<1>11. QED BY <1>5, <1>6, <1>7, <1>8, <1>9, <1>10 DEF Next, Rest, vars

LEMMA FrameInit == Init => FrameInv
<1> SUFFICES ASSUME Init PROVE Framed(10, <<>>)
  <2>1. 10 \in Roles /\ <<>> \in Seq(Roles)
    BY DEF Roles
  <2>2. QED BY <2>1, FrameInvExpanded
<1>1. /\ toPC = <<>> /\ started = 0
      /\ link.commandIn = FALSE /\ link.argumentIn = FALSE /\ link.readString = <<>>
      /\ link.arguments = <<>> /\ link.calls = <<>>
  BY DEF Init
<1>2. Len(<<>>) = 0
  OBVIOUS
<1>3. Spells(10, <<>>, toPC)
  BY <1>1, <1>2 DEF Spells
<1>4. Parsed(10, link)
  BY <1>1, <1>2 DEF Parsed
<1>5. Len(link.calls) + InScreen(10) + Count(toPC, "Screen") = started
  BY <1>1, <1>2, CountEmpty DEF InScreen
<1>6. QED BY <1>3, <1>4, <1>5 DEF Framed

\* As long as no byte is lost, recvFunction is called once for each Screen frame and for
\* nothing else, and the arguments of the frames so far pile up
\* (arduino_serial.hpp:84-138).
THEOREM FramesCalledOnce == Spec => []EachFrameOnce
<1>1. Init => TypeInv /\ FrameInv
  BY TypeInit, FrameInit
<1>2. TypeInv /\ FrameInv /\ [Next]_vars => TypeInv' /\ FrameInv'
  BY TypeStep, FrameStep
<1>3. TypeInv /\ FrameInv => EachFrameOnce
  <2> SUFFICES ASSUME TypeInv, FrameInv, lost = 0, ~link.commandIn
               PROVE  /\ Len(link.calls) = started - FramesSeen
                      /\ \A k \in DOMAIN link.calls : /\ link.calls[k].command = <<"Screen">>
                                                    /\ Len(link.calls[k].arguments) = 2 * k
    BY DEF EachFrameOnce
  <2>1. PICK p \in Roles, r \in Seq(Roles) : Framed(p, r)
    BY FrameInvExpanded
  <2>2. p \in {7, 10}
    BY <2>1 DEF Framed, Parsed
  <2>3. InScreen(p) = 0
    BY <2>2 DEF InScreen
  <2>4. link.calls \in Seq(Calls) /\ Len(link.calls) \in Nat /\ Count(toPC, "Screen") \in Nat
    <3>1. link.calls \in Seq(Calls)
      BY DEF TypeInv, Links
    <3>2. QED BY <3>1, LenProperties, CountFinite DEF TypeInv
  <2>5. FramesSeen = Count(toPC, "Screen")
    BY DEF FramesSeen, Count, Places
  <2>6. Len(link.calls) + 0 + Count(toPC, "Screen") = started
    BY <2>1, <2>3 DEF Framed
  <2>7. Len(link.calls) = started - FramesSeen
    BY <2>4, <2>5, <2>6
  <2>8. DOMAIN link.calls = 1 .. Len(link.calls)
    BY <2>4, LenProperties
  <2>9. QED BY <2>1, <2>7, <2>8 DEF Framed, Parsed
<1>4. QED BY <1>1, <1>2, <1>3, PTL DEF Spec

-----------------------------------------------------------------------------
(* Only a lost byte or a failed write stops the link. *)

\* The answer the parser is reading.
Reading(s) == IF s.readString = <<"Complete">> THEN 1 ELSE 0

\* As long as no byte is lost, a command that is unanswered is on one of the lines or
\* in the parser, or its write failed.
WaitInv == lost = 0 => Len(toDisplay) + Count(toPC, "Complete") + Reading(link) + Len(failed)
                         = IF link.sendEnable THEN 0 ELSE 1

LEMMA ReadingParsed ==
  ASSUME NEW p \in Roles, NEW s \in Links, Parsed(p, s)
  PROVE  Reading(s) = IF p = 9 THEN 1 ELSE 0
<1>1. CASE p = 9
  BY <1>1 DEF Parsed, Reading
<1>2. CASE p \in {2, 4, 6}
  <2>1. s.readString = <<"Screen">> \/ s.readString = <<"w">> \/ s.readString = <<"h">>
    BY <1>2 DEF Parsed
  <2>2. s.readString # <<"Complete">>
    BY <2>1
  <2>3. QED BY <1>2, <2>2 DEF Reading
<1>3. CASE p \notin {2, 4, 6, 9}
  <2>1. s.readString = <<>>
    BY <1>3 DEF Parsed
  <2>2. QED BY <1>3, <2>1 DEF Reading
<1>4. QED BY <1>1, <1>2, <1>3

\* Only the end of an answer lets the program send, and every other symbol of a frame
\* leaves sendEnable alone.
LEMMA ParseEnable ==
  ASSUME NEW s \in Links, NEW p \in Roles, NEW q \in Roles, Parsed(p, s), Follows(p, q)
  PROVE  Parse(s, Symbol[q]).sendEnable = IF q = 10 THEN TRUE ELSE s.sendEnable
<1> DEFINE ch == Symbol[q]
           t == Parse(s, ch)
<1>0. q = 1 \/ q = 2 \/ q = 3 \/ q = 4 \/ q = 5 \/ q = 6 \/ q = 7 \/ q = 8 \/ q = 9 \/ q = 10
  BY DEF Roles
<1>1. ch \in Words
  BY <1>0, SymbolValues, WordsType
<1>2. /\ q = 7 => p = 6
      /\ q = 10 => p = 9
      /\ q \in {1, 8} => p \in {7, 10}
  BY DEF Roles, Follows
<1>3. CASE q = 10
  <2> DEFINE u == Store(s)
  <2>1. p = 9 /\ ch = "#"
    BY <1>2, <1>3, SymbolValues
  <2>2. /\ s.commandIn = TRUE /\ s.argumentIn = FALSE /\ s.readString = <<"Complete">>
    BY <2>1 DEF Parsed
  <2>3. t = Dispatch(u)
    BY <1>1, <2>1, <2>2, ParseShape
  <2>4. s.readString # <<>> /\ ~s.argumentIn
    BY <2>2
  <2>5. u \in Links /\ u = [s EXCEPT !.command = s.readString]
    BY <2>4, StoreShape
  <2>6. u.command = <<"Complete">>
    BY <2>2, <2>5 DEF Links
  <2> HIDE DEF u
  <2>7. t = Closed([u EXCEPT !.sendEnable = TRUE])
    BY <2>3, <2>5, <2>6, DispatchShape
  <2> HIDE DEF t
  <2>8. t.sendEnable = TRUE
    BY <2>5, <2>7 DEF Closed, Links
  <2>9. QED BY <1>3, <2>8 DEF t
<1>4. CASE q # 10
  <2>1. ~s.commandIn => s.readString = <<>>
    <3>1. ~s.commandIn => p \in {7, 10}
      BY DEF Parsed
    <3>2. p \in {7, 10} => p \notin {2, 4, 6, 9}
      OBVIOUS
    <3>3. QED BY <3>1, <3>2 DEF Parsed
  <2>2. ch = "#" => Held(s) = 0
    <3>1. ch = "#" => q \in {1, 7, 8}
      BY <1>0, <1>4, SymbolValues
    <3>2. CASE q \in {1, 8}
      <4>1. s.commandIn = FALSE
        BY <1>2, <3>2 DEF Parsed
      <4>2. QED BY <4>1 DEF Held
    <3>3. CASE q = 7
      <4>1. s.readString = <<"h">> /\ s.command = <<"Screen">>
        BY <1>2, <3>3 DEF Parsed
      <4>2. Count(<<"h">>, "Complete") = 0
        BY WordsType, CountOne
      <4>3. s.command # <<"Complete">>
        BY <4>1
      <4>4. QED BY <4>1, <4>2, <4>3 DEF Held
    <3>4. QED BY <3>1, <3>2, <3>3
  <2>3. \/ t.sendEnable = s.sendEnable
        \/ Held(s) >= 1 /\ ch = "#"
    BY <1>1, <2>1, ParseHeld
  <2> HIDE DEF t, ch
  <2>4. ~(Held(s) >= 1 /\ ch = "#")
    BY <2>2
  <2>5. QED BY <1>4, <2>3, <2>4 DEF t, ch
<1>5. QED BY <1>3, <1>4

LEMMA WaitStep == TypeInv /\ FrameInv /\ WaitInv /\ [Next]_vars => WaitInv'
<1> SUFFICES ASSUME TypeInv, FrameInv, WaitInv, [Next]_vars, lost' = 0
             PROVE  Len(toDisplay') + Count(toPC', "Complete") + Reading(link') + Len(failed')
                      = IF link'.sendEnable THEN 0 ELSE 1
  BY DEF WaitInv, Reading
<1>1. /\ toPC \in Seq(Words) /\ link \in Links /\ toDisplay \in Seq(Nat) /\ failed \in Seq(Nat)
  BY DEF TypeInv
<1>2. lost = 0
  BY DEF TypeInv, Next, ReadByte, SendCommand, Rest, Start, Execute, Lose, vars
<1>3. /\ Len(toDisplay) \in Nat /\ Count(toPC, "Complete") \in Nat /\ Reading(link) \in Nat
      /\ Len(failed) \in Nat /\ link.sendEnable \in BOOLEAN
  BY <1>1, LenProperties, CountFinite DEF Reading, Links
<1>4. PICK d \in Nat, a \in Nat, w \in Nat, f \in Nat :
        /\ d = Len(toDisplay) /\ a = Count(toPC, "Complete")
        /\ w = Reading(link) /\ f = Len(failed)
  BY <1>3
<1>5. d + a + w + f = IF link.sendEnable THEN 0 ELSE 1
  BY <1>2, <1>4 DEF WaitInv
<1>6. CASE ReadByte
  <2>1. PICK p \in Roles, r \in Seq(Roles) : Framed(p, r)
    BY <1>2, FrameInvExpanded
  <2> DEFINE q == r[1]
             ch == Head(toPC)
  <2>2. /\ toPC # <<>> /\ toPC' = Tail(toPC) /\ link' = Parse(link, ch)
        /\ toDisplay' = toDisplay /\ failed' = failed
    BY <1>6 DEF ReadByte
  <2>3. /\ q \in Roles /\ Follows(p, q) /\ ch = Symbol[q]
    BY <1>1, <2>1, <2>2, SpellsTail DEF Framed
  <2>4. /\ Tail(toPC) \in Seq(Words)
        /\ Count(toPC, "Complete") = (IF ch = "Complete" THEN 1 ELSE 0) + Count(Tail(toPC), "Complete")
    BY <1>1, <2>2, CountTail
  <2> HIDE DEF q, ch
  <2>5. Parsed(p, link) /\ Parsed(q, link') /\ link' \in Links
        /\ link'.sendEnable = IF q = 10 THEN TRUE ELSE link.sendEnable
    <3>1. Symbol[q] \in Words
      <4>1. q = 1 \/ q = 2 \/ q = 3 \/ q = 4 \/ q = 5 \/ q = 6 \/ q = 7 \/ q = 8 \/ q = 9 \/ q = 10
        BY <2>3 DEF Roles
      <4>2. QED BY <4>1, SymbolValues, WordsType
    <3>2. Parsed(p, link)
      BY <2>1 DEF Framed
    <3>3. QED BY <1>1, <2>2, <2>3, <3>1, <3>2, ParseFrame, ParseEnable, ParseShape
  <2>6. /\ w = IF p = 9 THEN 1 ELSE 0
        /\ Reading(link') = IF q = 9 THEN 1 ELSE 0
    BY <1>1, <1>4, <2>3, <2>5, ReadingParsed
  <2>7. /\ p = 9 <=> q = 10
        /\ Symbol[q] = "Complete" <=> q = 9
    <3>1. q = 1 \/ q = 2 \/ q = 3 \/ q = 4 \/ q = 5 \/ q = 6 \/ q = 7 \/ q = 8 \/ q = 9 \/ q = 10
      BY <2>3 DEF Roles
    <3>2. Symbol[q] = "Complete" <=> q = 9
      BY <3>1, SymbolValues
    <3>3. p = 9 <=> q = 10
      BY <2>3 DEF Roles, Follows
    <3>4. QED BY <3>2, <3>3
  <2>8. Count(Tail(toPC), "Complete") \in Nat
    BY <2>4, CountFinite
  <2>9. PICK n \in Nat : n = Count(Tail(toPC), "Complete")
    BY <2>8
  <2>10. a = (IF q = 9 THEN 1 ELSE 0) + n
    BY <1>4, <2>3, <2>4, <2>7, <2>9
  <2>11. d + n + (IF q = 9 THEN 1 ELSE 0) + f
           = IF q = 10 THEN 0 ELSE IF link.sendEnable THEN 0 ELSE 1
    <3>1. CASE q = 9
      <4>1. a = 1 + n /\ w = 0
        BY <2>6, <2>7, <2>10, <3>1
      <4>2. d + (1 + n) + 0 + f = d + n + 1 + f
        OBVIOUS
      <4>3. QED BY <1>5, <3>1, <4>1, <4>2
    <3>2. CASE q = 10
      <4>1. a = 0 + n /\ w = 1
        BY <2>6, <2>7, <2>10, <3>2
      <4>2. d + (0 + n) + 1 + f <= 1
        BY <1>5, <4>1
      <4>3. d + n + 0 + f = 0
        BY <4>2
      <4>4. QED BY <3>2, <4>3
    <3>3. CASE q # 9 /\ q # 10
      <4>1. a = 0 + n /\ w = 0
        BY <2>6, <2>7, <2>10, <3>3
      <4>2. d + (0 + n) + 0 + f = d + n + 0 + f
        OBVIOUS
      <4>3. QED BY <1>5, <3>3, <4>1, <4>2
    <3>4. QED BY <3>1, <3>2, <3>3
  <2>12. /\ Len(toDisplay') = d /\ Len(failed') = f /\ Count(toPC', "Complete") = n
         /\ Reading(link') = IF q = 9 THEN 1 ELSE 0
    BY <1>4, <2>2, <2>6, <2>9
  <2>13. QED BY <2>5, <2>11, <2>12
<1>7. CASE SendCommand
  <2> DEFINE c == Head(link.sendQueue)
  <2>1. /\ link' = Sent(link) /\ toPC' = toPC /\ link.sendQueue # <<>> /\ link.sendEnable
        /\ \/ toDisplay' = Append(toDisplay, c) /\ failed' = failed
           \/ failed' = Append(failed, c) /\ toDisplay' = toDisplay
    BY <1>7 DEF SendCommand
  <2>2. link.sendQueue \in Seq(Nat) /\ c \in Nat
    BY <1>1, <2>1, HeadTailProperties DEF Links
  <2>3. /\ Len(Append(toDisplay, c)) = d + 1
        /\ Len(Append(failed, c)) = f + 1
    BY <1>1, <1>4, <2>2, AppendProperties
  <2> HIDE DEF c
  <2>4. \/ Len(toDisplay') = d + 1 /\ Len(failed') = f
        \/ Len(toDisplay') = d /\ Len(failed') = f + 1
    BY <1>4, <2>1, <2>3
  <2>5. link'.sendEnable = FALSE /\ link'.readString = link.readString
    BY <1>1, <2>1 DEF Sent, Links
  <2>6. Reading(link') = w /\ Count(toPC', "Complete") = a
    BY <1>4, <2>1, <2>5 DEF Reading
  <2>7. d + a + w + f = 0
    BY <1>5, <2>1
  <2>8. (d + 1) + a + w + f = 1 /\ d + a + w + (f + 1) = 1
    BY <2>7
  <2>9. QED BY <2>4, <2>5, <2>6, <2>8
<1>8. CASE Start
  <2>1. /\ toPC' = toPC \o Screen /\ link' = link /\ toDisplay' = toDisplay /\ failed' = failed
    BY <1>8 DEF Start
  <2>2. Count(toPC \o Screen, "Complete") = Count(toPC, "Complete") + Count(Screen, "Complete")
    BY <1>1, WordsType, CountConcat
  <2>3. a + 0 = a
    OBVIOUS
  <2>4. Count(toPC', "Complete") = a
    BY <1>4, <2>1, <2>2, <2>3, AnswersInFrames
  <2>5. QED BY <1>4, <1>5, <2>1, <2>4
<1>9. CASE Execute
  <2>1. /\ toPC' = toPC \o Complete /\ link' = link /\ failed' = failed
        /\ toDisplay # <<>> /\ toDisplay' = Tail(toDisplay)
    BY <1>9 DEF Execute
  <2>2. Len(toDisplay') = d - 1
    BY <1>1, <1>4, <2>1, HeadTailProperties
  <2>3. Count(toPC \o Complete, "Complete") = Count(toPC, "Complete") + Count(Complete, "Complete")
    BY <1>1, WordsType, CountConcat
  <2>4. Count(toPC', "Complete") = a + 1
    BY <1>4, <2>1, <2>3, AnswersInFrames
  <2>5. (d - 1) + (a + 1) + w + f = d + a + w + f
    OBVIOUS
  <2>6. QED BY <1>4, <1>5, <2>1, <2>2, <2>4, <2>5
<1>10. CASE Lose
  BY <1>2, <1>10 DEF Lose
<1>11. CASE UNCHANGED <<toPC, toDisplay, failed, link>>
  BY <1>4, <1>5, <1>11
<1>12. QED BY <1>6, <1>7, <1>8, <1>9, <1>10, <1>11 DEF Next, Rest, vars

LEMMA WaitInit == Init => WaitInv
<1> SUFFICES ASSUME Init PROVE WaitInv
  OBVIOUS
<1>1. /\ toPC = <<>> /\ toDisplay = <<>> /\ failed = <<>>
      /\ link.readString = <<>> /\ link.sendEnable = TRUE
  BY DEF Init
<1>2. Len(<<>>) = 0 /\ Reading(link) = 0
  BY <1>1 DEF Reading
<1>3. QED BY <1>1, <1>2, CountEmpty DEF WaitInv

\* Nothing but a lost byte or a failed write stops the link for good: otherwise a program
\* that may not send has its answer coming, from the display, on the line or in the
\* parser (arduino_serial.hpp:50-69, 84-138).
THEOREM OnlyLossStops == Spec => []StopsOnlyByLoss
<1>1. Init => TypeInv /\ FrameInv /\ WaitInv
  BY TypeInit, FrameInit, WaitInit
<1>2. TypeInv /\ FrameInv /\ WaitInv /\ [Next]_vars => TypeInv' /\ FrameInv' /\ WaitInv'
  BY TypeStep, FrameStep, WaitStep
<1>3. TypeInv /\ WaitInv => StopsOnlyByLoss
  <2> SUFFICES ASSUME TypeInv, WaitInv, ~link.sendEnable, ~Loss, toDisplay = <<>>,
                      link.readString # <<"Complete">>
               PROVE  Answers > 0
    BY DEF StopsOnlyByLoss
  <2>1. lost = 0 /\ failed = <<>>
    BY DEF Loss, TypeInv
  <2>2. Len(<<>>) = 0 /\ Reading(link) = 0
    BY DEF Reading
  <2>3. Len(toDisplay) + Count(toPC, "Complete") + Reading(link) + Len(failed) = 1
    BY <2>1 DEF WaitInv
  <2>4. PICK a \in Nat : a = Count(toPC, "Complete")
    BY CountFinite DEF TypeInv
  <2>5. 0 + a + 0 + 0 = 1
    BY <2>1, <2>2, <2>3, <2>4
  <2>6. QED BY <2>4, <2>5, AnswersCount
<1>4. QED BY <1>1, <1>2, <1>3, PTL DEF Spec

=============================================================================
