------------------------- MODULE Lz4Pipeline_proofs -------------------------
(***************************************************************************)
(* Proofs about the pipeline of lz4.cpp for every number of pages that is  *)
(* larger than the lead of the compressing thread by two, and for files of *)
(* any length.                                                             *)
(*                                                                         *)
(* The page locks are not used: the two counters alone keep the threads    *)
(* apart, and the proofs do not mention locked.                            *)
(***************************************************************************)
EXTENDS Lz4Pipeline, SequenceTheorems, TLAPS

\* 40 > 5 + 1 in lz4.cpp:41-49 and 95.
RoomAssumption == Pages > Ahead + 1

-----------------------------------------------------------------------------
(* The inductive invariant. *)

\* The blocks handed over, those that are in their page, and those whose two writes
\* are in the file.
Published == IF pcMain = "unlock" THEN outBufIndex + 1 ELSE outBufIndex
Filled == IF pcMain \in {"lock", "publish", "unlock"} THEN outBufIndex + 1 ELSE outBufIndex
Complete == IF pcWriter \in {"unlock", "next"} THEN outPage + 1 ELSE outPage

Writes == [what : {"size", "data", "trailer"}, block : Int]

TypeInv == /\ outBufIndex \in Nat /\ outPage \in Nat
           /\ outBuf \in [PageNumbers -> Int] /\ wrlist \in [PageNumbers -> Int]
           /\ pcMain \in {"read", "lock", "publish", "unlock", "ahead?", "last?", "finish", "wait", "done"}
           /\ pcWriter \in {"going?", "page?", "lock", "size", "data", "unlock", "next", "done"}
           /\ file \in Seq(Writes)

\* inPage is the last block handed over until it tells the task to end, and neither
\* thread runs further ahead of the other than the guards say.
CounterInv == /\ inPage = IF pcMain \in {"wait", "done"} THEN -2 ELSE Published - 1
              /\ pcMain \in {"read", "lock", "publish"} => outBufIndex <= outPage + Ahead + 1
              /\ Published <= outPage + Ahead + 2
              /\ outPage <= Published
              /\ pcWriter \in {"lock", "size", "data", "unlock", "next"} => outPage < Published

\* A page holds its block until the task is past it.
PagesInv == /\ \A k \in outPage .. Filled - 1 : outBuf[Page(k)] = k
            /\ \A k \in outPage .. Published - 1 : wrlist[Page(k)] = k

FileInv == /\ Len(file) = 2 * Complete + (IF pcWriter = "data" THEN 1 ELSE 0)
                                       + (IF pcMain = "done" THEN 1 ELSE 0)
           /\ \A k \in 1 .. Complete : file[2 * k - 1] = Size(k - 1) /\ file[2 * k] = Data(k - 1)
           /\ pcWriter = "data" => file[2 * outPage + 1] = Size(outPage)
           /\ pcMain = "done" => pcWriter = "done"

IInv == TypeInv /\ CounterInv /\ PagesInv /\ FileInv

-----------------------------------------------------------------------------
(* Arithmetic of the page numbers. *)

LEMMA PageDivMod ==
  ASSUME NEW k \in Nat
  PROVE  /\ Page(k) \in PageNumbers
         /\ k \div Pages \in Nat
         /\ k = Pages * (k \div Pages) + Page(k)
BY PagesAssumption DEF Page, PageNumbers

\* Blocks less than a round apart are in different pages.
LEMMA PageDistinct ==
  ASSUME NEW j \in Nat, NEW k \in Nat, j < k, k < j + Pages
  PROVE  Page(j) # Page(k)
<1> SUFFICES ASSUME Page(j) = Page(k) PROVE FALSE
  OBVIOUS
<1> DEFINE p == j \div Pages
           q == k \div Pages
           r == Page(k)
<1>1. p \in Nat /\ q \in Nat /\ r \in 0 .. Pages - 1 /\ j = Pages * p + r /\ k = Pages * q + r
  BY PageDivMod DEF PageNumbers
<1> HIDE DEF p, q, r
<1>2. k - j = Pages * (q - p)
  BY <1>1, PagesAssumption
<1>3. 0 < q - p /\ q - p < 1
  BY <1>1, <1>2, PagesAssumption
<1>4. QED BY <1>1, <1>3

\* A page is written to while the blocks in the other pages stay.
LEMMA OtherPages ==
  ASSUME RoomAssumption, TypeInv, CounterInv, NEW k \in outPage .. outBufIndex - 1,
         pcMain \in {"read", "lock", "publish"}
  PROVE  Page(k) # Page(outBufIndex) /\ Page(k) \in PageNumbers
<1>1. k \in Nat /\ outBufIndex \in Nat /\ k < outBufIndex /\ outBufIndex < k + Pages
  BY PagesAssumption DEF RoomAssumption, TypeInv, CounterInv
<1>2. QED BY <1>1, PageDistinct, PageDivMod

-----------------------------------------------------------------------------
(* Preservation of the invariant. *)

LEMMA InvInit == Init => IInv
<1> SUFFICES ASSUME Init PROVE IInv
  OBVIOUS
<1>1. TypeInv
  BY DEF Init, TypeInv, None
<1>2. CounterInv
  BY PagesAssumption DEF Init, CounterInv, Published
<1>3. PagesInv
  BY DEF Init, PagesInv, Published, Filled
<1>4. FileInv
  BY DEF Init, FileInv, Complete
<1>5. QED BY <1>1, <1>2, <1>3, <1>4 DEF IInv

LEMMA TypeStep == TypeInv /\ [Next]_vars => TypeInv'
<1> SUFFICES ASSUME TypeInv, [Next]_vars PROVE TypeInv'
  OBVIOUS
<1>1. Page(outBufIndex) \in PageNumbers /\ Page(outPage) \in PageNumbers
  BY PageDivMod DEF TypeInv
<1>2. wrlist[Page(outPage)] \in Int /\ outBuf[Page(outPage)] \in Int
  BY <1>1 DEF TypeInv
<1>3. /\ Size(wrlist[Page(outPage)]) \in Writes
      /\ Data(outBuf[Page(outPage)]) \in Writes
      /\ Trailer \in Writes
  BY <1>2 DEF Size, Data, Trailer, Writes, None
<1> USE DEF TypeInv, Main, Writer, shared
<1>4. CASE Compress BY <1>1, <1>4 DEF Compress
<1>5. CASE InputEnds BY <1>5 DEF InputEnds
<1>6. CASE LockPage BY <1>6 DEF LockPage
<1>7. CASE Publish BY <1>1, <1>7 DEF Publish
<1>8. CASE UnlockPage BY <1>8 DEF UnlockPage
<1>9. CASE KeepsUp BY <1>9 DEF KeepsUp
<1>10. CASE CatchLast BY <1>10 DEF CatchLast
<1>11. CASE Finish BY <1>11 DEF Finish
<1>12. CASE Close BY <1>3, <1>12, AppendProperties DEF Close
<1>13. CASE Going BY <1>13 DEF Going
<1>14. CASE PageReady BY <1>14 DEF PageReady
<1>15. CASE LockWrite BY <1>15 DEF LockWrite
<1>16. CASE WriteSize BY <1>3, <1>16, AppendProperties DEF WriteSize
<1>17. CASE WriteData BY <1>3, <1>17, AppendProperties DEF WriteData
<1>18. CASE UnlockWrite BY <1>18 DEF UnlockWrite
<1>19. CASE NextPage BY <1>19 DEF NextPage
<1>20. CASE UNCHANGED vars BY <1>20 DEF vars
<1>21. QED
  BY <1>4, <1>5, <1>6, <1>7, <1>8, <1>9, <1>10, <1>11, <1>12, <1>13, <1>14, <1>15, <1>16, <1>17,
     <1>18, <1>19, <1>20 DEF Next, MainStep, WriterStep

LEMMA CounterStep == TypeInv /\ CounterInv /\ [Next]_vars => CounterInv'
<1> SUFFICES ASSUME TypeInv, CounterInv, [Next]_vars PROVE CounterInv'
  OBVIOUS
<1> USE PagesAssumption DEF TypeInv, CounterInv, Published, Main, Writer, shared
<1>4. CASE Compress BY <1>4 DEF Compress
<1>5. CASE InputEnds BY <1>5 DEF InputEnds
<1>6. CASE LockPage BY <1>6 DEF LockPage
<1>7. CASE Publish BY <1>7 DEF Publish
<1>8. CASE UnlockPage BY <1>8 DEF UnlockPage
<1>9. CASE KeepsUp BY <1>9 DEF KeepsUp
<1>10. CASE CatchLast BY <1>10 DEF CatchLast
<1>11. CASE Finish BY <1>11 DEF Finish
<1>12. CASE Close BY <1>12 DEF Close
<1>13. CASE Going BY <1>13 DEF Going
<1>14. CASE PageReady BY <1>14 DEF PageReady
<1>15. CASE LockWrite BY <1>15 DEF LockWrite
<1>16. CASE WriteSize BY <1>16 DEF WriteSize
<1>17. CASE WriteData BY <1>17 DEF WriteData
<1>18. CASE UnlockWrite BY <1>18 DEF UnlockWrite
<1>19. CASE NextPage BY <1>19 DEF NextPage
<1>20. CASE UNCHANGED vars BY <1>20 DEF vars
<1>21. QED
  BY <1>4, <1>5, <1>6, <1>7, <1>8, <1>9, <1>10, <1>11, <1>12, <1>13, <1>14, <1>15, <1>16, <1>17,
     <1>18, <1>19, <1>20 DEF Next, MainStep, WriterStep

LEMMA PagesStep == RoomAssumption /\ TypeInv /\ CounterInv /\ PagesInv /\ [Next]_vars => PagesInv'
<1> SUFFICES ASSUME RoomAssumption, TypeInv, CounterInv, PagesInv, [Next]_vars PROVE PagesInv'
  OBVIOUS
<1>1. outBufIndex \in Nat /\ outPage \in Nat /\ Page(outBufIndex) \in PageNumbers
  BY PageDivMod DEF TypeInv
<1>2. ASSUME pcMain \in {"read", "lock", "publish"}, NEW k \in outPage .. outBufIndex - 1
      PROVE  Page(k) # Page(outBufIndex)
  BY <1>2, OtherPages
<1> USE <1>1 DEF PagesInv, Published, Filled, Main, Writer, shared
<1>4. CASE Compress
  BY <1>2, <1>4 DEF Compress, TypeInv
<1>5. CASE InputEnds BY <1>5 DEF InputEnds
<1>6. CASE LockPage BY <1>6 DEF LockPage
<1>7. CASE Publish
  BY <1>2, <1>7 DEF Publish, TypeInv
<1>8. CASE UnlockPage BY <1>8 DEF UnlockPage
<1>9. CASE KeepsUp BY <1>9 DEF KeepsUp
<1>10. CASE CatchLast BY <1>10 DEF CatchLast
<1>11. CASE Finish BY <1>11 DEF Finish
<1>12. CASE Close BY <1>12 DEF Close
<1>13. CASE Going BY <1>13 DEF Going
<1>14. CASE PageReady BY <1>14 DEF PageReady
<1>15. CASE LockWrite BY <1>15 DEF LockWrite
<1>16. CASE WriteSize BY <1>16 DEF WriteSize
<1>17. CASE WriteData BY <1>17 DEF WriteData
<1>18. CASE UnlockWrite BY <1>18 DEF UnlockWrite
<1>19. CASE NextPage BY <1>19 DEF NextPage
<1>20. CASE UNCHANGED vars BY <1>20 DEF vars
<1>21. QED
  BY <1>4, <1>5, <1>6, <1>7, <1>8, <1>9, <1>10, <1>11, <1>12, <1>13, <1>14, <1>15, <1>16, <1>17,
     <1>18, <1>19, <1>20 DEF Next, MainStep, WriterStep

LEMMA FileStep ==
  TypeInv /\ CounterInv /\ PagesInv /\ FileInv /\ [Next]_vars => FileInv'
<1> SUFFICES ASSUME TypeInv, CounterInv, PagesInv, FileInv, [Next]_vars PROVE FileInv'
  OBVIOUS
<1>1. /\ outPage \in Nat /\ Complete \in Nat /\ file \in Seq(Writes)
      /\ pcWriter \in {"size", "data"} => /\ wrlist[Page(outPage)] = outPage
                                         /\ outBuf[Page(outPage)] = outPage
  <2>1. pcWriter \in {"size", "data"} => /\ outPage \in outPage .. Published - 1
                                        /\ outPage \in outPage .. Filled - 1
    BY DEF TypeInv, CounterInv, Published, Filled
  <2>2. QED BY <2>1 DEF TypeInv, PagesInv, Complete
<1> USE DEF FileInv, Complete, Main, Writer, shared
<1>4. CASE Compress BY <1>4 DEF Compress
<1>5. CASE InputEnds BY <1>5 DEF InputEnds
<1>6. CASE LockPage BY <1>6 DEF LockPage
<1>7. CASE Publish BY <1>7 DEF Publish
<1>8. CASE UnlockPage BY <1>8 DEF UnlockPage
<1>9. CASE KeepsUp BY <1>9 DEF KeepsUp
<1>10. CASE CatchLast BY <1>10 DEF CatchLast
<1>11. CASE Finish BY <1>11 DEF Finish
<1>12. CASE Close
  <2>1. pcWriter = "done" /\ pcWriter' = "done" /\ outPage' = outPage /\ pcMain = "wait" /\ pcMain' = "done"
    BY <1>12 DEF Close
  <2>2. Trailer \in Writes /\ file' = Append(file, Trailer)
    BY <1>12 DEF Close, Trailer, Writes, None
  <2>3. /\ Len(file) = 2 * outPage /\ Len(file') = 2 * outPage + 1
        /\ \A i \in 1 .. 2 * outPage : file'[i] = file[i]
    BY <1>1, <2>1, <2>2, AppendProperties
  <2>4. QED BY <1>1, <2>1, <2>3
<1>13. CASE Going BY <1>13 DEF Going
<1>14. CASE PageReady BY <1>14 DEF PageReady
<1>15. CASE LockWrite BY <1>15 DEF LockWrite
<1>16. CASE WriteSize
  <2>1. pcWriter = "size" /\ pcWriter' = "data" /\ outPage' = outPage /\ pcMain' = pcMain /\ pcMain # "done"
    BY <1>16 DEF WriteSize
  <2>2. Size(outPage) \in Writes /\ file' = Append(file, Size(outPage))
    BY <1>1, <1>16 DEF WriteSize, Size, Writes
  <2>3. /\ Len(file) = 2 * outPage /\ Len(file') = 2 * outPage + 1
        /\ \A i \in 1 .. 2 * outPage : file'[i] = file[i]
        /\ file'[2 * outPage + 1] = Size(outPage)
    BY <1>1, <2>1, <2>2, AppendProperties
  <2>4. QED BY <1>1, <2>1, <2>3
<1>17. CASE WriteData
  <2>1. pcWriter = "data" /\ pcWriter' = "unlock" /\ outPage' = outPage /\ pcMain' = pcMain /\ pcMain # "done"
    BY <1>17 DEF WriteData
  <2>2. Data(outPage) \in Writes /\ file' = Append(file, Data(outPage))
    BY <1>1, <1>17 DEF WriteData, Data, Writes
  <2>3. /\ Len(file) = 2 * outPage + 1 /\ Len(file') = 2 * outPage + 2
        /\ \A i \in 1 .. 2 * outPage + 1 : file'[i] = file[i]
        /\ file'[2 * outPage + 2] = Data(outPage)
    BY <1>1, <2>1, <2>2, AppendProperties
  <2>4. ASSUME NEW k \in 1 .. outPage + 1 PROVE file'[2 * k - 1] = Size(k - 1) /\ file'[2 * k] = Data(k - 1)
    <3>1. CASE k \in 1 .. outPage
      BY <1>1, <2>1, <2>3, <3>1
    <3>2. CASE k = outPage + 1
      BY <1>1, <2>1, <2>3, <3>2
    <3>3. QED BY <1>1, <3>1, <3>2
  <2>5. QED BY <1>1, <2>1, <2>3, <2>4
<1>18. CASE UnlockWrite BY <1>18 DEF UnlockWrite
<1>19. CASE NextPage BY <1>1, <1>19 DEF NextPage
<1>20. CASE UNCHANGED vars BY <1>20 DEF vars
<1>21. QED
  BY <1>4, <1>5, <1>6, <1>7, <1>8, <1>9, <1>10, <1>11, <1>12, <1>13, <1>14, <1>15, <1>16, <1>17,
     <1>18, <1>19, <1>20 DEF Next, MainStep, WriterStep

LEMMA InvStep == RoomAssumption /\ IInv /\ [Next]_vars => IInv'
BY TypeStep, CounterStep, PagesStep, FileStep DEF IInv

-----------------------------------------------------------------------------
(* What the file decompresses to. *)

\* The complete frames of the file, and no others, are decompressed.
LEMMA FramesOfFile == IInv => Frames(file) = 0 .. Complete
<1> SUFFICES ASSUME IInv PROVE Frames(file) = 0 .. Complete
  OBVIOUS
<1>1. Complete \in Nat /\ Len(file) \in {2 * Complete, 2 * Complete + 1}
  BY DEF IInv, TypeInv, FileInv, Complete
<1>2. Len(file) \div 2 = Complete
  BY <1>1
<1>3. ASSUME NEW k \in 1 .. Complete PROVE Frame(file, k)
  <2>1. file[2 * k - 1] = Size(k - 1) /\ file[2 * k] = Data(k - 1)
    BY DEF IInv, FileInv
  <2>2. 2 * k <= Len(file)
    BY <1>1
  <2>3. QED BY <2>1, <2>2 DEF Frame, Size, Data
<1>4. QED BY <1>1, <1>2, <1>3 DEF Frames

LEMMA DecompressedFile == IInv => Decompressed(file) = [k \in 1 .. Complete |-> k - 1]
<1> SUFFICES ASSUME IInv PROVE Decompressed(file) = [k \in 1 .. Complete |-> k - 1]
  OBVIOUS
<1>1. Complete \in Nat /\ Frames(file) = 0 .. Complete
  BY FramesOfFile DEF IInv, TypeInv, Complete
<1> DEFINE n == CHOOSE m \in Frames(file) : \A k \in Frames(file) : k <= m
<1>2. n = Complete
  <2>1. Complete \in Frames(file) /\ \A k \in Frames(file) : k <= Complete
    BY <1>1
  <2>2. n \in Frames(file) /\ \A k \in Frames(file) : k <= n
    BY <2>1
  <2>3. QED BY <1>1, <2>1, <2>2
<1>3. ASSUME NEW k \in 1 .. Complete PROVE file[2 * k].block = k - 1
  <2>1. file[2 * k] = Data(k - 1)
    BY DEF IInv, FileInv
  <2>2. QED BY <2>1 DEF Data
<1>4. Decompressed(file) = [k \in 1 .. n |-> file[2 * k].block]
  BY DEF Decompressed
<1> HIDE DEF n
<1>5. QED BY <1>2, <1>3, <1>4

LEMMA PrefixFromIInv == IInv => PrefixOnCrash
<1> SUFFICES ASSUME IInv PROVE PrefixOnCrash
  OBVIOUS
<1> DEFINE s == Decompressed(file)
           t == Append(Input, outBufIndex)
<1>1. Complete \in Nat /\ outBufIndex \in Nat /\ Complete <= outBufIndex + 1
  BY DEF IInv, TypeInv, CounterInv, Complete, Published
<1>2. s = [k \in 1 .. Complete |-> k - 1]
  BY DecompressedFile
<1>3. s \in Seq(Int) /\ Len(s) = Complete
  BY <1>1, <1>2
<1>4. Input \in Seq(Int) /\ Len(Input) = outBufIndex /\ \A k \in 1 .. outBufIndex : Input[k] = k - 1
  BY <1>1 DEF Input
<1>5. t \in Seq(Int) /\ Len(t) = outBufIndex + 1 /\ \A k \in 1 .. outBufIndex + 1 : t[k] = k - 1
  BY <1>1, <1>4, AppendProperties
<1> HIDE DEF s, t
<1>6. SubSeq(s, 1, Len(s)) = SubSeq(t, 1, Len(s))
  <2>1. /\ SubSeq(s, 1, Len(s)) \in Seq(Int) /\ Len(SubSeq(s, 1, Len(s))) = Complete
        /\ \A i \in 1 .. Complete : SubSeq(s, 1, Len(s))[i] = s[i]
    BY <1>1, <1>3
  <2>2. /\ SubSeq(t, 1, Len(s)) \in Seq(Int) /\ Len(SubSeq(t, 1, Len(s))) = Complete
        /\ \A i \in 1 .. Complete : SubSeq(t, 1, Len(s))[i] = t[i]
    BY <1>1, <1>3, <1>5
  <2>3. \A i \in 1 .. Complete : s[i] = t[i]
    BY <1>1, <1>2, <1>5
  <2>4. QED BY <2>1, <2>2, <2>3, SeqEqual
<1>7. QED BY <1>1, <1>3, <1>5, <1>6 DEF PrefixOnCrash, IsPrefix, s, t

-----------------------------------------------------------------------------
\* Whenever the program stops, its output decompresses to the first blocks of the
\* input, however long that is, if the ring has more pages than the compressing
\* thread's lead and one (lz4.cpp:34-100).
THEOREM PrefixWheneverKilled == RoomAssumption => (Spec => []PrefixOnCrash)
<1> SUFFICES ASSUME RoomAssumption PROVE Spec => []PrefixOnCrash
  OBVIOUS
<1>1. IInv /\ [Next]_vars => IInv'
  BY InvStep
<1>2. QED BY <1>1, InvInit, PrefixFromIInv, PTL DEF Spec
-----------------------------------------------------------------------------
(* How much of the input is missing when the program ends. *)

\* The main thread leaves only once the task is at the last page or past it.
CatchInv == pcMain \in {"finish", "wait", "done"} => outPage >= outBufIndex - 1

LEMMA CatchStep == TypeInv /\ CounterInv /\ CatchInv /\ [Next]_vars => CatchInv'
<1> SUFFICES ASSUME TypeInv, CounterInv, CatchInv, [Next]_vars PROVE CatchInv'
  OBVIOUS
<1>1. CASE CatchLast
  BY <1>1 DEF CatchLast, Main, shared, CatchInv, CounterInv, TypeInv, Published
<1>2. CASE Finish \/ Close
  BY <1>2 DEF Finish, Close, Main, CatchInv
<1>3. CASE Compress \/ InputEnds \/ LockPage \/ Publish \/ UnlockPage \/ KeepsUp
  BY <1>3 DEF Compress, InputEnds, LockPage, Publish, UnlockPage, KeepsUp, Main, CatchInv
<1>4. CASE WriterStep
  BY <1>4 DEF WriterStep, Going, PageReady, LockWrite, WriteSize, WriteData, UnlockWrite, NextPage,
              Writer, shared, CatchInv, TypeInv
<1>5. CASE UNCHANGED vars
  BY <1>5 DEF vars, CatchInv
<1>6. QED BY <1>1, <1>2, <1>3, <1>4, <1>5 DEF Next, MainStep

\* The file is complete at exit but for the last block.
MissesAtMostLast == pcMain = "done" => Len(Decompressed(file)) \in {outBufIndex - 1, outBufIndex}

LEMMA MissesFromIInv == IInv /\ CatchInv => MissesAtMostLast
<1> SUFFICES ASSUME IInv, CatchInv, pcMain = "done"
             PROVE  Len(Decompressed(file)) \in {outBufIndex - 1, outBufIndex}
  BY DEF MissesAtMostLast
<1>1. /\ Complete = outPage /\ outPage \in Nat /\ outBufIndex \in Nat
      /\ outBufIndex - 1 <= outPage /\ outPage <= outBufIndex
  BY DEF IInv, TypeInv, CounterInv, FileInv, CatchInv, Complete, Published
<1>2. Len(Decompressed(file)) = Complete
  BY <1>1, DecompressedFile
<1>3. QED BY <1>1, <1>2

\* CompleteAtExit fails by one block and never by more: the file the program leaves
\* behind when it ends lacks the last block or nothing (lz4.cpp:101-108).
THEOREM MissesAtMostLastBlock == RoomAssumption => (Spec => []MissesAtMostLast)
<1> SUFFICES ASSUME RoomAssumption PROVE Spec => []MissesAtMostLast
  OBVIOUS
<1>1. Init => IInv /\ CatchInv
  BY InvInit DEF Init, CatchInv
<1>2. IInv /\ CatchInv /\ [Next]_vars => IInv' /\ CatchInv'
  BY InvStep, CatchStep DEF IInv
<1>3. QED BY <1>1, <1>2, MissesFromIInv, PTL DEF Spec
=============================================================================
