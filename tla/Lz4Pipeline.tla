----------------------------- MODULE Lz4Pipeline ----------------------------
(***************************************************************************)
(* test_compress of lz4.cpp: the main thread compresses the blocks of a    *)
(* file into a ring of pages, a std::async task writes the pages to the    *)
(* output; they meet through the atomics inPage and outPage and a mutex    *)
(* per page.  And test_decompress, as a function of the file.              *)
(*                                                                         *)
(* A block is its number; what LZ4 makes of it is not modelled.  The file  *)
(* is a sequence of the two writes made per page.                          *)
(***************************************************************************)
EXTENDS Integers, Sequences, SequencesExt

CONSTANTS
  Pages,   \* outBuf.size() = wrlist.size(), 40 in the code
  Ahead,   \* how far inPage may run ahead, 5 in the code
  Blocks   \* input files with this many blocks, last block included

ASSUME PagesAssumption == Pages \in Nat \ {0} /\ Ahead \in Nat /\ Blocks \in Nat \ {0}

VARIABLES
  blocks,       \* how many blocks this file has
  inPage, outPage, outBufIndex,
  outBuf,       \* per page, the block compressed into it, or None
  wrlist,       \* per page, the block its size_ belongs to, or None
  locked,       \* per thread, the page whose lock_ it holds, or None
  pcMain, pcWriter,
  file          \* what ofst has been given

vars == <<blocks, inPage, outPage, outBufIndex, outBuf, wrlist, locked, pcMain, pcWriter, file>>
shared == <<blocks, inPage, outPage, outBufIndex, outBuf, wrlist, locked, file>>

None == -1
PageNumbers == 0 .. Pages - 1
Page(k) == k % Pages
Size(b) == [what |-> "size", block |-> b]
Data(b) == [what |-> "data", block |-> b]
Trailer == [what |-> "trailer", block |-> None]

Init == /\ blocks \in 0 .. Blocks
        /\ inPage = -1 /\ outPage = 0 /\ outBufIndex = 0
        /\ outBuf = [p \in PageNumbers |-> None]
        /\ wrlist = [p \in PageNumbers |-> None]
        /\ locked = [t \in {"main", "writer"} |-> None]
        /\ pcMain = "read" /\ pcWriter = "going?"
        /\ file = <<>>

Main(from, to) == pcMain = from /\ pcMain' = to /\ UNCHANGED pcWriter
Writer(from, to) == pcWriter = from /\ pcWriter' = to /\ UNCHANGED pcMain
Acquire(t, p) == p \notin {locked[u] : u \in DOMAIN locked} /\ locked' = [locked EXCEPT ![t] = p]
Release(t) == locked' = [locked EXCEPT ![t] = None]

-----------------------------------------------------------------------------
(* The main thread *)

\* ifst.read ... LZ4_compress_fast_continue into the page, before its lock is taken
Compress == /\ outBufIndex < blocks
            /\ Main("read", "lock")
            /\ outBuf' = [outBuf EXCEPT ![Page(outBufIndex)] = outBufIndex]
            /\ UNCHANGED <<blocks, inPage, outPage, outBufIndex, wrlist, locked, file>>

\* if (0 == inpBytes) break; or LZ4 fails: if (cmpBytes <= 0) break;
InputEnds == Main("read", "last?") /\ UNCHANGED shared

LockPage == /\ Main("lock", "publish")
            /\ Acquire("main", Page(outBufIndex))
            /\ UNCHANGED <<blocks, inPage, outPage, outBufIndex, outBuf, wrlist, file>>

\* winfo.size_ = cmpBytes; winfo.buff_ = cmpBuf.data(); inPage = outBufIndex;
Publish == /\ Main("publish", "unlock")
           /\ wrlist' = [wrlist EXCEPT ![Page(outBufIndex)] = outBufIndex]
           /\ inPage' = outBufIndex
           /\ UNCHANGED <<blocks, outPage, outBufIndex, outBuf, locked, file>>

UnlockPage == /\ Main("unlock", "ahead?")
              /\ Release("main")
              /\ outBufIndex' = outBufIndex + 1
              /\ UNCHANGED <<blocks, inPage, outPage, outBuf, wrlist, file>>

\* Mutant of KeepsUp: no loop around the comparison.
KeepsUpUnchecked == Main("ahead?", "read") /\ UNCHANGED shared

\* while ((inPage.load() - outPage.load()) > 5): the step that leaves the loop
KeepsUp == /\ inPage - outPage <= Ahead
           /\ Main("ahead?", "read")
           /\ UNCHANGED shared

\* while (inPage.load() != outPage.load()): the step that leaves the loop
CatchLast == /\ inPage = outPage
             /\ Main("last?", "finish")
             /\ UNCHANGED shared

Finish == /\ Main("finish", "wait")
          /\ inPage' = -2
          /\ UNCHANGED <<blocks, outPage, outBufIndex, outBuf, wrlist, locked, file>>

\* f.wait(); ofst << 0;
Close == /\ pcWriter = "done"
         /\ Main("wait", "done")
         /\ file' = Append(file, Trailer)
         /\ UNCHANGED <<blocks, inPage, outPage, outBufIndex, outBuf, wrlist, locked>>

-----------------------------------------------------------------------------
(* The task *)

\* Mutant of Going: while (inPage.load() >= 0), but inPage starts at -1.
GoingWhileSet == /\ Writer("going?", IF inPage < 0 THEN "done" ELSE "page?")
                 /\ UNCHANGED shared

\* while (inPage.load() != -2)
Going == /\ Writer("going?", IF inPage = -2 THEN "done" ELSE "page?")
         /\ UNCHANGED shared

\* while (outPage.load() > inPage.load()): the step that leaves the loop
PageReady == /\ outPage <= inPage
             /\ Writer("page?", "lock")
             /\ UNCHANGED shared

\* test_write(ofst, winfo)
LockWrite == /\ Writer("lock", "size")
             /\ Acquire("writer", Page(outPage))
             /\ UNCHANGED <<blocks, inPage, outPage, outBufIndex, outBuf, wrlist, file>>
WriteSize == /\ Writer("size", "data")
             /\ file' = Append(file, Size(wrlist[Page(outPage)]))
             /\ UNCHANGED <<blocks, inPage, outPage, outBufIndex, outBuf, wrlist, locked>>
WriteData == /\ Writer("data", "unlock")
             /\ file' = Append(file, Data(outBuf[Page(outPage)]))
             /\ UNCHANGED <<blocks, inPage, outPage, outBufIndex, outBuf, wrlist, locked>>
UnlockWrite == /\ Writer("unlock", "next")
               /\ Release("writer")
               /\ UNCHANGED <<blocks, inPage, outPage, outBufIndex, outBuf, wrlist, file>>

\* outPage++
NextPage == /\ Writer("next", "going?")
            /\ outPage' = outPage + 1
            /\ UNCHANGED <<blocks, inPage, outBufIndex, outBuf, wrlist, locked, file>>

-----------------------------------------------------------------------------
MainStep == \/ Compress \/ InputEnds \/ LockPage \/ Publish \/ UnlockPage \/ KeepsUp
            \/ CatchLast \/ Finish \/ Close
WriterStep == \/ Going \/ PageReady \/ LockWrite \/ WriteSize \/ WriteData \/ UnlockWrite
              \/ NextPage

Next == MainStep \/ WriterStep

Spec == Init /\ [][Next]_vars

\* Both threads run.
FairSpec == Spec /\ WF_vars(MainStep) /\ WF_vars(WriterStep)

-----------------------------------------------------------------------------
(* test_decompress *)

\* A size and the data it belongs to; the loop ends at anything else.  `ofst << 0`
\* is the character 0, which is read as the first byte of a size of 48: there
\* are no 48 bytes after it, so the loop ends there as well.
Frame(f, k) == /\ 2 * k <= Len(f)
               /\ f[2 * k - 1].what = "size" /\ f[2 * k].what = "data"
               /\ f[2 * k - 1].block = f[2 * k].block
Frames(f) == {n \in 0 .. Len(f) \div 2 : \A k \in 1 .. n : Frame(f, k)}
Decompressed(f) == LET n == CHOOSE m \in Frames(f) : \A k \in Frames(f) : k <= m
                   IN [k \in 1 .. n |-> f[2 * k].block]

Input == [k \in 1 .. outBufIndex |-> k - 1]

-----------------------------------------------------------------------------
\* Whenever the program stops or is killed, what is in the output decompresses
\* to the first blocks of the input: pages are written in order and whole, and a
\* page is not compressed into before it has been written (lz4.cpp:34-100).
PrefixOnCrash == IsPrefix(Decompressed(file), Append(Input, outBufIndex))

\* What the program's help calls its output (lz4.cpp:168-172): if the program ends,
\* every block that was compressed has been written (lz4.cpp:101-106).
CompleteAtExit == pcMain = "done" => Decompressed(file) = Input

\* Every block but the last one is written, whatever becomes of the end
\* (lz4.cpp:63-71, 98).
Written(k) == \E i \in DOMAIN file : file[i] = Data(k)
AllButLast == \A k \in 0 .. Blocks - 1 : (outBufIndex > k + 1) ~> Written(k)
=============================================================================
