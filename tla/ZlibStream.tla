----------------------------- MODULE ZlibStream -----------------------------
(***************************************************************************)
(* class zlib of zlib.hpp with the zinp of zlib_test.cpp: a loop around    *)
(* deflate or inflate that hands over the rest of the source and the whole *)
(* destination buffer, and writes what came out.                           *)
(*                                                                         *)
(* zlib is outside the repository and modelled from how the loop uses it:  *)
(* a call takes some of the input and gives some of the output, in order,  *)
(* says Z_STREAM_END when the stream is over, and otherwise makes progress *)
(* if it can.  What lies behind the end of a stream, or behind an error in *)
(* it, inflate never reads.  The n-th unit of output is the number n.      *)
(***************************************************************************)
EXTENDS Naturals, Sequences

CONSTANTS
  Sources,      \* lengths of the source
  Outputs,      \* lengths of what the stream makes of it
  Tails,        \* lengths of what lies behind a stream or behind an error in it
  BufferRoom,   \* obuffer.size()
  WorkSize,     \* work_buffer.size()
  RequestLists  \* what deflateInit2 or inflateInit2 asks zalloc for, in order

ASSUME LengthsAssumption == /\ Sources \subseteq Nat /\ Outputs \subseteq Nat /\ Tails \subseteq Nat
                            /\ BufferRoom \in Nat /\ WorkSize \in Nat

VARIABLES
  job,          \* what this run of the program is about (see ZlibJobs)
  work_size,
  asked,        \* how many of the requests have been answered
  src,          \* src.sz: what is left of the source
  flush,
  made,         \* how much output the stream has given
  total_write,
  ofs,          \* the output file
  loop          \* where the program is

zlibVars == <<job, work_size, asked, src, flush, made, total_write, ofs, loop>>

\* A source to compress, or one to expand: whole, with or without something behind its
\* stream, cut off, or corrupt at some place.
ZlibJobs == {j \in [mode : {"compress", "uncompress"}, source : Sources, output : Outputs,
                    kind : {"whole", "cut", "corrupt"}, unread : Tails, requests : RequestLists] :
               /\ j.unread <= j.source
               /\ j.mode = "compress" => j.kind = "whole" /\ j.unread = 0 /\ j.output > 0
               /\ j.kind = "cut" => j.unread = 0
               /\ j.mode = "uncompress" /\ j.kind = "whole" => j.unread < j.source}
ZlibInit == /\ job \in ZlibJobs
            /\ work_size = WorkSize
            /\ asked = 0
            /\ src = job.source
            /\ flush = "Z_NO_FLUSH"
            /\ made = 0 /\ total_write = 0
            /\ ofs = <<>>
            /\ loop = "init"

\* z.zalloc: alloc(sz) from the end of work_buffer.  A refused request makes the
\* stream unusable; the result of deflateInit2 and inflateInit2 is ignored.
Alloc == /\ loop = "init"
         /\ asked < Len(job.requests)
         /\ asked' = asked + 1
         /\ \/ /\ work_size >= job.requests[asked + 1]
               /\ work_size' = work_size - job.requests[asked + 1]
               /\ loop' = loop
            \/ /\ work_size < job.requests[asked + 1]
               /\ loop' = "bad"
               /\ UNCHANGED work_size
         /\ UNCHANGED <<job, src, flush, made, total_write, ofs>>
BeginLoop == /\ loop = "init"
             /\ asked = Len(job.requests)
             /\ loop' = "call"
             /\ UNCHANGED <<job, work_size, asked, src, flush, made, total_write, ofs>>

-----------------------------------------------------------------------------
(* zlib *)

\* What is left of the input, and what can come out so far: the last of a compressed
\* stream not before Z_FINISH.
Readable == src - job.unread
Available == IF job.mode = "compress" /\ flush # "Z_FINISH" THEN job.output - 1 ELSE job.output
CanMove == Readable > 0 \/ made < Available

\* r = func(&z, flush) takes and gives, and is Z_STREAM_END if that was all of a whole
\* stream.  Z_OK, Z_BUF_ERROR, Z_DATA_ERROR: the loop does not tell them apart.
Moves(taken, given) == /\ taken \in 0 .. Readable /\ given \in 0 .. BufferRoom
                       /\ made + given <= Available
                       /\ CanMove => taken + given > 0
Ends(taken, given) == /\ job.kind = "whole"
                      /\ taken = Readable /\ made + given = job.output

-----------------------------------------------------------------------------
(* mainloop *)
Given(given) == [k \in 1 .. given |-> made + k]

\* Mutant of StreamEnd: what the last call gave is not written.
StreamEndUnwritten(taken, given) ==
  /\ loop = "call" /\ Moves(taken, given) /\ Ends(taken, given)
  /\ src' = src - taken
  /\ made' = made + given
  /\ total_write' = total_write + given
  /\ loop' = "done"
  /\ UNCHANGED <<job, work_size, asked, flush, ofs>>

\* The call that ends the stream: inp.flush(write_size).
StreamEnd(taken, given) ==
  /\ loop = "call" /\ Moves(taken, given) /\ Ends(taken, given)
  /\ src' = src - taken
  /\ made' = made + given
  /\ total_write' = total_write + given
  /\ ofs' = ofs \o Given(given)
  /\ loop' = "done"
  /\ UNCHANGED <<job, work_size, asked, flush>>

\* Mutant of RunOut: Z_FINISH is never asked for.
RunOutUnfinished(taken, given) ==
  /\ loop = "call" /\ Moves(taken, given) /\ ~Ends(taken, given)
  /\ src' = src - taken
  /\ made' = made + given
  /\ total_write' = total_write + given
  /\ ofs' = ofs \o Given(given)
  /\ UNCHANGED <<job, work_size, asked, flush, loop>>

\* if (inp.runOut(read_size, write_size)) flush = Z_FINISH;
RunOut(taken, given) ==
  /\ loop = "call" /\ Moves(taken, given) /\ ~Ends(taken, given)
  /\ src' = src - taken
  /\ made' = made + given
  /\ total_write' = total_write + given
  /\ ofs' = ofs \o Given(given)
  /\ flush' = IF src' = 0 THEN "Z_FINISH" ELSE flush
  /\ UNCHANGED <<job, work_size, asked, loop>>

\* Z_STREAM_ERROR: the stream was never initialised.
StreamError == /\ loop = "bad"
               /\ loop' = "error"
               /\ UNCHANGED <<job, work_size, asked, src, flush, made, total_write, ofs>>

CallZlib == \E taken \in 0 .. src, given \in 0 .. BufferRoom : StreamEnd(taken, given) \/ RunOut(taken, given)
ZlibNext == Alloc \/ BeginLoop \/ StreamError \/ CallZlib

-----------------------------------------------------------------------------
ZlibTypeOK == /\ work_size \in 0 .. WorkSize /\ asked \in 0 .. Len(job.requests)
              /\ src \in 0 .. job.source /\ flush \in {"Z_NO_FLUSH", "Z_FINISH"}
              /\ made \in 0 .. job.output /\ total_write \in Nat

\* What the stream gives arrives in the file once and in order, also when the end of
\* the source and the end of the output buffer fall together, and the size reported
\* is that of the file (zlib.hpp:53-82, zlib_test.cpp:56-72).
FileIsStream == /\ ofs = [k \in 1 .. made |-> k]
                /\ total_write = Len(ofs)
                /\ loop = "done" => Len(ofs) = job.output

Ended == loop \in {"done", "error"}

\* A whole source is worked off, whatever lies behind its stream (zlib.hpp:51-81); a
\* source to expand that is cut off or corrupt keeps the loop going for ever, as only
\* Z_STREAM_END and Z_STREAM_ERROR end it.
WholeEnds == /\ loop = "call" /\ job.kind = "whole" ~> Ended
             /\ [](job.kind # "whole" => loop # "done")
=============================================================================
