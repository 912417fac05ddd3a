--------------------------- MODULE MCSimpleWorker ---------------------------
(* SimpleWorker for TLC, with the clients of thread_test2.cpp cut down to a   *)
(* few jobs.                                                                  *)
EXTENDS SimpleWorker

CONSTANTS w1, w2

MCJobs == {"keeper", "one", "post", "main", "check", "child"}
MCCounters == {"keeper", "main", "child"}

Nothing == [j \in MCJobs |-> Null]
NoBody == [j \in MCJobs |-> <<>>]
NoCount == [c \in MCCounters |-> 0]

\* test1 (thread_test2.cpp:43-56): keeper waits for the counter that one lowers.
Test1 == [workers |-> {w1},
          gate |-> [Nothing EXCEPT !["keeper"] = "keeper"],
          after |-> Nothing,
          body |-> [NoBody EXCEPT !["one"] = <<Add("keeper", -1)>>],
          count |-> [NoCount EXCEPT !["keeper"] = 1],
          script |-> <<Push("keeper"), Push("one"), Push("post"), Execute, Wait, Stop>>]

\* test2 (thread_test2.cpp:85-117): main pushes check, which waits for the child,
\* and the child; post waits for main and check.
Test2 == [workers |-> {w1},
          gate |-> [Nothing EXCEPT !["post"] = "main", !["check"] = "child"],
          after |-> [Nothing EXCEPT !["main"] = "main", !["check"] = "main", !["child"] = "child"],
          body |-> [NoBody EXCEPT !["main"] =
                     <<Add("child", 1), Add("main", 1), Push("check"), Push("child")>>],
          count |-> [NoCount EXCEPT !["main"] = 1],
          script |-> <<Push("post"), Push("main"), Execute, Wait, Stop>>]

\* Two threads, and jobs that wait for nothing.
Free(script) == [workers |-> {w1, w2}, gate |-> Nothing, after |-> Nothing, body |-> NoBody,
                 count |-> NoCount, script |-> script]
FreeTwo == Free(<<Push("one"), Push("post"), Execute, Wait, Stop>>)
FreeLate == Free(<<Push("one"), Execute, Push("post"), Stop>>)
FreeOne == Free(<<Push("one"), Execute, Wait, Stop>>)

GoodPrograms == {Test1, Test2, FreeTwo, FreeLate}
OnePrograms == {FreeOne}
=============================================================================
