---------------------------- MODULE MCPipelineRuns ----------------------------
(* Small instances of PipelineRuns: the files earlier versions left behind. *)
EXTENDS PipelineRuns

CONSTANTS plain, edited

Legacy(bound, f, status, attempts, results) ==
    [schema |-> "1", fixture |-> IF bound THEN f ELSE None, bound |-> bound,
     status |-> status, created |-> 0, updated |-> 0, reused |-> 0,
     attempts |-> attempts, results |-> results, events |-> <<>>]

In(s) == [stage |-> s, schema |-> "1",
          previous |-> IF s = 1 THEN None ELSE <<"1", 1, None>>,
          fixture |-> IF s = 1 THEN plain ELSE None]

Try(s, st) == [stage |-> s, no |-> 1, status |-> st, input |-> In(s),
               retryable |-> FALSE, started |-> 0,
               finished |-> IF st = "running" THEN None ELSE 0]

Done(s) == [run |-> 1, stage |-> s, no |-> 1, output |-> Output(In(s)), at |-> 0]

First == <<Try(1, "succeeded")>>

\* Version 1 as it was left by a crash in the second stage, by a finished run
\* and by a crash before the first attempt; version 2 bound and resumed.
MCLegacyFiles ==
    {[version |-> 1, runs |-> <<Legacy(FALSE, plain, "running",
        Append(First, Try(2, "running")), <<Done(1)>>)>>],
     [version |-> 1, runs |-> <<Legacy(FALSE, plain, "planned",
        Append(First, Try(2, "succeeded")), <<Done(1), Done(2)>>)>>],
     [version |-> 1, runs |-> <<Legacy(FALSE, plain, "running", <<>>, <<>>)>>],
     [version |-> 2, runs |-> <<Legacy(TRUE, plain, "interrupted", First, <<Done(1)>>)>>],
     [version |-> 2, runs |-> <<[Legacy(TRUE, plain, "interrupted", First, <<Done(1)>>)
                                 EXCEPT !.reused = 1]>>]}
===============================================================================
