---------------------------- MODULE ToolBatchMC ----------------------------
(* Scenes of ToolBatch for TLC: see the README for what each one is for.   *)
EXTENDS ToolBatch

MCNames == {"a", "A", "b"}
MCFold == [name \in MCNames |-> IF name = "A" THEN "a" ELSE name]

None == {}
File(operation, path, recursive) ==
    {[kind |-> "file", operation |-> operation, path |-> path, recursive |-> recursive]}
Everything ==
    {[kind |-> "all", operation |-> "write", path |-> <<>>, recursive |-> FALSE]}

WriteFile == File("write", <<"a", "b">>, FALSE)
ReadOther == File("read", <<"A">>, FALSE)
WriteTree == File("readwrite", <<"A">>, TRUE)
SearchTree == File("search", <<>>, TRUE)
WriteTwo == WriteFile \union File("write", <<"b">>, FALSE)

\* A batch in which the given calls declare accesses of a set.
Declare(calls, choices) ==
    {[task \in Tasks |-> IF task \in DOMAIN f THEN f[task] ELSE {}] :
        f \in [1..calls -> choices]}

Plain(calls, choices, aborts, hanging) ==
    [calls |-> calls, accesses |-> Declare(calls, choices),
     verdicts |-> [task \in Tasks |-> {"allow"}],
     suspending |-> {}, live |-> FALSE, aborts |-> aborts, hanging |-> hanging,
     resumes |-> 0, faults |-> 0]

\* Every kind of declaration, two or three at a time, and an abort.
Declarations == Plain(3, {None, WriteFile, ReadOther, WriteTree, SearchTree, WriteTwo, Everything}, FALSE, {})
\* A longer queue in which a tool may hang until and beyond the abort.
Queue == Plain(4, {WriteFile, ReadOther, WriteTree}, TRUE, {1, 3})

Paused(calls, verdicts, suspending, live, rounds, failures) ==
    [calls |-> calls, accesses |-> {[task \in Tasks |-> {}]},
     verdicts |-> [task \in Tasks |-> IF task \in DOMAIN verdicts THEN verdicts[task] ELSE {"allow"}],
     suspending |-> suspending, live |-> live, aborts |-> FALSE, hanging |-> {},
     resumes |-> rounds, faults |-> failures]

Allow == {"allow"}
Ask == {"ask"}
AskOrDeny == {"ask", "deny"}

\* Approvals and inputs in one batch, over several resumes, with a failure.
Approvals(live) == Paused(2, <<Ask, AskOrDeny>>, {}, live, 2, 1)
Inputs(live)    == Paused(3, <<Allow, Ask, Allow>>, {1, 2}, live, 3, 0)
Failing(live)   == Paused(2, <<Allow, Ask>>, {1, 2}, live, 3, 1)
Stopped         == [Paused(2, <<Ask, Allow>>, {2}, TRUE, 1, 0) EXCEPT !.aborts = TRUE]

\* The policies make something else of a call when the run is resumed.
Changing == Paused(2, <<{"allow", "ask"}, {"allow", "deny", "block"}>>, {1}, FALSE, 2, 1)

AllScenes ==
    {Declarations, Queue, Stopped, Changing}
        \union {Approvals(live) : live \in BOOLEAN}
        \union {Inputs(live) : live \in BOOLEAN}
        \union {Failing(live) : live \in BOOLEAN}

VerdictChanges == {Changing}
=============================================================================
