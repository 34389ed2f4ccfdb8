---------------------------- MODULE TaskLedger ----------------------------
(***************************************************************************)
(* What the store of background tasks promises its readers (the comments   *)
(* of agents-core/src/capabilities/background/persist.ts on PersistedTask):*)
(* a record goes from running to one terminal status and stays there, a    *)
(* notice is owed only for a task that has settled, and it counts as       *)
(* delivered only when it has reached the conversation.  Who writes, in    *)
(* which process, and what dies in between does not show here.             *)
(***************************************************************************)
EXTENDS Naturals

CONSTANT Tasks

VARIABLES
    disk,     \* the durable record of each task
    told,     \* how many notices of it the durable conversation holds
    trusting, \* a notice may be confirmed before the conversation holds it
    shared    \* tasks whose record two managers have come to write

vars == <<disk, told, trusting, shared>>

Ends == {"ended", "killed", "lost"}
Records == [st : {"running"} \union Ends, q : BOOLEAN, n : BOOLEAN]
NoRecord == [st |-> "none", q |-> FALSE, n |-> FALSE]

Init ==
    /\ disk = [t \in Tasks |-> NoRecord]
    /\ told = [t \in Tasks |-> 0]
    /\ trusting \in BOOLEAN
    /\ shared = {}

Record(t, r) ==
    /\ disk' = [disk EXCEPT ![t] = r]
    /\ UNCHANGED <<told, trusting, shared>>

Create(t) == disk[t].st = "none" /\ Record(t, [NoRecord EXCEPT !.st = "running"])
Settle(t) == disk[t].st = "running" /\ \E s \in Ends : Record(t, [disk[t] EXCEPT !.st = s])
Owe(t) == disk[t].st \in Ends /\ Record(t, [disk[t] EXCEPT !.q = TRUE])
Confirm(t) ==
    /\ disk[t].q
    /\ told[t] > 0 \/ trusting
    /\ Record(t, [disk[t] EXCEPT !.n = TRUE])
Tell(t) ==
    /\ told' = [told EXCEPT ![t] = @ + 1]
    /\ UNCHANGED <<disk, trusting, shared>>

\* A session closed and reopened in one process leaves the old manager at
\* work: nothing is promised of the tasks it still runs.
Share(S) == shared \subseteq S /\ shared' = S /\ UNCHANGED <<disk, told, trusting>>
Overwrite(t) == t \in shared /\ \E r \in Records : Record(t, r)

Next ==
    \/ \E t \in Tasks : Create(t) \/ Settle(t) \/ Owe(t) \/ Confirm(t) \/ Tell(t) \/ Overwrite(t)
    \/ \E S \in SUBSET Tasks : Share(S)

Spec == Init /\ [][Next]_vars
=============================================================================
