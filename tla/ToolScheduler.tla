--------------------------- MODULE ToolScheduler ---------------------------
(***************************************************************************)
(* The scheduler of tool calls (agents-core/src/loop/scheduler.ts) over    *)
(* the access declarations of tools (agents-core/src/tool/access.ts).  A   *)
(* task declares what it touches; it starts as soon as it conflicts with   *)
(* no task that is running or waits before it.                             *)
(*                                                                         *)
(* Tasks are numbered in the order in which they are added.  queuedTasks   *)
(* is an array to which add pushes and which a sweep only filters, so it   *)
(* always lists its members in that order and is here the set of them.     *)
(*                                                                         *)
(* A path is the sequence of its names: splitting at "/" (or "\") is what  *)
(* collapsing repeated separators and dropping the last one amounts to.    *)
(* What is left of normalizePath is the case fold of each name.  No "." or *)
(* ".." is resolved by the code; tools declare resolved paths.             *)
(***************************************************************************)
EXTENDS Integers, Sequences, FiniteSets

CONSTANTS
    NumTasks,   \* tasks that are ever added to one scheduler
    Names,      \* the names paths are made of, as they are spelled
    Fold        \* toLowerCase, name by name

ASSUME NumTasksAssumption == NumTasks \in Nat
ASSUME FoldAssumption == Fold \in [Names -> Names]

Tasks == 1..NumTasks

---------------------------------------------------------------------------
(* Accesses.                                                               *)

Operations == {"read", "search", "write", "readwrite"}

Paths == Seq(Names)

Access == [kind : {"all", "file"}, operation : Operations,
           path : Paths, recursive : BOOLEAN]

normalizePath(path) == [i \in DOMAIN path |-> Fold[path[i]]]

fileOperationWrites(operation) == operation \in {"write", "readwrite"}

fileOperationsConflict(left, right) ==
    fileOperationWrites(left) \/ fileOperationWrites(right)

StartsWith(path, prefix) ==
    /\ Len(prefix) <= Len(path)
    /\ \A i \in 1..Len(prefix) : path[i] = prefix[i]

\* Bug: the left side's recursion is looked at the wrong way round.
BugOverlapWrongWay(left, right) ==
    LET l == normalizePath(left.path)
        r == normalizePath(right.path)
    IN  \/ l = r
        \/ left.recursive /\ StartsWith(l, r)
        \/ right.recursive /\ StartsWith(l, r)

fileAccessesOverlap(left, right) ==
    LET l == normalizePath(left.path)
        r == normalizePath(right.path)
    IN  \/ l = r
        \/ left.recursive /\ StartsWith(r, l)
        \/ right.recursive /\ StartsWith(l, r)

resourceAccessesConflict(left, right) ==
    \/ left.kind = "all" \/ right.kind = "all"
    \/ /\ fileOperationsConflict(left.operation, right.operation)
       /\ fileAccessesOverlap(left, right)

conflict(left, right) ==
    \E l \in left, r \in right : resourceAccessesConflict(l, r)

---------------------------------------------------------------------------
(* The scheduler.                                                          *)

VARIABLES
    accesses,   \* [Tasks -> SUBSET Access]: what each task declares
    added,      \* the tasks add was called with
    active,     \* activeTasks
    queued      \* queuedTasks

schedulerVars == <<accesses, added, active, queued>>

SchedulerTypeOK ==
    /\ accesses \in [Tasks -> SUBSET Access]
    /\ added \in SUBSET Tasks
    /\ active \in SUBSET added
    /\ queued \in SUBSET added
    /\ active \cap queued = {}

EmptyScheduler == added = {} /\ active = {} /\ queued = {}

conflictsWithAny(task, candidates) ==
    \E c \in candidates : conflict(accesses[task], accesses[c])

\* Bug: only what runs is looked at, a waiting writer is overtaken.
BugIsBlockedByActiveOnly(task, running, queuedBefore) ==
    conflictsWithAny(task, running)

isBlocked(task, running, queuedBefore) ==
    conflictsWithAny(task, running) \/ conflictsWithAny(task, queuedBefore)

add(task) ==
    /\ task \notin added
    /\ \A other \in added : other < task
    /\ added' = added \union {task}
    /\ IF isBlocked(task, active, queued)
       THEN queued' = queued \union {task} /\ UNCHANGED active
       ELSE active' = active \union {task} /\ UNCHANGED queued
    /\ UNCHANGED accesses

\* Bug: the sweep looks at the head of the queue only.

\* The tasks a sweep of the queue starts.  The sweep visits the queue in
\* order and asks of each task whether it conflicts with what is running by
\* then or with what it has left in the queue: a task queued before this one
\* is in one of the two, whichever the sweep made of it.
Unblocked(running) ==
    {task \in queued :
        ~isBlocked(task, running, {other \in queued : other < task})}

\* Bug: the slot is freed but nobody looks at the queue.
BugFinishNoSweep(task) ==
    /\ task \in active
    /\ active' = active \ {task}
    /\ UNCHANGED <<queued, accesses, added>>

\* Bug: what the sweep starts stays in the queue.

finish(task) ==
    /\ task \in active
    /\ LET running == active \ {task}
       IN  /\ active' = running \union Unblocked(running)
           /\ queued' = queued \ Unblocked(running)
    /\ UNCHANGED <<accesses, added>>

---------------------------------------------------------------------------
SchedulerInit ==
    /\ accesses \in [Tasks -> SUBSET Access]
    /\ EmptyScheduler

\* The next batch has a scheduler of its own, which starts out empty.
newScheduler ==
    /\ added' = {} /\ active' = {} /\ queued' = {}
    /\ UNCHANGED accesses

SchedulerNext ==
    \/ \E task \in Tasks : add(task) \/ finish(task)
    \/ newScheduler

SchedulerSpec == SchedulerInit /\ [][SchedulerNext]_schedulerVars

---------------------------------------------------------------------------
(* Properties.                                                             *)

\* What a declared access reaches of a volume that does not tell case apart.
Reaches(access, file) ==
    \/ access.kind = "all"
    \/ normalizePath(access.path) = file
    \/ access.recursive /\ StartsWith(file, normalizePath(access.path))

Writes(access) == access.kind = "all" \/ fileOperationWrites(access.operation)

\* Of two tasks that run at the same time, neither may write a file the
\* other one reaches: whatever the spelling of the paths and whichever of
\* the two declared the tree above the other's file (access.ts:68-100).
NoRace ==
    \A t, u \in active : t # u =>
        \A a \in accesses[t], b \in accesses[u] :
            (Writes(a) \/ Writes(b)) =>
                \A file \in {normalizePath(a.path), normalizePath(b.path)} :
                    ~(Reaches(a, file) /\ Reaches(b, file))

\* No task waits for nothing: whatever is in the queue conflicts with a task
\* that runs or with one that waits before it.  finish is the only one to
\* look at the queue, so a task it forgets is never started (scheduler.ts:75-91).
QueuedIsBlocked ==
    \A task \in queued :
        \E other \in active \union queued :
            /\ other < task
            /\ conflict(accesses[task], accesses[other])

Unfinished == active \union queued

\* A task starts only when every task added before it that it conflicts with
\* is finished: the calls of a batch take effect on a resource in the order
\* in which the model issued them (scheduler.ts:48-50).
StartsInOrder ==
    [][\A task \in active' \ active :
         \A other \in Unfinished' \ {task} :
             other < task => ~conflict(accesses'[task], accesses'[other])]_schedulerVars
=============================================================================
