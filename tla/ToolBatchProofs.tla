-------------------------- MODULE ToolBatchProofs --------------------------
(***************************************************************************)
(* Proofs about ToolScheduler and ToolBatch, for any number of tasks, any  *)
(* names, any case fold and any declarations.                              *)
(*                                                                         *)
(* The scheduler looks at what runs and at what waits, never at numbers.   *)
(* That a task which waits is never overtaken by a later one it conflicts  *)
(* with (NotOvertaken) is what makes its invariants inductive.  What it    *)
(* guarantees holds of every batch, through its pauses, resumes and        *)
(* crashes: each step of a batch is a step of the scheduler, or none.      *)
(***************************************************************************)
EXTENDS ToolBatch, FiniteSetTheorems, TLAPS

-----------------------------------------------------------------------------
(* The scheduler *)

\* Conflict is symmetric: it does not matter which of two tasks came first
\* (access.ts:61-66).
LEMMA ConflictSymmetric ==
    ASSUME NEW left, NEW right
    PROVE  conflict(left, right) <=> conflict(right, left)
<1>1. ASSUME NEW l, NEW r
      PROVE  resourceAccessesConflict(l, r) <=> resourceAccessesConflict(r, l)
  <2>1. fileOperationsConflict(l.operation, r.operation)
            <=> fileOperationsConflict(r.operation, l.operation)
    BY DEF fileOperationsConflict
  <2>2. fileAccessesOverlap(l, r) <=> fileAccessesOverlap(r, l)
    BY Zenon DEF fileAccessesOverlap
  <2> QED BY <2>1, <2>2 DEF resourceAccessesConflict
<1> QED BY <1>1, Zenon DEF conflict

\* A path that lies under two others puts the longer of them under the
\* shorter one.
LEMMA PrefixesNest ==
    ASSUME NEW file \in Seq(Names), NEW p \in Seq(Names), NEW q \in Seq(Names),
           StartsWith(file, p), StartsWith(file, q), Len(p) <= Len(q)
    PROVE  StartsWith(q, p)
BY DEF StartsWith

\* The case fold of a path is a path.
LEMMA NormalizedIsPath ==
    ASSUME NEW path \in Paths
    PROVE  normalizePath(path) \in Seq(Names)
BY FoldAssumption DEF Paths, normalizePath

\* Two accesses that reach the same file, one of them to write it, conflict
\* (access.ts:68-100).
LEMMA MeetingAccessesConflict ==
    ASSUME NEW a \in Access, NEW b \in Access, NEW file \in Seq(Names),
           Reaches(a, file), Reaches(b, file), Writes(a) \/ Writes(b)
    PROVE  resourceAccessesConflict(a, b)
<1> DEFINE p == normalizePath(a.path)
           q == normalizePath(b.path)
<1>1. CASE a.kind = "all" \/ b.kind = "all"
  BY <1>1 DEF resourceAccessesConflict
<1>2. CASE a.kind # "all" /\ b.kind # "all"
  <2>1. fileOperationsConflict(a.operation, b.operation)
    BY <1>2 DEF Writes, fileOperationsConflict
  <2>2. p \in Seq(Names) /\ q \in Seq(Names)
    BY NormalizedIsPath DEF Access
  <2>3. p = file \/ (a.recursive /\ StartsWith(file, p))
    BY <1>2 DEF Reaches
  <2>4. q = file \/ (b.recursive /\ StartsWith(file, q))
    BY <1>2 DEF Reaches
  <2>5. fileAccessesOverlap(a, b)
    <3>1. CASE p = file \/ q = file
      <4>1. p = q \/ (a.recursive /\ StartsWith(q, p)) \/ (b.recursive /\ StartsWith(p, q))
        BY <2>3, <2>4, <3>1
      <4> QED BY <4>1, Zenon DEF fileAccessesOverlap
    <3>2. CASE p # file /\ q # file
      <4>1. Len(p) <= Len(q) \/ Len(q) <= Len(p)
        BY <2>2
      <4>2. StartsWith(q, p) \/ StartsWith(p, q)
        BY <2>2, <2>3, <2>4, <3>2, <4>1, PrefixesNest
      <4> QED BY <2>3, <2>4, <3>2, <4>2, Zenon DEF fileAccessesOverlap
    <3> QED BY <3>1, <3>2, Zenon
  <2> QED BY <2>1, <2>5 DEF resourceAccessesConflict
<1> QED BY <1>1, <1>2

---------------------------------------------------------------------------
\* What runs is free of conflicts.
ActiveAgree ==
    \A t, u \in active : t # u => ~conflict(accesses[t], accesses[u])

\* A task that waits is not overtaken by a later one it conflicts with.
NotOvertaken ==
    \A t \in queued, u \in active : t < u => ~conflict(accesses[u], accesses[t])

SchedulerInv ==
    /\ SchedulerTypeOK
    /\ ActiveAgree
    /\ NotOvertaken
    /\ QueuedIsBlocked

LEMMA InvInitially == SchedulerInit => SchedulerInv
BY DEF SchedulerInit, SchedulerInv, EmptyScheduler, SchedulerTypeOK, ActiveAgree,
       NotOvertaken, QueuedIsBlocked

\* add keeps the invariant (scheduler.ts:34-46).
LEMMA AddKeepsInv ==
    ASSUME SchedulerInv, NEW task \in Tasks, add(task)
    PROVE  SchedulerInv'
<1> USE DEF SchedulerInv, Tasks
<1>1. SchedulerTypeOK'
  BY DEF SchedulerTypeOK, add
<1>2. \A other \in active \union queued : other \in Tasks /\ other < task
  BY DEF SchedulerTypeOK, add
<1>3. CASE isBlocked(task, active, queued)
  <2>1. queued' = queued \union {task} /\ active' = active /\ accesses' = accesses
    BY <1>3 DEF add
  <2>2. ActiveAgree'
    BY <2>1 DEF ActiveAgree
  <2>3. NotOvertaken'
    BY <1>2, <2>1 DEF NotOvertaken
  <2>4. QueuedIsBlocked'
    BY <1>2, <1>3, <2>1, Zenon DEF QueuedIsBlocked, isBlocked, conflictsWithAny
  <2> QED BY <1>1, <2>2, <2>3, <2>4
<1>4. CASE ~isBlocked(task, active, queued)
  <2>1. active' = active \union {task} /\ queued' = queued /\ accesses' = accesses
    BY <1>4 DEF add
  <2>2. \A other \in active \union queued :
            /\ ~conflict(accesses[task], accesses[other])
            /\ ~conflict(accesses[other], accesses[task])
    BY <1>4, ConflictSymmetric DEF isBlocked, conflictsWithAny
  <2>3. ActiveAgree'
    BY <2>1, <2>2 DEF ActiveAgree
  <2>4. NotOvertaken'
    BY <2>1, <2>2 DEF NotOvertaken
  <2>5. QueuedIsBlocked'
    BY <2>1, Zenon DEF QueuedIsBlocked
  <2> QED BY <1>1, <2>3, <2>4, <2>5
<1> QED BY <1>3, <1>4

\* What a sweep of the queue starts, and what it leaves (scheduler.ts:81-91).
LEMMA SweepStarts ==
    ASSUME NEW running, NEW task \in queued
    PROVE  task \in Unblocked(running) <=>
             /\ \A other \in running : ~conflict(accesses[task], accesses[other])
             /\ \A other \in queued :
                    other < task => ~conflict(accesses[task], accesses[other])
BY DEF Unblocked, isBlocked, conflictsWithAny

\* finish keeps the invariant (scheduler.ts:75-79).
LEMMA FinishKeepsInv ==
    ASSUME SchedulerInv, NEW task \in Tasks, finish(task)
    PROVE  SchedulerInv'
<1> USE DEF SchedulerInv, Tasks
<1> DEFINE running == active \ {task}
           go == Unblocked(running)
<1>1. active' = running \union go /\ queued' = queued \ go /\ accesses' = accesses /\ added' = added
  BY DEF finish
<1>2. go \subseteq queued
  BY DEF Unblocked
<1>3. active \subseteq Nat /\ queued \subseteq Nat
  BY DEF SchedulerTypeOK
<1>4. \A t \in go : \A u \in running :
          ~conflict(accesses[t], accesses[u]) /\ ~conflict(accesses[u], accesses[t])
  BY <1>2, SweepStarts, ConflictSymmetric
<1>5. \A t \in go : \A u \in queued : u < t =>
          ~conflict(accesses[t], accesses[u]) /\ ~conflict(accesses[u], accesses[t])
  BY <1>2, SweepStarts, ConflictSymmetric
<1> HIDE DEF go
<1>6. SchedulerTypeOK'
  BY <1>1, <1>2 DEF SchedulerTypeOK
<1>7. ActiveAgree'
  <2> SUFFICES ASSUME NEW t \in running \union go, NEW u \in running \union go, t # u
               PROVE  ~conflict(accesses[t], accesses[u])
    BY <1>1 DEF ActiveAgree
  <2>1. CASE t \in running /\ u \in running
    BY <2>1 DEF ActiveAgree
  <2>2. CASE (t \in go /\ u \in running) \/ (t \in running /\ u \in go)
    BY <2>2, <1>4
  <2>3. CASE t \in go /\ u \in go
    <3>1. t < u \/ u < t
      BY <2>3, <1>2, <1>3
    <3> QED BY <2>3, <3>1, <1>2, <1>5
  <2> QED BY <2>1, <2>2, <2>3, Zenon
<1>8. NotOvertaken'
  <2> SUFFICES ASSUME NEW t \in queued \ go, NEW u \in running \union go, t < u
               PROVE  ~conflict(accesses[u], accesses[t])
    BY <1>1 DEF NotOvertaken
  <2>1. CASE u \in running
    BY <2>1 DEF NotOvertaken
  <2>2. CASE u \in go
    BY <2>2, <1>5
  <2> QED BY <2>1, <2>2
<1>9. QueuedIsBlocked'
  <2> SUFFICES ASSUME NEW t \in queued \ go
               PROVE  \E other \in (running \union go) \union (queued \ go) :
                          other < t /\ conflict(accesses[t], accesses[other])
    BY <1>1, Zenon DEF QueuedIsBlocked
  <2>1. \/ \E other \in running : conflict(accesses[t], accesses[other])
        \/ \E other \in queued : other < t /\ conflict(accesses[t], accesses[other])
    BY SweepStarts DEF go
  <2>2. CASE \E other \in running : conflict(accesses[t], accesses[other])
    <3>1. PICK other \in running : conflict(accesses[t], accesses[other])
      BY <2>2
    <3>2. ~(t < other)
      BY <3>1, ConflictSymmetric DEF NotOvertaken
    <3>3. t # other
      BY DEF SchedulerTypeOK
    <3>4. other < t
      BY <3>2, <3>3, <1>3
    <3> QED BY <3>1, <3>4
  <2>3. CASE \E other \in queued : other < t /\ conflict(accesses[t], accesses[other])
    BY <2>3
  <2> QED BY <2>1, <2>2, <2>3
<1> QED BY <1>6, <1>7, <1>8, <1>9

LEMMA StepKeepsInv ==
    SchedulerInv /\ [SchedulerNext]_schedulerVars => SchedulerInv'
<1> SUFFICES ASSUME SchedulerInv, [SchedulerNext]_schedulerVars
             PROVE  SchedulerInv'
  OBVIOUS
<1>1. CASE \E task \in Tasks : add(task) \/ finish(task)
  BY <1>1, AddKeepsInv, FinishKeepsInv
<1>3. CASE newScheduler
  BY <1>3 DEF newScheduler, SchedulerInv, SchedulerTypeOK, ActiveAgree, NotOvertaken,
              QueuedIsBlocked
<1>2. CASE UNCHANGED schedulerVars
  BY <1>2, Zenon DEF schedulerVars, SchedulerInv, SchedulerTypeOK, ActiveAgree, NotOvertaken,
              QueuedIsBlocked
<1> QED BY <1>1, <1>2, <1>3 DEF SchedulerNext

LEMMA SchedulerInvariant == SchedulerSpec => []SchedulerInv
BY InvInitially, StepKeepsInv, PTL DEF SchedulerSpec

---------------------------------------------------------------------------
\* Type correctness of the scheduler (scheduler.ts:30-33).
THEOREM SchedulerTypeCorrect == SchedulerSpec => []SchedulerTypeOK
<1>1. SchedulerInv => SchedulerTypeOK
  BY DEF SchedulerInv
<1> QED BY <1>1, SchedulerInvariant, PTL

\* No task the scheduler runs writes a file another running task reaches
\* (access.ts:68-100, scheduler.ts:48-54).
THEOREM SchedulerHasNoRace == SchedulerSpec => []NoRace
<1>1. SchedulerInv => NoRace
  <2> SUFFICES ASSUME SchedulerInv, NEW t \in active, NEW u \in active, t # u,
                      NEW a \in accesses[t], NEW b \in accesses[u],
                      Writes(a) \/ Writes(b),
                      NEW file \in {normalizePath(a.path), normalizePath(b.path)},
                      Reaches(a, file), Reaches(b, file)
               PROVE  FALSE
    BY Zenon DEF NoRace
  <2>1. a \in Access /\ b \in Access
    BY DEF SchedulerInv, SchedulerTypeOK
  <2>2. file \in Seq(Names)
    BY <2>1, NormalizedIsPath DEF Access
  <2>3. resourceAccessesConflict(a, b)
    BY <2>1, <2>2, MeetingAccessesConflict
  <2> QED BY <2>3, Zenon DEF SchedulerInv, ActiveAgree, conflict
<1> QED BY <1>1, SchedulerInvariant, PTL

\* Nothing waits for nothing (scheduler.ts:75-91).
THEOREM NothingIsForgotten == SchedulerSpec => []QueuedIsBlocked
<1>1. SchedulerInv => QueuedIsBlocked
  BY DEF SchedulerInv
<1> QED BY <1>1, SchedulerInvariant, PTL

\* Tasks that conflict start in the order in which they were added, each
\* after the one before it is finished (scheduler.ts:48-50).
THEOREM ConflictsKeepOrder == SchedulerSpec => StartsInOrder
<1> DEFINE Ordered ==
      \A task \in active' \ active :
         \A other \in Unfinished' \ {task} :
             other < task => ~conflict(accesses'[task], accesses'[other])
<1>1. ASSUME SchedulerInv, NEW t \in Tasks, add(t)  PROVE Ordered
  BY <1>1 DEF add, isBlocked, conflictsWithAny, Unfinished, SchedulerInv
<1>2. ASSUME SchedulerInv, NEW t \in Tasks, finish(t)  PROVE Ordered
  <2> DEFINE running == active \ {t}
             go == Unblocked(running)
  <2>1. active' = running \union go /\ queued' = queued \ go /\ accesses' = accesses
    BY <1>2 DEF finish
  <2>2. go \subseteq queued
    BY DEF Unblocked
  <2>3. SUFFICES ASSUME NEW task \in go,
                        NEW other \in running \union queued, other < task
                 PROVE  ~conflict(accesses[task], accesses[other])
    BY <2>1, <2>2 DEF Unfinished
  <2> QED BY <2>2, <2>3, SweepStarts
<1>3. ASSUME newScheduler PROVE Ordered
  BY <1>3 DEF newScheduler
<1>4. SchedulerInv /\ [SchedulerNext]_schedulerVars => [Ordered]_schedulerVars
  BY <1>1, <1>2, <1>3, Zenon DEF SchedulerNext
<1> QED BY <1>4, SchedulerInvariant, PTL DEF SchedulerSpec, StartsInOrder

-----------------------------------------------------------------------------
(* The batch *)

\* The calls of a batch are tasks of the scheduler (tool-call.ts:123-133).
LEMMA CallsAreTasks == ASSUME scene \in Scenes PROVE Calls \subseteq Tasks
BY ScenesAssumption, NumTasksAssumption DEF Calls, Tasks

SceneOK == scene \in Scenes

\* Every step of a batch is one of its scheduler, or none (tool-call.ts:121-134).
LEMMA BatchStepIsSchedulerStep ==
    SceneOK /\ [Next]_vars => [SchedulerNext]_schedulerVars /\ SceneOK'
<1> SUFFICES ASSUME scene \in Scenes, [Next]_vars
             PROVE  [SchedulerNext]_schedulerVars /\ scene' \in Scenes
  BY DEF SceneOK
<1> DEFINE Idle == UNCHANGED schedulerVars /\ UNCHANGED scene
           Moves == SchedulerNext /\ UNCHANGED scene
<1>1. ASSUME NEW call \in Calls,
             prepareCall(call) \/ LateSettle(call)
      PROVE  Idle
  BY <1>1 DEF prepareCall, LateSettle, schedulerVars, roundVars
<1>2. ASSUME NEW call \in Calls,
             ToolSettles(call) \/ ToolSuspends(call) \/ GraceTimeout(call)
      PROVE  Moves
  BY <1>2, CallsAreTasks DEF ToolSettles, ToolSuspends, GraceTimeout, Leave, SchedulerNext
<1>3. ASSUME Schedule
      PROVE  Idle \/ Moves
  <2>1. UNCHANGED scene
    BY <1>3 DEF Schedule
  <2>2. CASE HoldBatch \/ AllScheduled
    BY <2>1, <2>2 DEF HoldBatch, AllScheduled, schedulerVars
  <2>3. CASE \E call \in Calls : ScheduleCall(call)
    BY <2>1, <2>3, CallsAreTasks DEF ScheduleCall, SchedulerNext
  <2> QED BY <1>3, <2>2, <2>3 DEF Schedule
<1>4. ASSUME BatchEnds \/ Journal \/ Abort \/ AskAborted \/ pauseRun \/ Finish \/ Reads \/ RunThrows
      PROVE  Idle
  BY <1>4 DEF BatchEnds, Journal, Abort, AskAborted, pauseRun, Finish, Reads, RunThrows,
              schedulerVars, roundVars
<1>5. ASSUME LiveAnswers \/ (\E copy \in copies : resume(copy)) \/ Crash
      PROVE  Moves
  BY <1>5 DEF LiveAnswers, resume, Crash, BeginRound, SchedulerNext
<1>6. ASSUME UNCHANGED vars
      PROVE  Idle
  BY <1>6 DEF vars, roundVars, schedulerVars
<1> HIDE DEF Idle, Moves
<1>7. Idle \/ Moves
  BY <1>1, <1>2, <1>3, <1>4, <1>5, <1>6, Zenon DEF Next
<1> QED BY <1>7 DEF Idle, Moves

\* A batch is, as far as its scheduler goes, a behaviour of ToolScheduler
\* (tool-call.ts:121-134).
THEOREM BatchImplementsScheduler == Spec => SchedulerSpec
<1>1. Init => SchedulerInit /\ SceneOK
  BY ScenesAssumption DEF Init, SchedulerInit, SceneOK
<1>2. SceneOK /\ [Next]_vars => [SchedulerNext]_schedulerVars
  BY BatchStepIsSchedulerStep
<1>3. SceneOK /\ [Next]_vars => SceneOK'
  BY BatchStepIsSchedulerStep
<1> QED BY <1>1, <1>2, <1>3, PTL DEF Spec, SchedulerSpec

\* No two tools of a batch that the framework considers running are at the
\* same file, one of them to write it (access.ts:68-100, scheduler.ts:48-54).
THEOREM BatchHasNoRace == Spec => []NoRace
BY BatchImplementsScheduler, SchedulerHasNoRace, PTL

\* No call of a batch waits for nothing (scheduler.ts:75-91).
THEOREM NoCallIsForgotten == Spec => []QueuedIsBlocked
BY BatchImplementsScheduler, NothingIsForgotten, PTL

\* Calls that conflict run in the order of the model (scheduler.ts:48-50).
THEOREM CallsKeepOrder == Spec => StartsInOrder
BY BatchImplementsScheduler, ConflictsKeepOrder, PTL
---------------------------------------------------------------------------
(* What a batch does across its pauses.                                    *)

\* A finite set of integers has an increasing enumeration: each member has its
\* own rank, so every rank is somebody's (tool-call.ts:157-176).
LEMMA Enumerated ==
    ASSUME NEW S \in SUBSET Int, IsFiniteSet(S)
    PROVE  \E f \in [1..Cardinality(S) -> S] :
              \A i, j \in DOMAIN f : i < j => f[i] < f[j]
<1> DEFINE n == Cardinality(S)
           upTo(c) == {d \in S : d <= c}
           rank == [c \in S |-> Cardinality(upTo(c))]
<1>1. n \in Nat
  BY FS_CardinalityType
<1>2. ASSUME NEW c \in S
      PROVE  rank[c] \in 1..n
  <2>1. IsFiniteSet(upTo(c)) /\ Cardinality(upTo(c)) <= n
    BY FS_Subset
  <2>2. Cardinality(upTo(c)) \in Nat
    BY <2>1, FS_CardinalityType
  <2>3. Cardinality(upTo(c)) # 0
    <3>1. c \in upTo(c)
      OBVIOUS
    <3> QED BY <2>1, <3>1, FS_EmptySet
  <2> QED BY <1>1, <2>1, <2>2, <2>3
<1>3. ASSUME NEW c \in S, NEW d \in S, c < d
      PROVE  rank[c] < rank[d]
  <2>0. c \in Int /\ d \in Int /\ \A e \in S : e \in Int
    OBVIOUS
  <2>a. upTo(c) \in SUBSET upTo(d)
    <3> SUFFICES ASSUME NEW e \in S, e <= c
                 PROVE  e <= d
      OBVIOUS
    <3>1. e \in Int /\ c \in Int /\ d \in Int
      BY <2>0
    <3> QED BY <1>3, <3>1
  <2>b. IsFiniteSet(upTo(d))
    BY FS_Subset
  <2>1. IsFiniteSet(upTo(d)) /\ upTo(c) \in SUBSET upTo(d)
    BY <2>a, <2>b
  <2>2. upTo(c) # upTo(d)
    BY <1>3
  <2>3. Cardinality(upTo(c)) <= Cardinality(upTo(d)) /\ Cardinality(upTo(c)) # Cardinality(upTo(d))
    BY <2>1, <2>2, FS_Subset
  <2> QED BY <1>2, <2>3
<1> HIDE DEF rank
<1>4. rank \in Injection(S, 1..n)
  <2>1. rank \in [S -> 1..n]
    BY <1>2 DEF rank
  <2>2. ASSUME NEW c \in S, NEW d \in S, rank[c] = rank[d]
        PROVE  c = d
    BY <1>2, <1>3, <2>2
  <2> QED BY <2>1, <2>2 DEF Injection, IsInjective
<1>5. rank \in Surjection(S, 1..n)
  <2>1. IsFiniteSet(1..n) /\ Cardinality(1..n) = n
    BY <1>1, FS_Interval
  <2> QED BY <1>4, <2>1, FS_Injection
<1>6. \A i \in 1..n : \E c \in S : rank[c] = i
  BY <1>5 DEF Surjection
<1> DEFINE f == [i \in 1..n |-> CHOOSE c \in S : rank[c] = i]
<1>7. \A i \in 1..n : f[i] \in S /\ rank[f[i]] = i
  BY <1>6
<1> HIDE DEF f
<1>8. f \in [1..n -> S]
  BY <1>7 DEF f
<1>9. ASSUME NEW i \in 1..n, NEW j \in 1..n, i < j
      PROVE  f[i] < f[j]
  <2>1. f[i] \in S /\ f[j] \in S /\ rank[f[i]] = i /\ rank[f[j]] = j
    BY <1>7
  <2>2. CASE f[j] < f[i]
    <3>1. rank[f[j]] < rank[f[i]]
      BY <1>3, <2>1, <2>2
    <3>2. j < i
      BY <2>1, <3>1
    <3>3. i \in Int /\ j \in Int
      BY <1>1
    <3> QED BY <1>9, <3>2, <3>3
  <2>3. CASE f[i] = f[j]
    BY <1>1, <1>9, <2>1, <2>3
  <2>4. f[i] \in Int /\ f[j] \in Int
    BY <2>1
  <2> QED BY <2>2, <2>3, <2>4
<1> QED BY <1>8, <1>9

\* The results of a round list each call that has one once
\* (tool-call.ts:157-176).
LEMMA ResultsOfRound ==
    ASSUME scene \in Scenes
    PROVE  /\ RoundResults \in Seq(Tasks)
           /\ IsInjective(RoundResults)
           /\ {RoundResults[i] : i \in 1..Len(RoundResults)} = Resulted
<1> DEFINE n == Cardinality(Resulted)
<1>1. Resulted \subseteq Tasks /\ Resulted \in SUBSET Int /\ IsFiniteSet(Resulted)
  <2>1. IsFiniteSet(Tasks) /\ Tasks \subseteq Int
    BY NumTasksAssumption, FS_Interval DEF Tasks
  <2>2. Resulted \subseteq Tasks
    BY CallsAreTasks DEF Resulted
  <2> QED BY <2>1, <2>2, FS_Subset
<1>2. n \in Nat
  BY <1>1, FS_CardinalityType
<1> HIDE DEF n
<1>3. /\ RoundResults \in [1..n -> Resulted]
      /\ \A i, j \in DOMAIN RoundResults : i < j => RoundResults[i] < RoundResults[j]
  BY <1>1, Enumerated DEF RoundResults, n
<1>4. RoundResults \in Seq(Tasks) /\ Len(RoundResults) = n
  <2>1. RoundResults \in [1..n -> Tasks]
    BY <1>1, <1>3
  <2> HIDE DEF RoundResults
  <2> QED BY <1>2, <2>1
<1>5. IsInjective(RoundResults)
  <2> SUFFICES ASSUME NEW i \in 1..n, NEW j \in 1..n, RoundResults[i] = RoundResults[j], i # j
               PROVE  FALSE
    BY <1>3 DEF IsInjective
  <2>1. RoundResults[i] \in Int
    BY <1>1, <1>3
  <2> QED BY <1>2, <1>3, <2>1
<1>6. RoundResults \in Surjection(1..n, Resulted)
  <2>1. RoundResults \in Injection(1..n, Resulted)
    BY <1>3, <1>5 DEF Injection
  <2>2. Cardinality(1..n) = n
    BY <1>2, FS_Interval
  <2> QED BY <1>1, <2>1, <2>2, FS_Injection DEF n
<1>7. \A call \in Resulted : \E i \in 1..n : RoundResults[i] = call
  BY <1>6 DEF Surjection
<1> QED BY <1>2, <1>3, <1>4, <1>5, <1>7
---------------------------------------------------------------------------
(* The invariant of a batch, in parts.                                     *)

\* The phases of a run that holds the answers in memory.
InHand == {"preparing", "running", "asking", "pausing"}

\* A round is made of the calls without a result, what is handed to the
\* scheduler is to be run, and a round that runs has nothing to wait for.
RoundOK ==
    /\ added \subseteq Runnable
    /\ phase = "preparing" => added \subseteq Unfinished
    /\ phase = "running" => ToPrepare = {} /\ ~Held /\ Runnable \subseteq added
    /\ phase \in {"preparing", "running"} =>
          \A call \in Calls : prepared[call] = "absent" <=> call \in ToSet(log)

\* While a round runs, whoever has no outcome yet is in the scheduler.
OutcomesOK ==
    phase = "running" =>
        \A call \in Calls :
            /\ prepared[call] = "result" => outcome[call] = "result"
            /\ prepared[call] = "repark" => outcome[call] = "input"
            /\ call \in Runnable => call \in Unfinished \/ outcome[call] # "none"
            /\ outcome[call] # "none" => prepared[call] # "absent"

\* The log lists calls, each once, and all of them when the batch has ended.
LogOK ==
    /\ ToSet(log) \subseteq Calls
    /\ AnsweredOnce

\* What the user decided is in the run's answers, or in the store when there
\* is no run, and the round was prepared by it.
DecisionsOK ==
    /\ phase \in InHand =>
          /\ decided = answers
          /\ \A call \in Runnable : answers[call] # "rejected"
          /\ \A call \in Interrupted : answers[call] = "none"
    /\ phase \in {"paused", "failed", "dead"} => decided = kept.decisions
    /\ DecisionsAreReplayed

\* No copy of the interruption is newer than the store's, one that is as new
\* is the store's, and those that were resumed are older.
CopiesOK ==
    /\ kept # NothingKept =>
          /\ \A copy \in copies :
                /\ copy.revision <= kept.revision
                /\ copy.revision = kept.revision => copy = kept
          /\ \A revision \in taken : revision < kept.revision
    /\ kept = NothingKept /\ phase \notin {"ended", "aborted", "dead"} =>
          copies = {} /\ taken = {}

\* Each resume took a revision of its own.
TakenOK ==
    /\ taken \in SUBSET Nat
    /\ IsFiniteSet(taken)
    /\ ResumedOnce

\* What was complete when a frame was published is on disk.
SettledOK == settled \subseteq {log[i] : i \in 1..flushed}

BatchInv ==
    /\ SceneOK /\ SchedulerInv /\ BatchTypeOK
    /\ RoundOK /\ OutcomesOK /\ LogOK
    /\ DecisionsOK /\ CopiesOK /\ TakenOK /\ SettledOK

Answer == {"none", "approved", "rejected"}

\* What a resume makes of the copy it was given (runner.ts:384-406).
LEMMA ResumeTakes ==
    ASSUME BatchTypeOK, SceneOK, NEW copy \in copies, resume(copy)
    PROVE  /\ kept' \in InterruptionType
           /\ kept'.revision = copy.revision + 1
           /\ kept'.phase = "resuming"
           /\ answers' = kept'.decisions
           /\ due' \in SUBSET Tasks
           /\ decided = copy.decisions => decided' = answers'
           /\ frame' \in [pending : [Tasks -> Pending], inputs : SUBSET Tasks]
           /\ frame'.pending = kept'.pending /\ frame'.inputs = kept'.inputs
           /\ kept'.pending = copy.pending /\ copy.inputs \subseteq kept'.inputs
           /\ \A call \in due' \ due : call \in Calls /\ copy.pending[call] = "input" /\ call \in kept'.inputs
           /\ \A call \in Tasks : copy.decisions[call] # "none" =>
                 /\ kept'.decisions[call] # "none"
                 /\ copy.pending[call] # "approval" => kept'.decisions[call] = copy.decisions[call]
           /\ \A call \in Tasks : kept'.decisions[call] # "none" =>
                 copy.decisions[call] # "none" \/ copy.pending[call] = "approval"
<1>1. PICK inputs \in SUBSET {call \in Calls : copy.pending[call] = "input"},
           approvals \in SUBSET {call \in Calls : copy.pending[call] = "approval"} :
         \E decision \in [approvals -> {"approved", "rejected"}] :
           /\ kept' = [copy EXCEPT
                !.phase = "resuming", !.revision = @ + 1,
                !.inputs = @ \union inputs,
                !.decisions = [call \in Tasks |->
                    IF call \in approvals THEN decision[call] ELSE @[call]]]
           /\ due' = due \union inputs
           /\ decided' = [call \in Tasks |->
                IF call \in approvals THEN decision[call] ELSE decided[call]]
  BY DEF resume
<1>2. PICK decision \in [approvals -> {"approved", "rejected"}] :
           /\ kept' = [copy EXCEPT
                !.phase = "resuming", !.revision = @ + 1,
                !.inputs = @ \union inputs,
                !.decisions = [call \in Tasks |->
                    IF call \in approvals THEN decision[call] ELSE @[call]]]
           /\ due' = due \union inputs
           /\ decided' = [call \in Tasks |->
                IF call \in approvals THEN decision[call] ELSE decided[call]]
  BY <1>1
<1>3. copy \in InterruptionType /\ Calls \subseteq Tasks /\ due \subseteq Tasks
  BY CallsAreTasks DEF BatchTypeOK, SceneOK
<1>4. inputs \subseteq Tasks /\ approvals \subseteq Tasks
  BY <1>3
<1> DEFINE given == [call \in Tasks |->
                       IF call \in approvals THEN decision[call] ELSE copy.decisions[call]]
<1>5. /\ kept'.revision = copy.revision + 1
      /\ kept'.phase = "resuming"
      /\ kept'.pending = copy.pending
      /\ kept'.inputs = copy.inputs \union inputs
      /\ kept'.decisions = given
      /\ kept' = [revision |-> kept'.revision, phase |-> kept'.phase, pending |-> kept'.pending,
                  decisions |-> kept'.decisions, inputs |-> kept'.inputs]
  BY <1>2, <1>3 DEF InterruptionType
<1>6. given \in [Tasks -> Answer]
  BY <1>3, <1>4 DEF InterruptionType, Answer
<1>7. kept' \in InterruptionType
  BY <1>3, <1>4, <1>5, <1>6 DEF InterruptionType, Answer
<1>8. answers' = kept'.decisions /\ frame' = [pending |-> kept'.pending, inputs |-> kept'.inputs]
  BY DEF resume
<1>9. \A call \in Tasks : copy.decisions[call] # "none" =>
         /\ given[call] # "none"
         /\ copy.pending[call] # "approval" => given[call] = copy.decisions[call]
  <2> SUFFICES ASSUME NEW call \in Tasks, copy.decisions[call] # "none"
               PROVE  /\ given[call] # "none"
                      /\ copy.pending[call] # "approval" => given[call] = copy.decisions[call]
    OBVIOUS
  <2>1. given[call] = IF call \in approvals THEN decision[call] ELSE copy.decisions[call]
    OBVIOUS
  <2>2. call \in approvals => decision[call] # "none" /\ copy.pending[call] = "approval"
    OBVIOUS
  <2> QED BY <2>1, <2>2
<1>a. \A call \in Tasks : given[call] # "none" =>
         copy.decisions[call] # "none" \/ copy.pending[call] = "approval"
  OBVIOUS
<1>10. \A call \in due' \ due : call \in Calls /\ copy.pending[call] = "input" /\ call \in kept'.inputs
  BY <1>2, <1>5
<1> HIDE DEF given
<1>11. decided = copy.decisions => decided' = answers'
  BY <1>2, <1>5, <1>8 DEF given
<1> QED BY <1>2, <1>3, <1>4, <1>5, <1>7, <1>8, <1>9, <1>a, <1>10, <1>11 DEF InterruptionType

\* prepareCall decides what a call is to be from the answers, the verdict and
\* the frame (tool-call.ts:80-134).
LEMMA Prepares ==
    ASSUME BatchTypeOK, SceneOK, NEW call \in Calls, prepareCall(call)
    PROVE  \E kind \in PreparedKinds \ {"todo", "absent"} :
              /\ prepared' = [prepared EXCEPT ![call] = kind]
              /\ kind \in {"fresh", "resumed"} => answers[call] # "rejected"
              /\ kind = "interrupt" => answers[call] = "none"
              /\ kind = "repark" <=> frame.pending[call] = "input" /\ call \notin frame.inputs
              /\ kind = "fresh" => frame.pending[call] # "input"
<1>1. call \in Tasks
  BY CallsAreTasks DEF SceneOK
<1>2. PICK verdict \in scene.verdicts[call] :
         prepared' = [prepared EXCEPT ![call] = PreparedAs(call, verdict)]
  BY DEF prepareCall
<1>3. verdict \in {"allow", "deny", "ask", "block"}
  <2>1. scene.verdicts \in [Tasks -> SUBSET {"allow", "deny", "ask", "block"}]
    BY ScenesAssumption DEF SceneOK
  <2> QED BY <1>1, <2>1
<1>4. answers[call] \in Answer
  BY <1>1 DEF BatchTypeOK, Answer
<1>5. /\ Authorize(call, verdict) \in {"run", "result", "interrupt"}
      /\ Authorize(call, verdict) = "run" => answers[call] # "rejected"
      /\ Authorize(call, verdict) = "interrupt" => answers[call] = "none"
  BY <1>3, <1>4 DEF Authorize, Answer
<1> HIDE DEF Authorize
<1>6. /\ PreparedAs(call, verdict) \in PreparedKinds \ {"todo", "absent"}
      /\ PreparedAs(call, verdict) \in {"fresh", "resumed"} => answers[call] # "rejected"
      /\ PreparedAs(call, verdict) = "interrupt" => answers[call] = "none"
      /\ PreparedAs(call, verdict) = "repark" <=> frame.pending[call] = "input" /\ call \notin frame.inputs
      /\ PreparedAs(call, verdict) = "fresh" => frame.pending[call] # "input"
  BY <1>5 DEF PreparedAs, PreparedKinds
<1> QED BY <1>2, <1>6

\* A prefix of a sequence is a sequence (context.ts, the journaled part).
LEMMA PrefixOfShard ==
    ASSUME NEW S, NEW s \in Seq(S), NEW n \in 0..Len(s)
    PROVE  /\ SubSeq(s, 1, n) \in Seq(S)
           /\ Len(SubSeq(s, 1, n)) = n
           /\ \A i \in 1..n : SubSeq(s, 1, n)[i] = s[i]
OBVIOUS

\* A new round has a kind and no outcome for every call (tool-call.ts:80-104).
LEMMA RoundBegins ==
    ASSUME BeginRound(log)
    PROVE  /\ prepared' = [call \in Tasks |->
                             IF call \in Calls /\ call \notin ToSet(log) THEN "todo" ELSE "absent"]
           /\ outcome' = [call \in Tasks |-> "none"]
           /\ added' = {} /\ active' = {} /\ queued' = {}
BY DEF BeginRound, InRound, completedToolCallIds, newScheduler

\* The pending list of a round names what each call waits for
\* (tool-call.ts:105-112, 178-190).
LEMMA PendingTyped == RoundPending \in [Tasks -> Pending]
BY DEF RoundPending, HeldPending, Pending

\* The local and stored state of a batch keeps its types.
LEMMA TypesKept ==
    ASSUME SceneOK, BatchTypeOK, SchedulerTypeOK', [Next]_vars
    PROVE  BatchTypeOK'
<1> USE DEF BatchTypeOK
<1>0. Calls \subseteq Tasks
  BY CallsAreTasks DEF SceneOK
<1>1. ASSUME NEW call \in Calls, prepareCall(call)
      PROVE  BatchTypeOK'
  <2>1. PICK kind \in PreparedKinds : prepared' = [prepared EXCEPT ![call] = kind]
    BY <1>1, Prepares
  <2>2. prepared' \in [Tasks -> PreparedKinds]
    BY <2>1
  <2> QED BY <1>1, <2>2 DEF prepareCall, storeVars, historyVars
<1>2. ASSUME NEW call \in Calls, ToolSettles(call) \/ ToolSuspends(call) \/ GraceTimeout(call)
      PROVE  BatchTypeOK'
  <2>1. \E how \in {"result", "input"} : Leave(call, how)
    BY <1>2 DEF ToolSettles, ToolSuspends, GraceTimeout
  <2>2. outcome' \in [Tasks -> {"none", "result", "input"}]
    BY <2>1 DEF Leave
  <2>3. executing' \subseteq executing \union Started /\ Started \subseteq Tasks
    BY <1>2 DEF ToolSettles, ToolSuspends, GraceTimeout, Started, SchedulerTypeOK
  <2> QED BY <2>1, <2>2, <2>3 DEF Leave, storeVars
<1>3. ASSUME NEW call \in Calls, LateSettle(call)
      PROVE  BatchTypeOK'
  BY <1>3 DEF LateSettle, storeVars, historyVars
<1>4. ASSUME Schedule
      PROVE  BatchTypeOK'
  <2>1. phase' \in Phases
    BY <1>4 DEF Schedule, HoldBatch, AllScheduled, ScheduleCall, PauseOrAsk, Phases
  <2>2. outcome' \in [Tasks -> {"none", "result", "input"}]
    BY <1>4 DEF Schedule, HoldBatch, AllScheduled, ScheduleCall
  <2>3. executing' \subseteq executing \union Started /\ Started \subseteq Tasks
    BY <1>4 DEF Schedule, HoldBatch, AllScheduled, ScheduleCall, Started, SchedulerTypeOK
  <2> QED BY <1>4, <2>1, <2>2, <2>3 DEF Schedule, storeVars
<1>5. ASSUME BatchEnds
      PROVE  BatchTypeOK'
  <2>1. log' \in Seq(Tasks) /\ Len(log) <= Len(log') /\ Len(log') \in Nat
    BY <1>5, ResultsOfRound DEF BatchEnds, SceneOK
  <2>2. phase' \in Phases
    BY <1>5 DEF BatchEnds, Phases
  <2> QED BY <1>5, <2>1, <2>2 DEF BatchEnds, storeVars, historyVars
<1>6. ASSUME Journal \/ Abort \/ AskAborted
      PROVE  BatchTypeOK'
  <2>1. flushed' \in 0..Len(log) /\ log' = log
    BY <1>6 DEF Journal, Abort, AskAborted
  <2>2. phase' \in Phases /\ aborted' \in BOOLEAN
    BY <1>6 DEF Journal, Abort, AskAborted, Phases
  <2> QED BY <1>6, <2>1, <2>2 DEF Journal, Abort, AskAborted, storeVars, historyVars, roundVars
<1>7. ASSUME LiveAnswers
      PROVE  BatchTypeOK'
  <2>1. PICK decision \in [Interrupted -> {"approved", "rejected"}] :
           answers' = [call \in Tasks |->
                         IF call \in Interrupted THEN decision[call] ELSE answers[call]]
    BY <1>7 DEF LiveAnswers
  <2>2. answers' \in [Tasks -> Answer]
    BY <2>1 DEF Answer
  <2>3. BeginRound(log)
    BY <1>7 DEF LiveAnswers
  <2>4. prepared' \in [Tasks -> PreparedKinds] /\ outcome' \in [Tasks -> {"none", "result", "input"}]
    BY <2>3, RoundBegins DEF PreparedKinds
  <2> QED BY <1>7, <2>2, <2>4 DEF LiveAnswers, Answer, Phases, storeVars
<1>8. ASSUME pauseRun
      PROVE  BatchTypeOK'
  <2>1. Reify(RoundPending) \in InterruptionType
    BY PendingTyped DEF Reify, InterruptionType
  <2> QED BY <1>8, <2>1 DEF pauseRun, Phases, roundVars
<1>9. ASSUME Finish \/ Reads
      PROVE  BatchTypeOK'
  <2>1. NothingKept \in InterruptionType
    BY DEF NothingKept, InterruptionType, NoPending, NoAnswers, Pending
  <2> QED BY <1>9, <2>1 DEF Finish, Reads, roundVars, historyVars
<1>10. ASSUME NEW copy \in copies, resume(copy)
       PROVE  BatchTypeOK'
  <2>1. kept' \in InterruptionType /\ due' \in SUBSET Tasks /\ answers' = kept'.decisions
        /\ frame' \in [pending : [Tasks -> Pending], inputs : SUBSET Tasks]
    BY <1>10, ResumeTakes
  <2>2. answers' \in [Tasks -> {"none", "approved", "rejected"}]
    BY <2>1 DEF InterruptionType
  <2>3. BeginRound(log)
    BY <1>10 DEF resume
  <2>4. prepared' \in [Tasks -> PreparedKinds] /\ outcome' \in [Tasks -> {"none", "result", "input"}]
    BY <2>3, RoundBegins DEF PreparedKinds
  <2> QED BY <1>10, <2>1, <2>2, <2>4 DEF resume, Phases
<1>11. ASSUME RunThrows
       PROVE  BatchTypeOK'
  <2>1. CASE kept.phase = "resuming"
    <3>1. kept' = [kept EXCEPT !.phase = "recovery_required", !.revision = @ + 1]
      BY <1>11, <2>1 DEF RunThrows
    <3>2. /\ kept'.revision = kept.revision + 1 /\ kept'.phase = "recovery_required"
          /\ kept'.pending = kept.pending /\ kept'.decisions = kept.decisions
          /\ kept'.inputs = kept.inputs
          /\ kept' = [revision |-> kept'.revision, phase |-> kept'.phase, pending |-> kept'.pending,
                      decisions |-> kept'.decisions, inputs |-> kept'.inputs]
      BY <3>1 DEF InterruptionType
    <3>3. kept' \in InterruptionType
      BY <3>2 DEF InterruptionType
    <3> QED BY <1>11, <3>3 DEF RunThrows, Phases, roundVars
  <2>2. CASE kept.phase # "resuming"
    BY <1>11, <2>2 DEF RunThrows, Phases, roundVars
  <2> QED BY <2>1, <2>2
<1>12. ASSUME Crash
       PROVE  BatchTypeOK'
  <2>1. log' \in Seq(Tasks) /\ flushed' \in 0..Len(log')
    BY <1>12, PrefixOfShard DEF Crash
  <2> QED BY <1>12, <2>1 DEF Crash, Phases, storeVars
<1>13. ASSUME UNCHANGED vars
       PROVE  BatchTypeOK'
  BY <1>13 DEF vars, roundVars, storeVars, historyVars
<1> QED BY <1>1, <1>2, <1>3, <1>4, <1>5, <1>6, <1>7, <1>8, <1>9, <1>10, <1>11, <1>12, <1>13,
           Zenon DEF Next

\* The scene of a batch never changes.
LEMMA SceneStays == ASSUME [Next]_vars PROVE scene' = scene /\ Calls' = Calls
<1>1. scene' = scene
  BY DEF Next, vars, prepareCall, ToolSettles, ToolSuspends, GraceTimeout, Leave, LateSettle,
         Schedule, BatchEnds, Journal, Abort, LiveAnswers, AskAborted, pauseRun, Finish,
         Reads, resume, RunThrows, Crash
<1> QED BY <1>1 DEF Calls

\* The steps that neither prepare, hand over nor begin anything.
LEMMA RoundLeftAlone ==
    ASSUME RoundOK, OutcomesOK, Calls' = Calls,
           UNCHANGED <<prepared, outcome, added, active, queued>>,
           \/ phase' = phase /\ log' = log
           \/ phase' \notin {"preparing", "running"}
    PROVE  RoundOK' /\ OutcomesOK'
<1>1. Runnable' = Runnable /\ ToPrepare' = ToPrepare /\ (Held' <=> Held) /\ Unfinished' = Unfinished
  BY DEF Runnable, ToPrepare, Held, Interrupted, Unfinished
<1> HIDE DEF Runnable, ToPrepare, Held, Unfinished
<1> QED BY <1>1 DEF RoundOK, OutcomesOK

\* A round begins with nothing prepared and an empty scheduler.
LEMMA RoundStartsOK ==
    ASSUME BeginRound(log), log' = log, phase' = "preparing", Calls' = Calls, Calls \subseteq Tasks
    PROVE  RoundOK' /\ OutcomesOK'
BY RoundBegins DEF RoundOK, OutcomesOK, Runnable

\* Rounds go on as RoundOK and OutcomesOK say (tool-call.ts:80-190).
LEMMA RoundKept ==
    ASSUME SceneOK, BatchTypeOK, RoundOK, OutcomesOK, [Next]_vars
    PROVE  RoundOK' /\ OutcomesOK'
<1>0. Calls \subseteq Tasks /\ Calls' = Calls
  BY CallsAreTasks, SceneStays DEF SceneOK
<1>1. ASSUME NEW call \in Calls, prepareCall(call)
      PROVE  RoundOK' /\ OutcomesOK'
  <2>1. PICK kind \in PreparedKinds \ {"todo", "absent"} : prepared' = [prepared EXCEPT ![call] = kind]
    BY <1>1, Prepares
  <2>2. prepared \in [Tasks -> PreparedKinds] /\ prepared[call] = "todo" /\ phase = "preparing"
    BY <1>1 DEF prepareCall, ToPrepare, BatchTypeOK
  <2>3. /\ \A other \in Calls : other # call => prepared'[other] = prepared[other]
        /\ prepared'[call] = kind
    BY <1>0, <2>1, <2>2
  <2>4. UNCHANGED <<phase, outcome, added, active, queued, log>>
    BY <1>1 DEF prepareCall, schedulerVars
  <2>5. Runnable \subseteq Runnable'
    BY <1>0, <2>2, <2>3 DEF Runnable
  <2> QED BY <1>0, <2>2, <2>3, <2>4, <2>5 DEF RoundOK, OutcomesOK, Unfinished
<1>2. ASSUME NEW call \in Calls, ToolSettles(call) \/ ToolSuspends(call) \/ GraceTimeout(call)
      PROVE  RoundOK' /\ OutcomesOK'
  <2>1. PICK how \in {"result", "input"} : Leave(call, how)
    BY <1>2 DEF ToolSettles, ToolSuspends, GraceTimeout
  <2>2. /\ UNCHANGED <<phase, prepared, added, log>> /\ phase = "running"
        /\ outcome' = [outcome EXCEPT ![call] = how] /\ finish(call)
    BY <2>1 DEF Leave, finish
  <2>3. Unfinished' = Unfinished \ {call} /\ call \in active
    BY <2>2 DEF finish, Unfinished, Unblocked, BatchTypeOK, SchedulerTypeOK
  <2>4. Runnable' = Runnable /\ ToPrepare' = ToPrepare /\ (Held' <=> Held)
    BY <1>0, <2>2 DEF Runnable, ToPrepare, Held, Interrupted
  <2>5. call \in Runnable
    BY <2>3 DEF RoundOK, BatchTypeOK, SchedulerTypeOK
  <2>6. prepared[call] \in {"fresh", "resumed"}
    BY <2>5 DEF Runnable
  <2>7. RoundOK'
    BY <1>0, <2>2, <2>4 DEF RoundOK
  <2>8. OutcomesOK'
    <3> SUFFICES ASSUME NEW other \in Calls
                 PROVE  /\ prepared'[other] = "result" => outcome'[other] = "result"
                        /\ prepared'[other] = "repark" => outcome'[other] = "input"
                        /\ other \in Runnable' => other \in Unfinished' \/ outcome'[other] # "none"
                        /\ outcome'[other] # "none" => prepared'[other] # "absent"
      BY <1>0 DEF OutcomesOK
    <3>1. other = call => outcome'[other] = how
      BY <1>0, <2>2 DEF BatchTypeOK
    <3>2. other # call => outcome'[other] = outcome[other]
      BY <1>0, <2>2 DEF BatchTypeOK
    <3> QED BY <2>2, <2>3, <2>4, <2>6, <3>1, <3>2 DEF OutcomesOK
  <2> QED BY <2>7, <2>8
<1>3. ASSUME Schedule
      PROVE  RoundOK' /\ OutcomesOK'
  <2>0. UNCHANGED <<prepared, log>>
    BY <1>3 DEF Schedule
  <2>1. CASE HoldBatch
    BY <1>0, <2>0, <2>1, RoundLeftAlone DEF HoldBatch, PauseOrAsk, schedulerVars
  <2>2. CASE AllScheduled
    <3>1. /\ phase = "preparing" /\ ToPrepare = {} /\ ~Held /\ Runnable \subseteq added
          /\ UNCHANGED <<added, active, queued>> /\ phase' = "running"
          /\ outcome' = [call \in Tasks |->
                     CASE prepared[call] = "result" -> "result"
                       [] prepared[call] = "repark" -> "input"
                       [] OTHER -> "none"]
      BY <2>2 DEF AllScheduled, schedulerVars
    <3>2. Runnable' = Runnable /\ ToPrepare' = ToPrepare /\ (Held' <=> Held)
      BY <1>0, <2>0 DEF Runnable, ToPrepare, Held, Interrupted
    <3>3. RoundOK'
      BY <1>0, <2>0, <3>1, <3>2 DEF RoundOK
    <3>4. Runnable' \subseteq Unfinished'
      BY <3>1, <3>2 DEF RoundOK, Unfinished
    <3>5. OutcomesOK'
      <4> SUFFICES ASSUME NEW call \in Calls
                   PROVE  /\ prepared'[call] = "result" => outcome'[call] = "result"
                          /\ prepared'[call] = "repark" => outcome'[call] = "input"
                          /\ outcome'[call] # "none" => prepared'[call] # "absent"
        BY <1>0, <3>4 DEF OutcomesOK
      <4>1. outcome'[call] = CASE prepared[call] = "result" -> "result"
                               [] prepared[call] = "repark" -> "input"
                               [] OTHER -> "none"
        BY <1>0, <3>1
      <4> QED BY <2>0, <4>1
    <3> QED BY <3>3, <3>5
  <2>3. ASSUME NEW call \in Calls, ScheduleCall(call)
        PROVE  RoundOK' /\ OutcomesOK'
    <3>1. /\ phase = "preparing" /\ call \in Runnable /\ add(call) /\ UNCHANGED <<phase, outcome>>
      BY <2>3 DEF ScheduleCall
    <3>2. added' = added \union {call} /\ Unfinished' = Unfinished \union {call}
      BY <3>1 DEF add, Unfinished
    <3>3. Runnable' = Runnable
      BY <1>0, <2>0 DEF Runnable
    <3> QED BY <1>0, <2>0, <3>1, <3>2, <3>3 DEF RoundOK, OutcomesOK
  <2> QED BY <1>3, <2>1, <2>2, <2>3 DEF Schedule
<1>4. ASSUME \/ \E call \in Calls : LateSettle(call)
             \/ BatchEnds \/ Journal \/ Abort \/ AskAborted \/ pauseRun
             \/ Finish \/ Reads \/ RunThrows
      PROVE  RoundOK' /\ OutcomesOK'
  <2>1. UNCHANGED <<prepared, outcome, added, active, queued>>
    BY <1>4 DEF LateSettle, BatchEnds, Journal, Abort, AskAborted, pauseRun, Finish, Reads,
                RunThrows, roundVars, schedulerVars
  <2>2. (phase' = phase /\ log' = log) \/ phase' \notin {"preparing", "running"}
    BY <1>4 DEF LateSettle, BatchEnds, Journal, Abort, AskAborted, pauseRun, Finish, Reads, RunThrows
  <2> QED BY <1>0, <2>1, <2>2, RoundLeftAlone
<1>5. ASSUME LiveAnswers \/ \E copy \in copies : resume(copy)
      PROVE  RoundOK' /\ OutcomesOK'
  BY <1>0, <1>5, RoundStartsOK DEF LiveAnswers, resume
<1>6. ASSUME Crash
      PROVE  RoundOK' /\ OutcomesOK'
  BY <1>6 DEF Crash, newScheduler, RoundOK, OutcomesOK
<1>7. ASSUME UNCHANGED vars
      PROVE  RoundOK' /\ OutcomesOK'
  BY <1>0, <1>7, RoundLeftAlone DEF vars, roundVars
<1> QED BY <1>1, <1>2, <1>3, <1>4, <1>5, <1>6, <1>7, Zenon DEF Next

\* What the end of a round adds to the log (run-turn.ts:119-129).
LEMMA ResultsJoinLog ==
    ASSUME SceneOK, BatchTypeOK, BatchEnds
    PROVE  /\ Len(log') = Len(log) + Len(RoundResults) /\ log' \in Seq(Tasks)
           /\ \A i \in 1..Len(log) : log'[i] = log[i]
           /\ \A i \in 1..Len(log') : i \in 1..Len(log) \/ i - Len(log) \in 1..Len(RoundResults)
           /\ \A i \in 1..Len(log') : i \notin 1..Len(log) => log'[i] = RoundResults[i - Len(log)]
           /\ ToSet(log') = ToSet(log) \union Resulted
<1> DEFINE results == RoundResults
<1>1. results \in Seq(Tasks) /\ {results[i] : i \in 1..Len(results)} = Resulted
  BY ResultsOfRound DEF SceneOK
<1>2. log' = log \o results /\ log \in Seq(Tasks)
  BY DEF BatchEnds, BatchTypeOK
<1> HIDE DEF results
<1>3. /\ Len(log') = Len(log) + Len(results) /\ log' \in Seq(Tasks)
      /\ \A i \in 1..Len(log) : log'[i] = log[i]
      /\ \A i \in 1..Len(results) : log'[Len(log) + i] = results[i]
      /\ \A i \in 1..Len(log') : i \in 1..Len(log) \/ i - Len(log) \in 1..Len(results)
      /\ \A i \in 1..Len(log') : i \notin 1..Len(log) => log'[i] = results[i - Len(log)]
  BY <1>1, <1>2
<1>4. ToSet(log') = ToSet(log) \union Resulted
  <2>1. ToSet(log') \subseteq ToSet(log) \union Resulted
    BY <1>1, <1>2, <1>3 DEF ToSet
  <2>2. ToSet(log) \subseteq ToSet(log')
    <3> SUFFICES ASSUME NEW i \in 1..Len(log)
                 PROVE  log[i] \in ToSet(log')
      BY <1>2 DEF ToSet
    <3>1. i \in 1..Len(log')
      BY <1>1, <1>2, <1>3
    <3> QED BY <1>3, <3>1 DEF ToSet
  <2>3. Resulted \subseteq ToSet(log')
    <3> SUFFICES ASSUME NEW i \in 1..Len(results)
                 PROVE  results[i] \in ToSet(log')
      BY <1>1
    <3>1. Len(log) + i \in 1..Len(log')
      BY <1>1, <1>2, <1>3
    <3> QED BY <1>3, <3>1 DEF ToSet
  <2> QED BY <2>1, <2>2, <2>3
<1> QED BY <1>3, <1>4 DEF results

\* Each call's result goes into the log once, when its round ends
\* (tool-call.ts:157-176, run-turn.ts:119-129).
LEMMA LogKept ==
    ASSUME SceneOK, BatchTypeOK, RoundOK, OutcomesOK, LogOK, [Next]_vars
    PROVE  LogOK'
<1>0. Calls' = Calls
  BY SceneStays
<1>1. CASE BatchEnds
  <2> DEFINE results == RoundResults
  <2>1. /\ results \in Seq(Tasks) /\ IsInjective(results)
        /\ {results[i] : i \in 1..Len(results)} = Resulted
    BY ResultsOfRound DEF SceneOK
  <2> HIDE DEF results
  <2>2. /\ phase = "running" /\ Unfinished = {} /\ log \in Seq(Tasks)
        /\ phase' = "ended" => \A call \in Tasks : RoundPending[call] = "none"
    BY <1>1 DEF BatchEnds, results, BatchTypeOK
  <2>3. Resulted \cap ToSet(log) = {}
    BY <2>2 DEF Resulted, OutcomesOK, RoundOK
  <2>4. /\ Len(log') = Len(log) + Len(results) /\ log' \in Seq(Tasks)
        /\ \A i \in 1..Len(log) : log'[i] = log[i]
        /\ \A i \in 1..Len(log') : i \in 1..Len(log) \/ i - Len(log) \in 1..Len(results)
        /\ \A i \in 1..Len(log') : i \notin 1..Len(log) => log'[i] = results[i - Len(log)]
    BY <1>1, ResultsJoinLog DEF results
  <2>5. ToSet(log') = ToSet(log) \union Resulted
    BY <1>1, ResultsJoinLog
  <2>6. IsInjective(log')
    <3> SUFFICES ASSUME NEW i \in 1..Len(log'), NEW j \in 1..Len(log'), log'[i] = log'[j]
                 PROVE  i = j
      BY <2>4 DEF IsInjective
    <3>1. CASE i \in 1..Len(log) /\ j \in 1..Len(log)
      BY <2>2, <2>4, <3>1 DEF LogOK, AnsweredOnce, IsInjective
    <3>2. CASE i \notin 1..Len(log) /\ j \notin 1..Len(log)
      <4>1. /\ i - Len(log) \in 1..Len(results) /\ j - Len(log) \in 1..Len(results)
            /\ results[i - Len(log)] = results[j - Len(log)]
        BY <2>4, <3>2
      <4>2. i - Len(log) = j - Len(log)
        BY <2>1, <4>1 DEF IsInjective
      <4> QED BY <2>2, <4>2
    <3>3. ASSUME NEW a \in 1..Len(log'), NEW b \in 1..Len(log'),
                 a \in 1..Len(log), b \notin 1..Len(log), log'[a] = log'[b]
          PROVE  FALSE
      <4>1. log'[a] \in ToSet(log)
        BY <2>2, <2>4, <3>3 DEF ToSet
      <4>2. log'[b] \in Resulted
        BY <2>1, <2>4, <3>3
      <4> QED BY <2>3, <3>3, <4>1, <4>2
    <3> QED BY <3>1, <3>2, <3>3
  <2>7. ASSUME phase' = "ended", NEW call \in Calls
        PROVE  call \in ToSet(log')
    <3>1. call \in Tasks
      BY CallsAreTasks DEF SceneOK
    <3>2. ~Held /\ RoundPending[call] = "none"
      BY <2>2, <2>7, <3>1 DEF RoundOK
    <3>3. outcome[call] # "input"
      BY <3>1, <3>2 DEF RoundPending
    <3>4. prepared[call] \in PreparedKinds /\ outcome[call] \in {"none", "result", "input"}
      BY <3>1 DEF BatchTypeOK
    <3>5. prepared[call] \notin {"todo", "interrupt", "repark"}
      BY <2>2, <3>2, <3>3 DEF RoundOK, ToPrepare, Held, Interrupted, OutcomesOK
    <3>6. CASE prepared[call] = "absent"
      BY <2>2, <2>5, <3>6 DEF RoundOK
    <3>7. CASE prepared[call] = "result"
      BY <2>2, <2>5, <3>7 DEF OutcomesOK, Resulted
    <3>8. CASE prepared[call] \in {"fresh", "resumed"}
      <4>1. call \in Runnable
        BY <3>8 DEF Runnable
      <4>2. outcome[call] # "none"
        BY <2>2, <4>1 DEF OutcomesOK
      <4> QED BY <2>5, <3>3, <3>4, <4>2 DEF Resulted
    <3> QED BY <3>4, <3>5, <3>6, <3>7, <3>8 DEF PreparedKinds
  <2>8. ToSet(log') \subseteq Calls
    BY <2>5 DEF LogOK, Resulted
  <2> QED BY <1>0, <2>6, <2>7, <2>8 DEF LogOK, AnsweredOnce
<1>2. CASE Crash
  <2>1. log' = SubSeq(log, 1, flushed) /\ phase' = "dead"
    BY <1>2 DEF Crash
  <2>2. /\ log' \in Seq(Tasks) /\ Len(log') = flushed /\ flushed \in 0..Len(log) /\ log \in Seq(Tasks)
        /\ \A i \in 1..flushed : log'[i] = log[i]
    BY <2>1, PrefixOfShard DEF BatchTypeOK
  <2>3. ToSet(log') \subseteq ToSet(log)
    BY <2>2 DEF ToSet
  <2>4. IsInjective(log')
    BY <2>2 DEF LogOK, AnsweredOnce, IsInjective
  <2> QED BY <1>0, <2>1, <2>3, <2>4 DEF LogOK, AnsweredOnce
<1>3. CASE ~BatchEnds /\ ~Crash
  <2>1. log' = log
    BY <1>3 DEF Next, vars, prepareCall, ToolSettles, ToolSuspends, GraceTimeout, Leave, LateSettle,
                Schedule, Journal, Abort, LiveAnswers, AskAborted, pauseRun, Finish, Reads,
                resume, RunThrows
  <2>2. phase' = "ended" => phase = "ended"
    BY <1>3 DEF Next, vars, prepareCall, ToolSettles, ToolSuspends, GraceTimeout, Leave, LateSettle,
                Schedule, HoldBatch, AllScheduled, ScheduleCall, PauseOrAsk,
                Journal, Abort, LiveAnswers, AskAborted, pauseRun, Finish, Reads,
                resume, RunThrows
  <2> QED BY <1>0, <2>1, <2>2 DEF LogOK, AnsweredOnce
<1> QED BY <1>1, <1>2, <1>3

\* The steps that leave the decisions and what was prepared by them alone.
LEMMA DecisionsLeftAlone ==
    ASSUME DecisionsOK, Calls' = Calls, UNCHANGED <<prepared, answers, decided>>,
           kept'.decisions = kept.decisions,
           phase' \in InHand => phase \in InHand,
           phase' \in {"paused", "failed", "dead"} => phase' = phase
    PROVE  DecisionsOK'
<1>1. Runnable' = Runnable /\ Interrupted' = Interrupted
  BY DEF Runnable, Interrupted
<1> HIDE DEF Runnable, Interrupted
<1> QED BY <1>1 DEF DecisionsOK, DecisionsAreReplayed, InHand

\* The user's decisions are in the run's answers while there is a run and in
\* the store otherwise (pause.ts:101, runner.ts:384-406).
LEMMA DecisionsKept ==
    ASSUME SceneOK, BatchTypeOK, DecisionsOK, CopiesOK, [Next]_vars
    PROVE  DecisionsOK'
<1>0. Calls \subseteq Tasks /\ Calls' = Calls
  BY CallsAreTasks, SceneStays DEF SceneOK
<1>1. ASSUME NEW call \in Calls, prepareCall(call)
      PROVE  DecisionsOK'
  <2>1. PICK kind \in PreparedKinds \ {"todo", "absent"} :
           /\ prepared' = [prepared EXCEPT ![call] = kind]
           /\ kind \in {"fresh", "resumed"} => answers[call] # "rejected"
           /\ kind = "interrupt" => answers[call] = "none"
    BY <1>1, Prepares
  <2>2. /\ \A other \in Calls : other # call => prepared'[other] = prepared[other]
        /\ prepared'[call] = kind
    BY <1>0, <2>1 DEF BatchTypeOK
  <2>3. phase = "preparing" /\ phase' = phase /\ UNCHANGED <<answers, decided>>
    BY <1>1 DEF prepareCall, historyVars
  <2> QED BY <1>0, <2>1, <2>2, <2>3 DEF DecisionsOK, DecisionsAreReplayed, InHand, Runnable, Interrupted
<1>2. ASSUME \/ \E call \in Calls : \/ ToolSettles(call) \/ ToolSuspends(call)
                                    \/ GraceTimeout(call) \/ LateSettle(call)
             \/ Schedule \/ BatchEnds \/ Journal \/ Abort \/ AskAborted \/ Reads
      PROVE  DecisionsOK'
  <2>1. UNCHANGED <<prepared, answers, decided, kept>>
    BY <1>2 DEF ToolSettles, ToolSuspends, GraceTimeout, Leave, LateSettle, Schedule, BatchEnds,
                Journal, Abort, AskAborted, Reads, roundVars, storeVars, historyVars
  <2>2. /\ phase' \in InHand => phase \in InHand
        /\ phase' \in {"paused", "failed", "dead"} => phase' = phase
    BY <1>2 DEF ToolSettles, ToolSuspends, GraceTimeout, Leave, LateSettle, Schedule, HoldBatch,
                AllScheduled, ScheduleCall, PauseOrAsk, BatchEnds, Journal, Abort, AskAborted,
                Reads, InHand
  <2> QED BY <1>0, <2>1, <2>2, DecisionsLeftAlone
<1>3. ASSUME LiveAnswers \/ \E copy \in copies : resume(copy)
      PROVE  DecisionsOK'
  <2>1. BeginRound(log) /\ phase' = "preparing"
    BY <1>3 DEF LiveAnswers, resume
  <2>2. Runnable' = {} /\ Interrupted' = {}
    BY <1>0, <2>1, RoundBegins DEF Runnable, Interrupted
  <2>3. decided' = answers'
    <3>1. CASE LiveAnswers
      BY <3>1 DEF LiveAnswers
    <3>2. ASSUME NEW copy \in copies, resume(copy)
          PROVE  decided' = answers'
      <4>1. kept # NothingKept /\ copy.revision = kept.revision /\ phase \in {"paused", "failed", "dead"}
        BY <3>2 DEF resume, NotStale
      <4>2. copy = kept /\ decided = kept.decisions
        BY <4>1 DEF CopiesOK, DecisionsOK
      <4> QED BY <3>2, <4>2, ResumeTakes
    <3> QED BY <1>3, <3>1, <3>2
  <2> QED BY <2>1, <2>2, <2>3 DEF DecisionsOK, DecisionsAreReplayed, InHand
<1>4. ASSUME pauseRun
      PROVE  DecisionsOK'
  <2>1. /\ phase = "pausing" /\ phase' = "paused" /\ UNCHANGED <<prepared, answers, decided>>
        /\ kept' = Reify(RoundPending)
    BY <1>4 DEF pauseRun, roundVars
  <2>2. kept'.decisions = answers
    BY <2>1 DEF Reify
  <2>3. Interrupted' = Interrupted
    BY <1>0, <2>1 DEF Interrupted
  <2> QED BY <2>1, <2>2, <2>3 DEF DecisionsOK, DecisionsAreReplayed, InHand
<1>5. ASSUME Finish
      PROVE  DecisionsOK'
  BY <1>5 DEF Finish, DecisionsOK, DecisionsAreReplayed, InHand
<1>6. ASSUME RunThrows \/ Crash
      PROVE  DecisionsOK'
  <2>1. phase' \in {"failed", "dead"} /\ decided' = kept.decisions
    BY <1>6 DEF RunThrows, Crash
  <2>2. kept'.decisions = kept.decisions
    BY <1>6 DEF RunThrows, Crash, storeVars, BatchTypeOK, InterruptionType
  <2> QED BY <2>1, <2>2 DEF DecisionsOK, DecisionsAreReplayed, InHand
<1>7. ASSUME UNCHANGED vars
      PROVE  DecisionsOK'
  BY <1>0, <1>7, DecisionsLeftAlone DEF vars, roundVars, storeVars, historyVars, InHand
<1> QED BY <1>1, <1>2, <1>3, <1>4, <1>5, <1>6, <1>7, Zenon DEF Next

\* A resume takes the one revision the store holds and leaves a newer one
\* (runner.ts:384-390, pause.ts:86-101).
LEMMA CopiesKept ==
    ASSUME SceneOK, BatchTypeOK, CopiesOK, TakenOK, [Next]_vars
    PROVE  CopiesOK' /\ TakenOK'
<1>0. kept.revision \in Nat /\ (\A copy \in copies : copy.revision \in Nat) /\ taken \in SUBSET Nat
  BY DEF BatchTypeOK, InterruptionType, TakenOK
<1>1. ASSUME \/ \E call \in Calls : \/ prepareCall(call) \/ ToolSettles(call) \/ ToolSuspends(call)
                                    \/ GraceTimeout(call) \/ LateSettle(call)
             \/ Schedule \/ BatchEnds \/ Journal \/ Abort \/ LiveAnswers \/ AskAborted \/ Crash
             \/ UNCHANGED vars
      PROVE  CopiesOK' /\ TakenOK'
  <2>1. UNCHANGED <<kept, copies, taken, resumes>>
    BY <1>1 DEF prepareCall, ToolSettles, ToolSuspends, GraceTimeout, Leave, LateSettle, Schedule,
                BatchEnds, Journal, Abort, LiveAnswers, AskAborted, Crash, vars, storeVars, historyVars
  <2>2. phase' \notin {"ended", "aborted", "dead"} => phase \notin {"ended", "aborted", "dead"}
    BY <1>1 DEF prepareCall, ToolSettles, ToolSuspends, GraceTimeout, Leave, LateSettle, Schedule,
                HoldBatch, AllScheduled, ScheduleCall, PauseOrAsk,
                BatchEnds, Journal, Abort, LiveAnswers, AskAborted, Crash, vars
  <2> QED BY <2>1, <2>2 DEF CopiesOK, TakenOK, ResumedOnce
<1>2. ASSUME pauseRun
      PROVE  CopiesOK' /\ TakenOK'
  <2>1. /\ phase = "pausing" /\ kept' = Reify(RoundPending) /\ copies' = copies \union {kept'}
        /\ UNCHANGED <<taken, resumes>>
    BY <1>2 DEF pauseRun
  <2>2. kept'.revision = kept.revision + 1 /\ kept'.phase = "waiting"
    BY <2>1 DEF Reify
  <2>3. kept' # NothingKept
    BY <2>2 DEF NothingKept
  <2>4. \A copy \in copies : copy.revision < kept'.revision
    BY <1>0, <2>1, <2>2 DEF CopiesOK
  <2>5. \A revision \in taken : revision < kept'.revision
    BY <1>0, <2>1, <2>2 DEF CopiesOK
  <2> QED BY <1>0, <2>1, <2>2, <2>3, <2>4, <2>5 DEF CopiesOK, TakenOK, ResumedOnce
<1>3. ASSUME Finish
      PROVE  CopiesOK' /\ TakenOK'
  BY <1>3 DEF Finish, historyVars, CopiesOK, TakenOK, ResumedOnce
<1>4. ASSUME Reads
      PROVE  CopiesOK' /\ TakenOK'
  BY <1>0, <1>4 DEF Reads, historyVars, CopiesOK, TakenOK, ResumedOnce
<1>5. ASSUME NEW copy \in copies, resume(copy)
      PROVE  CopiesOK' /\ TakenOK'
  <2>1. /\ kept # NothingKept /\ copy.revision = kept.revision /\ resumes' = resumes + 1
        /\ taken' = taken \union {copy.revision} /\ copies' = copies
    BY <1>5 DEF resume, NotStale
  <2>2. kept'.revision = kept.revision + 1 /\ kept'.phase = "resuming"
    BY <1>5, <2>1, ResumeTakes
  <2>3. kept' # NothingKept
    BY <2>2 DEF NothingKept
  <2>4. /\ \A c \in copies : c.revision <= kept.revision
        /\ \A revision \in taken : revision < kept.revision
    BY <2>1 DEF CopiesOK
  <2>5. copy.revision \notin taken
    BY <1>0, <2>1, <2>4
  <2>6. IsFiniteSet(taken') /\ Cardinality(taken') = Cardinality(taken) + 1
    BY <2>1, <2>5, FS_AddElement DEF TakenOK
  <2>7. TakenOK'
    BY <1>0, <2>1, <2>6 DEF TakenOK, ResumedOnce
  <2> QED BY <1>0, <2>1, <2>2, <2>3, <2>4, <2>7 DEF CopiesOK
<1>6. ASSUME RunThrows
      PROVE  CopiesOK' /\ TakenOK'
  <2>1. UNCHANGED <<copies, taken, resumes>> /\ phase' = "failed" /\ phase \in {"preparing", "asking"}
    BY <1>6 DEF RunThrows
  <2>2. CASE kept.phase = "resuming"
    <3>1. kept'.revision = kept.revision + 1 /\ kept'.phase = "recovery_required"
      BY <1>6, <2>2 DEF RunThrows, BatchTypeOK, InterruptionType
    <3>2. kept # NothingKept /\ kept' # NothingKept
      BY <2>2, <3>1 DEF NothingKept
    <3> QED BY <1>0, <2>1, <3>1, <3>2 DEF CopiesOK, TakenOK, ResumedOnce
  <2>3. CASE kept.phase # "resuming"
    BY <1>6, <2>1, <2>3 DEF RunThrows, CopiesOK, TakenOK, ResumedOnce
  <2> QED BY <2>2, <2>3
<1> QED BY <1>1, <1>2, <1>3, <1>4, <1>5, <1>6, Zenon DEF Next

\* A frame is published when the shard is flushed, and a crash keeps the
\* flushed part (pause.ts:38-50).
LEMMA SettledKept ==
    ASSUME SceneOK, BatchTypeOK, SettledOK, [Next]_vars
    PROVE  SettledOK'
<1>0. log \in Seq(Tasks) /\ flushed \in 0..Len(log)
  BY DEF BatchTypeOK
<1>1. CASE BatchEnds
  <2>1. /\ log' = log \o RoundResults /\ RoundResults \in Seq(Tasks)
        /\ UNCHANGED <<flushed, settled>>
    BY <1>1, ResultsOfRound DEF BatchEnds, historyVars, SceneOK
  <2>2. \A i \in 1..flushed : log'[i] = log[i]
    BY <1>0, <2>1
  <2> QED BY <2>1, <2>2 DEF SettledOK
<1>2. CASE Crash
  <2>1. log' = SubSeq(log, 1, flushed) /\ UNCHANGED <<flushed, settled>>
    BY <1>2 DEF Crash
  <2>2. \A i \in 1..flushed : log'[i] = log[i]
    BY <1>0, <2>1, PrefixOfShard
  <2> QED BY <2>1, <2>2 DEF SettledOK
<1>3. CASE Journal
  <2>1. flushed' = flushed + 1 /\ UNCHANGED <<log, settled>>
    BY <1>3 DEF Journal, historyVars
  <2>2. 1..flushed \subseteq 1..flushed'
    BY <1>0, <2>1
  <2> QED BY <2>1, <2>2 DEF SettledOK
<1>4. CASE pauseRun
  <2>1. flushed = Len(log) /\ settled' = settled \union ToSet(log) /\ UNCHANGED <<log, flushed>>
    BY <1>4 DEF pauseRun, FlushedBeforePause
  <2>2. ToSet(log) = {log[i] : i \in 1..flushed}
    BY <1>0, <2>1 DEF ToSet
  <2> QED BY <2>1, <2>2 DEF SettledOK
<1>5. CASE ~BatchEnds /\ ~Crash /\ ~Journal /\ ~pauseRun
  <2>1. UNCHANGED <<log, flushed, settled>>
    BY <1>5 DEF Next, vars, prepareCall, ToolSettles, ToolSuspends, GraceTimeout, Leave, LateSettle,
                Schedule, Abort, LiveAnswers, AskAborted, Finish, Reads, resume, RunThrows, historyVars
  <2> QED BY <2>1 DEF SettledOK
<1> QED BY <1>1, <1>2, <1>3, <1>4, <1>5

LEMMA BatchInvInitially == Init => BatchInv
<1> SUFFICES ASSUME Init PROVE BatchInv
  OBVIOUS
<1>1. SceneOK /\ SchedulerInv
  BY InvInitially, ScenesAssumption DEF Init, SceneOK, SchedulerInit
<1>2. Calls \subseteq Tasks
  BY <1>1, CallsAreTasks DEF SceneOK
<1>3. NoAnswers \in [Tasks -> {"none", "approved", "rejected"}] /\ NoPending \in [Tasks -> Pending]
  BY DEF NoAnswers, NoPending, Pending
<1>4. NothingKept \in InterruptionType
  BY <1>3 DEF NothingKept, InterruptionType
<1>5. log = <<>> /\ ToSet(log) = {} /\ Len(log) = 0
  BY DEF Init, ToSet
<1>6. BatchTypeOK
  <2>1. prepared \in [Tasks -> PreparedKinds] /\ outcome \in [Tasks -> {"none", "result", "input"}]
    BY DEF Init, PreparedKinds
  <2>2. frame \in [pending : [Tasks -> Pending], inputs : SUBSET Tasks]
    BY <1>3 DEF Init, NoFrame
  <2>3. log \in Seq(Tasks) /\ flushed \in 0..Len(log)
    BY <1>5 DEF Init
  <2>4. /\ kept \in InterruptionType /\ copies \in SUBSET InterruptionType /\ due \in SUBSET Tasks
        /\ heldOver \in SUBSET Tasks /\ executing \in SUBSET Tasks /\ aborted \in BOOLEAN /\ phase \in Phases
    BY <1>4 DEF Init, Phases
  <2>5. answers \in [Tasks -> {"none", "approved", "rejected"}]
    BY <1>3 DEF Init
  <2> QED BY <1>1, <2>1, <2>2, <2>3, <2>4, <2>5 DEF BatchTypeOK, SchedulerInv
<1>7. RoundOK /\ OutcomesOK
  BY <1>2, <1>5 DEF Init, EmptyScheduler, RoundOK, OutcomesOK
<1>8. LogOK
  BY <1>5 DEF Init, LogOK, AnsweredOnce, IsInjective
<1>9. DecisionsOK
  BY <1>2 DEF Init, DecisionsOK, DecisionsAreReplayed, Runnable, Interrupted, InHand
<1>10. CopiesOK
  BY DEF Init, CopiesOK
<1>11. TakenOK
  BY FS_EmptySet DEF Init, TakenOK, ResumedOnce
<1>12. SettledOK
  BY DEF Init, SettledOK
<1> QED BY <1>1, <1>6, <1>7, <1>8, <1>9, <1>10, <1>11, <1>12 DEF BatchInv

LEMMA BatchInvKept == BatchInv /\ [Next]_vars => BatchInv'
<1> SUFFICES ASSUME BatchInv, [Next]_vars PROVE BatchInv'
  OBVIOUS
<1>1. SceneOK' /\ SchedulerInv'
  BY BatchStepIsSchedulerStep, StepKeepsInv DEF BatchInv
<1>2. BatchTypeOK'
  BY <1>1, TypesKept DEF BatchInv, SchedulerInv
<1>3. RoundOK' /\ OutcomesOK' /\ LogOK' /\ DecisionsOK' /\ CopiesOK' /\ TakenOK' /\ SettledOK'
  BY RoundKept, LogKept, DecisionsKept, CopiesKept, SettledKept DEF BatchInv
<1> QED BY <1>1, <1>2, <1>3 DEF BatchInv

LEMMA BatchInvariant == Spec => []BatchInv
BY BatchInvInitially, BatchInvKept, PTL DEF Spec

\* Whoever starts is a call the round prepared to run, in a round that is not
\* held (tool-call.ts:105-134).
LEMMA WhoStarts ==
    ASSUME BatchInv, [Next]_vars, NEW call \in Started
    PROVE  /\ call \in Calls /\ call \in Runnable
           /\ phase \in {"preparing", "running"} /\ Interrupted = {}
           /\ UNCHANGED <<scene, prepared>>
<1>1. \/ \E c \in Calls : ScheduleCall(c) /\ Schedule
      \/ \E c \in Calls, how \in {"result", "input"} : Leave(c, how)
  BY DEF Next, vars, prepareCall, ToolSettles, ToolSuspends, GraceTimeout, LateSettle,
         Schedule, HoldBatch, AllScheduled, BatchEnds, Journal, Abort, LiveAnswers, AskAborted,
         pauseRun, Finish, Reads, resume, RunThrows, Crash, BeginRound, newScheduler,
         roundVars, schedulerVars, Started
<1>2. CASE \E c \in Calls : ScheduleCall(c) /\ Schedule
  <2>1. PICK c \in Calls : ScheduleCall(c) /\ Schedule
    BY <1>2
  <2>2. call = c
    BY <2>1 DEF ScheduleCall, add, Started
  <2> QED BY <2>1, <2>2 DEF ScheduleCall, Schedule, Held
<1>3. CASE \E c \in Calls, how \in {"result", "input"} : Leave(c, how)
  <2>1. PICK c \in Calls, how \in {"result", "input"} : Leave(c, how)
    BY <1>3
  <2>2. phase = "running" /\ finish(c) /\ UNCHANGED <<scene, prepared>>
    BY <2>1 DEF Leave
  <2>3. call \in queued
    BY <2>2 DEF finish, Started, Unblocked
  <2>4. call \in Runnable
    BY <2>3 DEF BatchInv, RoundOK, SchedulerInv, SchedulerTypeOK
  <2> QED BY <2>2, <2>4 DEF BatchInv, RoundOK, Held, Runnable
<1> QED BY <1>1, <1>2, <1>3

---------------------------------------------------------------------------
\* The batch's own variables keep their types in every round
\* (tool-call.ts:80-104, pause.ts:61-101).
THEOREM BatchTypeCorrect == Spec => []BatchTypeOK
<1>1. BatchInv => BatchTypeOK
  BY DEF BatchInv
<1> QED BY <1>1, BatchInvariant, PTL

\* Each call is asked about once, answered once and each state of its
\* interruption resumed once, over any number of rounds, resumes, clients and
\* crashes (pause.ts:101, tool-call.ts:157-176, runner.ts:384-390).
THEOREM CallsAreServedOnce == Spec => []OnceEach
<1>1. BatchInv => OnceEach
  BY DEF BatchInv, OnceEach, LogOK, DecisionsOK, TakenOK
<1> QED BY <1>1, BatchInvariant, PTL

\* No call is run while another of its round waits for an approval
\* (tool-call.ts:105-112).
THEOREM HeldRoundsRunNothing == Spec => HeldBatchIsIdle
<1>1. BatchInv /\ [Next]_vars => [Started # {} => Interrupted' = {}]_vars
  <2> SUFFICES ASSUME BatchInv, [Next]_vars, NEW call \in Started
               PROVE  Interrupted' = {}
    OBVIOUS
  <2>1. Interrupted = {} /\ UNCHANGED <<scene, prepared>>
    BY WhoStarts
  <2> QED BY <2>1 DEF Interrupted, Calls
<1> QED BY <1>1, BatchInvariant, PTL DEF Spec, HeldBatchIsIdle

\* A call that is done or that the user refused is not run again, not by a
\* process that has only the store to go by either (compose-hooks.ts:111-123,
\* pause.ts:38-50).
THEOREM DoneAndRefusedStay == Spec => DoneAndRefusedStaySo
<1>1. BatchInv /\ [Next]_vars => [\A call \in Started : decided[call] # "rejected"]_vars
  <2> SUFFICES ASSUME BatchInv, [Next]_vars, NEW call \in Started
               PROVE  decided[call] # "rejected"
    OBVIOUS
  <2>1. call \in Runnable /\ phase \in InHand
    BY WhoStarts DEF InHand
  <2> QED BY <2>1 DEF BatchInv, DecisionsOK
<1>2. BatchInv /\ [Next]_vars => [Started \cap settled = {}]_vars
  <2> SUFFICES ASSUME BatchInv, [Next]_vars, NEW call \in Started
               PROVE  call \notin settled
    OBVIOUS
  <2>1. call \in Calls /\ call \in Runnable /\ phase \in {"preparing", "running"}
    BY WhoStarts
  <2>2. call \notin ToSet(log)
    BY <2>1 DEF BatchInv, RoundOK, Runnable
  <2>3. settled \subseteq ToSet(log)
    BY DEF BatchInv, SettledOK, BatchTypeOK, ToSet
  <2> QED BY <2>2, <2>3
<1> QED BY <1>1, <1>2, BatchInvariant, PTL DEF Spec, DoneAndRefusedStaySo, RejectedNeverRuns,
           SettledNeverRerun
---------------------------------------------------------------------------
(* Calls that suspend for input get it.                                    *)

\* The store's frame has the call among those that suspended for input.
Suspended(call) == kept.pending[call] = "input"

OnDisk == {log[i] : i \in 1..flushed}

\* Answers that were accepted for a call that is not done, but for those that
\* a pause for an approval passed over.
Owed == due \ (OnDisk \union heldOver)

\* The run works from the frame in the store, and outside a round that runs all
\* that is in the log is on disk.
FrameOK ==
    /\ phase \in InHand => frame.pending = kept.pending /\ frame.inputs = kept.inputs
    /\ phase \in {"preparing", "running", "asking", "paused", "failed", "dead"} => flushed = Len(log)

\* A suspended call without an answer is left alone in every round.
PreparedOK ==
    phase \in InHand =>
        \A call \in Calls :
            /\ prepared[call] = "repark" => Suspended(call) /\ call \notin kept.inputs
            /\ Suspended(call) /\ call \notin kept.inputs => prepared[call] \in {"todo", "repark"}
            /\ phase \in {"asking", "pausing"} => prepared[call] # "todo"

\* What the frame of a pause is going to list.
PausingOK ==
    phase = "pausing" =>
        \A call \in Calls :
            /\ RoundPending[call] = "input" => call \notin ToSet(log)
            /\ ~Held /\ prepared[call] = "repark" => outcome[call] = "input"

\* A call that waits for an answer has no result.
StoredOK == \A call \in Calls : Suspended(call) => call \in kept.inputs \/ call \notin ToSet(log)

\* An accepted answer is in the store, and in a round its call is about to be
\* prepared, or prepared to take it until it starts, unless it is given a
\* result without running.
OwedOK ==
    /\ due \subseteq Calls
    /\ kept # NothingKept => \A call \in Owed : Suspended(call) /\ call \in kept.inputs
    /\ kept = NothingKept /\ phase \notin {"ended", "aborted", "dead"} => due = {}
    /\ phase = "preparing" => \A call \in Owed : prepared[call] # "fresh" /\ call \notin active
    /\ phase = "running" =>
          \A call \in Owed : prepared[call] = "result" \/ (prepared[call] = "resumed" /\ call \in queued)
    /\ phase = "pausing" => Held \/ Owed \subseteq ToSet(log)

ServedInv == FrameOK /\ PreparedOK /\ PausingOK /\ StoredOK /\ OwedOK

\* What is on disk stays there (pause.ts:38-50).
LEMMA DiskOnlyGrows ==
    ASSUME SceneOK, BatchTypeOK, [Next]_vars
    PROVE  /\ OnDisk \subseteq OnDisk' /\ OnDisk \subseteq ToSet(log)
           /\ flushed = Len(log) => OnDisk = ToSet(log)
           /\ ~Journal => OnDisk' = OnDisk /\ flushed' = flushed
<1>0. log \in Seq(Tasks) /\ flushed \in 0..Len(log)
  BY DEF BatchTypeOK
<1>1. OnDisk \subseteq ToSet(log) /\ (flushed = Len(log) => OnDisk = ToSet(log))
  BY <1>0 DEF OnDisk, ToSet
<1>2. CASE BatchEnds
  <2>1. log' = log \o RoundResults /\ RoundResults \in Seq(Tasks) /\ flushed' = flushed
    BY <1>2, ResultsOfRound DEF BatchEnds, SceneOK
  <2>2. \A i \in 1..flushed : log'[i] = log[i]
    BY <1>0, <2>1
  <2> QED BY <1>1, <2>1, <2>2 DEF OnDisk
<1>3. CASE Crash
  <2>1. log' = SubSeq(log, 1, flushed) /\ flushed' = flushed
    BY <1>3 DEF Crash
  <2>2. \A i \in 1..flushed : log'[i] = log[i]
    BY <1>0, <2>1, PrefixOfShard
  <2> QED BY <1>1, <2>1, <2>2 DEF OnDisk
<1>4. CASE Journal
  <2>1. flushed' = flushed + 1 /\ log' = log
    BY <1>4 DEF Journal
  <2>2. 1..flushed \subseteq 1..flushed'
    BY <1>0, <2>1
  <2> QED BY <1>1, <1>4, <2>1, <2>2 DEF OnDisk
<1>5. CASE ~BatchEnds /\ ~Crash /\ ~Journal
  <2>1. UNCHANGED <<log, flushed>>
    BY <1>5 DEF Next, vars, prepareCall, ToolSettles, ToolSuspends, GraceTimeout, Leave, LateSettle,
                Schedule, Abort, LiveAnswers, AskAborted, pauseRun, Finish, Reads, resume, RunThrows
  <2> QED BY <1>1, <2>1 DEF OnDisk
<1> QED BY <1>2, <1>3, <1>4, <1>5

\* The run's copy of the frame and of the decisions agrees with the store
\* (runner.ts:384-406, pause.ts:86-101).
LEMMA FrameKept ==
    ASSUME BatchInv, ServedInv, [Next]_vars
    PROVE  FrameOK'
<1> USE DEF ServedInv
<1>0. /\ SceneOK /\ BatchTypeOK /\ DecisionsOK /\ Calls' = Calls /\ Calls \subseteq Tasks
      /\ scene' = scene
  BY CallsAreTasks, SceneStays DEF BatchInv, SceneOK
<1> DEFINE Flushed == {"preparing", "running", "asking", "paused", "failed", "dead"}
<1>1. ASSUME \/ \E call \in Calls : \/ prepareCall(call) \/ ToolSettles(call) \/ ToolSuspends(call)
                                    \/ GraceTimeout(call) \/ LateSettle(call)
             \/ Schedule \/ BatchEnds \/ Journal \/ Abort \/ AskAborted \/ Reads \/ UNCHANGED vars
      PROVE  FrameOK'
  <2>1. UNCHANGED <<kept, frame, answers>>
    BY <1>1 DEF prepareCall, ToolSettles, ToolSuspends, GraceTimeout, Leave, LateSettle, Schedule,
                BatchEnds, Journal, Abort, AskAborted, Reads, vars, storeVars
  <2>2. phase' \in InHand => phase \in InHand
    BY <1>1 DEF prepareCall, ToolSettles, ToolSuspends, GraceTimeout, Leave, LateSettle, Schedule,
                HoldBatch, AllScheduled, ScheduleCall, PauseOrAsk, BatchEnds, Journal, Abort,
                AskAborted, Reads, vars, InHand
  <2>3. phase' \in Flushed => phase \in Flushed /\ log' = log /\ (flushed' = flushed \/ flushed < Len(log))
    BY <1>1 DEF prepareCall, ToolSettles, ToolSuspends, GraceTimeout, Leave, LateSettle, Schedule,
                HoldBatch, AllScheduled, ScheduleCall, PauseOrAsk, BatchEnds, Journal, Abort,
                AskAborted, Reads, vars
  <2>4. flushed \in Nat /\ Len(log) \in Nat
    BY <1>0 DEF BatchTypeOK
  <2>5. phase' \in Flushed => flushed' = Len(log')
    BY <2>3, <2>4 DEF FrameOK
  <2> QED BY <1>0, <2>1, <2>2, <2>5 DEF FrameOK
<1>2. ASSUME LiveAnswers
      PROVE  FrameOK'
  BY <1>2 DEF LiveAnswers, storeVars, FrameOK, InHand
<1>3. ASSUME pauseRun \/ Finish
      PROVE  FrameOK'
  BY <1>3 DEF pauseRun, Finish, FlushedBeforePause, FrameOK, InHand
<1>4. ASSUME NEW copy \in copies, resume(copy)
      PROVE  FrameOK'
  <2>1. /\ kept # NothingKept /\ copy.revision = kept.revision /\ phase \in {"paused", "failed", "dead"}
        /\ phase' = "preparing" /\ UNCHANGED <<log, flushed>>
    BY <1>4 DEF resume, NotStale
  <2>2. frame'.pending = kept'.pending /\ frame'.inputs = kept'.inputs
    BY <1>0, <1>4, ResumeTakes
  <2> QED BY <1>0, <2>1, <2>2 DEF FrameOK
<1>5. ASSUME RunThrows
      PROVE  FrameOK'
  BY <1>5 DEF RunThrows, FrameOK, InHand
<1>6. ASSUME Crash
      PROVE  FrameOK'
  <2>1. Len(log') = flushed /\ flushed' = flushed /\ phase' = "dead"
    BY <1>0, <1>6, PrefixOfShard DEF Crash, BatchTypeOK
  <2> QED BY <2>1 DEF FrameOK, InHand
<1> QED BY <1>1, <1>2, <1>3, <1>4, <1>5, <1>6, Zenon DEF Next

\* A round that begins is of calls that are not done.
LEMMA PreparedStartsOK ==
    ASSUME SceneOK, BeginRound(log), log' = log, Calls' = Calls, phase' = "preparing",
           \A call \in Calls : Suspended(call)' /\ call \notin kept'.inputs => call \notin ToSet(log)
    PROVE  PreparedOK'
<1>1. \A call \in Calls : prepared'[call] = IF call \notin ToSet(log) THEN "todo" ELSE "absent"
  BY RoundBegins, CallsAreTasks DEF SceneOK
<1> QED BY <1>1 DEF PreparedOK

\* What a call was prepared to be stays true until the round is over
\* (tool-call.ts:80-134).
LEMMA PreparedKept ==
    ASSUME BatchInv, ServedInv, [Next]_vars
    PROVE  PreparedOK'
<1> USE DEF ServedInv
<1>0. /\ SceneOK /\ BatchTypeOK /\ RoundOK /\ Calls' = Calls /\ Calls \subseteq Tasks /\ scene' = scene
  BY CallsAreTasks, SceneStays DEF BatchInv, SceneOK
<1>1. ASSUME NEW call \in Calls, prepareCall(call)
      PROVE  PreparedOK'
  <2>1. PICK kind \in PreparedKinds \ {"todo", "absent"} :
              /\ prepared' = [prepared EXCEPT ![call] = kind]
              /\ kind = "repark" <=> frame.pending[call] = "input" /\ call \notin frame.inputs
    BY <1>0, <1>1, Prepares
  <2>2. phase = "preparing" /\ UNCHANGED <<phase, kept>>
    BY <1>1 DEF prepareCall, storeVars
  <2>3. /\ \A other \in Calls : other # call => prepared'[other] = prepared[other]
        /\ prepared'[call] = kind
    BY <1>0, <2>1 DEF BatchTypeOK
  <2>4. frame.pending = kept.pending /\ frame.inputs = kept.inputs
    BY <2>2 DEF FrameOK, InHand
  <2> SUFFICES ASSUME NEW other \in Calls
               PROVE
            /\ prepared'[other] = "repark" => Suspended(other) /\ other \notin kept.inputs
            /\ Suspended(other) /\ other \notin kept.inputs => prepared'[other] \in {"todo", "repark"}
    BY <1>0, <2>2 DEF PreparedOK, Suspended
  <2>5. CASE other = call
    BY <2>1, <2>2, <2>3, <2>4, <2>5 DEF Suspended
  <2>6. CASE other # call
    BY <2>2, <2>3, <2>6 DEF PreparedOK, InHand
  <2> QED BY <2>5, <2>6
<1>2. ASSUME \/ \E call \in Calls : \/ ToolSettles(call) \/ ToolSuspends(call)
                                    \/ GraceTimeout(call) \/ LateSettle(call)
             \/ Schedule \/ BatchEnds \/ Journal \/ Abort \/ AskAborted \/ Reads \/ RunThrows
             \/ UNCHANGED vars
      PROVE  PreparedOK'
  <2>1. /\ prepared' = prepared
        /\ phase' \in InHand => phase \in InHand /\ kept' = kept
    BY <1>2 DEF ToolSettles, ToolSuspends, GraceTimeout, Leave, LateSettle, Schedule,
                HoldBatch, AllScheduled, ScheduleCall, PauseOrAsk, BatchEnds, Journal, Abort,
                AskAborted, Reads, RunThrows, vars, storeVars, roundVars, InHand
  <2>2. phase' \in {"asking", "pausing"} => phase' = phase \/ ToPrepare = {}
    BY <1>0, <1>2 DEF ToolSettles, ToolSuspends, GraceTimeout, Leave, LateSettle, Schedule,
                HoldBatch, AllScheduled, ScheduleCall, PauseOrAsk, BatchEnds, Journal, Abort,
                AskAborted, Reads, RunThrows, vars, RoundOK
  <2> QED BY <1>0, <2>1, <2>2 DEF PreparedOK, Suspended, ToPrepare
<1>3. ASSUME LiveAnswers
      PROVE  PreparedOK'
  <2>1. BeginRound(log) /\ UNCHANGED <<log, kept>> /\ phase' = "preparing"
    BY <1>3 DEF LiveAnswers, storeVars
  <2> QED BY <1>0, <2>1, PreparedStartsOK DEF StoredOK, Suspended
<1>4. ASSUME NEW copy \in copies, resume(copy)
      PROVE  PreparedOK'
  <2>1. BeginRound(log) /\ log' = log /\ phase' = "preparing" /\ kept # NothingKept
        /\ copy.revision = kept.revision
    BY <1>4 DEF resume, NotStale
  <2>2. copy = kept
    BY <2>1 DEF BatchInv, CopiesOK
  <2>3. kept'.pending = kept.pending /\ kept.inputs \subseteq kept'.inputs
    BY <1>0, <1>4, <2>2, ResumeTakes
  <2>4. \A call \in Calls : Suspended(call)' /\ call \notin kept'.inputs => call \notin ToSet(log)
    BY <2>3 DEF StoredOK, Suspended
  <2> QED BY <1>0, <2>1, <2>4, PreparedStartsOK
<1>5. ASSUME pauseRun \/ Finish \/ Crash
      PROVE  PreparedOK'
  BY <1>5 DEF pauseRun, Finish, Crash, PreparedOK, InHand
<1> QED BY <1>1, <1>2, <1>3, <1>4, <1>5, Zenon DEF Next

\* The frame of a pause lists calls that are not done (tool-call.ts:105-112,
\* 178-190).
LEMMA PausingKept ==
    ASSUME BatchInv, ServedInv, [Next]_vars
    PROVE  PausingOK'
<1> USE DEF ServedInv
<1>0. /\ SceneOK /\ BatchTypeOK /\ RoundOK /\ OutcomesOK /\ Calls' = Calls /\ Calls \subseteq Tasks
  BY CallsAreTasks, SceneStays DEF BatchInv, SceneOK
<1>1. ASSUME UNCHANGED <<prepared, outcome>>
      PROVE  /\ Interrupted' = Interrupted /\ Reparked' = Reparked /\ Runnable' = Runnable
             /\ (Held' <=> Held) /\ \A call \in Calls : RoundPending'[call] = RoundPending[call]
  <2>1. Interrupted' = Interrupted /\ Reparked' = Reparked /\ Runnable' = Runnable
    BY <1>0, <1>1 DEF Interrupted, Reparked, Runnable
  <2> HIDE DEF Interrupted, Reparked, Runnable
  <2>2. Held' <=> Held
    BY <2>1 DEF Held
  <2>3. \A call \in Calls : RoundPending'[call] = RoundPending[call]
    BY <1>0, <1>1, <2>1, <2>2 DEF RoundPending, HeldPending
  <2> QED BY <2>1, <2>2, <2>3
<1>2. CASE Schedule /\ HoldBatch
  <2>1. /\ phase = "preparing" /\ Held /\ UNCHANGED <<prepared, outcome, log>>
    BY <1>2 DEF Schedule, HoldBatch
  <2>2. \A call \in Calls : prepared[call] # "absent" => call \notin ToSet(log)
    BY <1>0, <2>1 DEF RoundOK
  <2>3. \A call \in Calls : RoundPending[call] = "input" => prepared[call] = "repark"
    BY <1>0, <2>1 DEF RoundPending, HeldPending, Reparked
  <2>4. \A call \in Calls : RoundPending[call] = "input" => call \notin ToSet(log)
    BY <2>2, <2>3
  <2>5. Held' /\ \A call \in Calls : RoundPending'[call] = RoundPending[call]
    BY <1>1, <2>1
  <2> QED BY <1>0, <2>1, <2>4, <2>5 DEF PausingOK
<1>3. CASE BatchEnds
  <2>1. phase = "running" /\ UNCHANGED <<prepared, outcome>>
    BY <1>3 DEF BatchEnds, roundVars
  <2>2. ~Held /\ Interrupted = {}
    BY <1>0, <2>1 DEF RoundOK, Held
  <2>3. ToSet(log') = ToSet(log) \union Resulted
    BY <1>0, <1>3, ResultsJoinLog
  <2>4. \A call \in Calls : RoundPending[call] = "input" => call \notin ToSet(log')
    <3> SUFFICES ASSUME NEW call \in Calls, RoundPending[call] = "input"
                 PROVE  call \notin ToSet(log')
      OBVIOUS
    <3>1. outcome[call] = "input"
      BY <1>0, <2>2 DEF RoundPending
    <3>2. call \notin ToSet(log) /\ call \notin Resulted
      BY <1>0, <2>1, <3>1 DEF OutcomesOK, RoundOK, Resulted
    <3> QED BY <2>3, <3>2
  <2>5. \A call \in Calls : prepared'[call] = "repark" => outcome'[call] = "input"
    BY <1>0, <2>1 DEF OutcomesOK
  <2>6. \A call \in Calls : RoundPending'[call] = RoundPending[call]
    BY <1>1, <2>1
  <2> HIDE DEF RoundPending, Held
  <2> QED BY <1>0, <2>4, <2>5, <2>6 DEF PausingOK
<1>4. CASE ~BatchEnds /\ ~(Schedule /\ HoldBatch)
  <2>1. phase' = "pausing" => phase = "pausing" /\ UNCHANGED <<prepared, outcome, log>>
    BY <1>4 DEF Next, vars, prepareCall, ToolSettles, ToolSuspends, GraceTimeout, Leave, LateSettle,
                Schedule, AllScheduled, ScheduleCall, Journal, Abort, LiveAnswers, AskAborted,
                pauseRun, Finish, Reads, resume, RunThrows, Crash, roundVars
  <2> QED BY <1>0, <1>1, <2>1 DEF PausingOK
<1> QED BY <1>2, <1>3, <1>4

\* A call that waits for an answer has no result (pause.ts:86-101).
LEMMA StoredKept ==
    ASSUME BatchInv, ServedInv, [Next]_vars
    PROVE  StoredOK'
<1> USE DEF ServedInv
<1>0. /\ SceneOK /\ BatchTypeOK /\ RoundOK /\ OutcomesOK /\ DecisionsOK /\ Calls' = Calls
      /\ Calls \subseteq Tasks /\ scene' = scene /\ OnDisk \subseteq OnDisk'
  BY CallsAreTasks, SceneStays, DiskOnlyGrows DEF BatchInv, SceneOK
<1>1. CASE pauseRun
  <2>1. phase = "pausing" /\ kept'.pending = RoundPending /\ log' = log
    BY <1>1 DEF pauseRun, Reify
  <2> HIDE DEF RoundPending
  <2> QED BY <1>0, <2>1 DEF StoredOK, Suspended, PausingOK
<1>2. CASE Finish
  <2>1. \A call \in Calls : NothingKept.pending[call] = "none"
    BY <1>0 DEF NothingKept, NoPending
  <2> QED BY <1>0, <1>2, <2>1 DEF Finish, StoredOK, Suspended
<1>3. ASSUME NEW copy \in copies, resume(copy)
      PROVE  StoredOK'
  <2>1. log' = log /\ kept # NothingKept /\ copy.revision = kept.revision
    BY <1>3 DEF resume, NotStale
  <2>2. copy = kept
    BY <2>1 DEF BatchInv, CopiesOK
  <2>3. kept'.pending = kept.pending /\ kept.inputs \subseteq kept'.inputs
    BY <1>0, <1>3, <2>2, ResumeTakes
  <2> QED BY <1>0, <2>1, <2>3 DEF StoredOK, Suspended
<1>4. CASE ~pauseRun /\ ~Finish /\ ~\E copy \in copies : resume(copy)
  <2>1. kept'.pending = kept.pending /\ kept'.inputs = kept.inputs
    <3>1. CASE RunThrows
      BY <1>0, <3>1 DEF RunThrows, BatchTypeOK, InterruptionType
    <3>2. CASE ~RunThrows
      BY <1>4, <3>2 DEF Next, vars, prepareCall, ToolSettles, ToolSuspends, GraceTimeout, Leave, LateSettle,
                Schedule, BatchEnds, Journal, Abort, LiveAnswers, AskAborted,
                Reads, Crash, storeVars
    <3> QED BY <3>1, <3>2
  <2>2. \A call \in Calls : Suspended(call) => call \in kept.inputs \/ call \notin ToSet(log')
    <3> SUFFICES ASSUME NEW call \in Calls, Suspended(call), call \notin kept.inputs
                 PROVE  call \notin ToSet(log')
      OBVIOUS
    <3>0. call \notin ToSet(log)
      BY DEF StoredOK
    <3>1. CASE BatchEnds
      <4>1. phase = "running" /\ ToSet(log') = ToSet(log) \union Resulted
        BY <1>0, <3>1, ResultsJoinLog DEF BatchEnds
      <4>2. prepared[call] = "repark"
        BY <1>0, <4>1 DEF PreparedOK, InHand, RoundOK, ToPrepare
      <4>3. outcome[call] = "input"
        BY <1>0, <4>1, <4>2 DEF OutcomesOK
      <4> QED BY <3>0, <4>1, <4>3 DEF Resulted
    <3>2. CASE Crash
      <4>1. log' = SubSeq(log, 1, flushed) /\ log \in Seq(Tasks) /\ flushed \in 0..Len(log)
        BY <1>0, <3>2 DEF Crash, BatchTypeOK
      <4>2. ToSet(log') \subseteq ToSet(log)
        BY <4>1, PrefixOfShard DEF ToSet
      <4> QED BY <3>0, <4>2
    <3>3. CASE ~BatchEnds /\ ~Crash
      <4>1. log' = log
        BY <1>4, <3>3 DEF Next, vars, prepareCall, ToolSettles, ToolSuspends, GraceTimeout, Leave, LateSettle,
                Schedule, Journal, Abort, LiveAnswers, AskAborted, Reads, RunThrows
      <4> QED BY <3>0, <4>1
    <3> QED BY <3>1, <3>2, <3>3
  <2> QED BY <1>0, <2>1, <2>2 DEF StoredOK, Suspended
<1> QED BY <1>1, <1>2, <1>3, <1>4

\* The steps that leave the answers that are owed alone.
LEMMA OwedLeftAlone ==
    ASSUME OwedOK, Calls' = Calls, UNCHANGED <<due, heldOver, prepared, active, queued, log>>,
           OnDisk \subseteq OnDisk',
           kept'.pending = kept.pending, kept'.inputs = kept.inputs,
           kept' = NothingKept <=> kept = NothingKept,
           phase' = phase \/ phase' \in {"aborted", "failed", "dead"},
           phase \in {"ended", "aborted", "dead"} => phase' \in {"ended", "aborted", "dead"}
    PROVE  OwedOK'
<1>1. Owed' \subseteq Owed /\ (Held' <=> Held)
  BY DEF Owed, Held, Interrupted
<1> HIDE DEF Owed, Held
<1> QED BY <1>1 DEF OwedOK, Suspended

\* An accepted answer is kept until its call starts with it (tool-call.ts:74-134,
\* pause.ts:86-101).
LEMMA OwedKept ==
    ASSUME BatchInv, ServedInv, [Next]_vars
    PROVE  OwedOK'
<1> USE DEF ServedInv
<1>0. /\ SceneOK /\ BatchTypeOK /\ RoundOK /\ DecisionsOK /\ Calls' = Calls /\ Calls \subseteq Tasks
      /\ scene' = scene /\ OnDisk \subseteq OnDisk' /\ OnDisk \subseteq ToSet(log)
  BY CallsAreTasks, SceneStays, DiskOnlyGrows DEF BatchInv, SceneOK
<1>0a. OutcomesOK
  BY DEF BatchInv
<1>1. ASSUME NEW call \in Calls, prepareCall(call)
      PROVE  OwedOK'
  <2>1. PICK kind \in PreparedKinds \ {"todo", "absent"} :
              /\ prepared' = [prepared EXCEPT ![call] = kind]
              /\ kind = "fresh" => frame.pending[call] # "input"
    BY <1>0, <1>1, Prepares
  <2>2. phase = "preparing" /\ UNCHANGED <<phase, kept, due, heldOver, active>>
    BY <1>1 DEF prepareCall, storeVars, historyVars, schedulerVars
  <2>3. Owed' \subseteq Owed
    BY <1>0, <2>2 DEF Owed
  <2>4. ASSUME call \in Owed
        PROVE  kind # "fresh"
    <3>1. Suspended(call)
      BY <2>2, <2>4 DEF OwedOK, Owed
    <3>2. frame.pending[call] = "input"
      BY <2>2, <3>1 DEF FrameOK, InHand, Suspended
    <3> QED BY <2>1, <3>2
  <2>5. \A c \in Owed : prepared'[c] # "fresh" /\ c \notin active'
    <3> SUFFICES ASSUME NEW c \in Owed
                 PROVE  prepared'[c] # "fresh"
      BY <2>2 DEF OwedOK
    <3>1. c \in Calls /\ prepared[c] # "fresh"
      BY <2>2 DEF OwedOK, Owed
    <3> QED BY <1>0, <2>1, <2>4, <3>1 DEF BatchTypeOK
  <2> HIDE DEF Owed
  <2> QED BY <1>0, <2>2, <2>3, <2>5 DEF OwedOK, Suspended
<1>2. ASSUME NEW call \in Calls, ToolSettles(call) \/ ToolSuspends(call) \/ GraceTimeout(call)
      PROVE  OwedOK'
  <2>1. /\ phase = "running" /\ UNCHANGED <<phase, prepared, kept>> /\ due' = due \ Started /\ finish(call)
        /\ heldOver' = heldOver \ Started
    BY <1>2 DEF ToolSettles, ToolSuspends, GraceTimeout, Leave, storeVars
  <2>2. active \cap queued = {}
    BY <1>0 DEF BatchTypeOK, SchedulerTypeOK
  <2>3. \A c \in queued : c \in Started \/ c \in queued'
    BY <2>1, <2>2 DEF finish, Started, Unblocked
  <2>4. Owed' \subseteq Owed /\ Owed' \cap Started = {}
    BY <1>0, <2>1 DEF Owed
  <2>5. due' \subseteq due
    BY <2>1
  <2> HIDE DEF Owed
  <2> QED BY <1>0, <2>1, <2>3, <2>4, <2>5 DEF OwedOK, Suspended
<1>3. ASSUME Schedule
      PROVE  OwedOK'
  <2>0. UNCHANGED <<prepared, kept>> /\ due' = due \ Started /\ heldOver' = heldOver \ Started
    BY <1>3 DEF Schedule, storeVars
  <2>1. Owed' \subseteq Owed /\ Owed' \cap Started = {} /\ due' \subseteq due
    BY <1>0, <2>0 DEF Owed
  <2>2. CASE HoldBatch
    <3>1. phase = "preparing" /\ phase' \in {"asking", "pausing"}
      BY <2>2 DEF HoldBatch, PauseOrAsk
    <3>2. Held'
      BY <1>0, <2>0, <2>2 DEF HoldBatch, Held, Interrupted
    <3> HIDE DEF Owed, Held
    <3> QED BY <1>0, <2>0, <2>1, <3>1, <3>2 DEF OwedOK, Suspended
  <2>3. CASE AllScheduled
    <3>1. /\ phase = "preparing" /\ phase' = "running" /\ ToPrepare = {} /\ Runnable \subseteq added
          /\ ~Held
          /\ UNCHANGED <<active, queued>>
      BY <2>3 DEF AllScheduled, schedulerVars
    <3>2. \A c \in Owed : prepared[c] = "result" \/ (prepared[c] = "resumed" /\ c \in queued)
      <4> SUFFICES ASSUME NEW c \in Owed, prepared[c] # "result"
                   PROVE  prepared[c] = "resumed" /\ c \in queued
        OBVIOUS
      <4>1. c \in Calls /\ prepared[c] # "fresh" /\ c \notin active
        BY <3>1 DEF OwedOK, Owed
      <4>2. prepared[c] # "todo" /\ prepared[c] # "interrupt"
        BY <3>1, <4>1 DEF ToPrepare, Held, Interrupted
      <4>3. prepared[c] # "absent"
        <5>1. c \notin OnDisk /\ OnDisk = ToSet(log)
          BY <1>0, <3>1, DiskOnlyGrows DEF Owed, FrameOK
        <5> QED BY <1>0, <3>1, <4>1, <5>1 DEF RoundOK
      <4>4. prepared[c] # "repark"
        <5>1. Suspended(c) /\ c \in kept.inputs
          BY <3>1 DEF OwedOK, Owed
        <5> QED BY <3>1, <4>1, <5>1 DEF PreparedOK, InHand, Suspended
      <4>5. prepared[c] = "resumed"
        BY <1>0, <4>1, <4>2, <4>3, <4>4 DEF BatchTypeOK, PreparedKinds
      <4>6. c \in Unfinished
        BY <1>0, <3>1, <4>1, <4>5 DEF Runnable, RoundOK
      <4> QED BY <4>1, <4>5, <4>6 DEF Unfinished
    <3> HIDE DEF Owed
    <3> QED BY <1>0, <2>0, <2>1, <3>1, <3>2 DEF OwedOK, Suspended
  <2>4. ASSUME NEW call \in Calls, ScheduleCall(call)
        PROVE  OwedOK'
    <3>1. phase = "preparing" /\ phase' = "preparing" /\ add(call)
      BY <2>4 DEF ScheduleCall
    <3>2. \A c \in active' : c \in active \/ c \in Started
      BY DEF Started
    <3> HIDE DEF Owed
    <3> QED BY <1>0, <2>0, <2>1, <3>1, <3>2 DEF OwedOK, Suspended
  <2> QED BY <1>3, <2>2, <2>3, <2>4 DEF Schedule
<1>4. ASSUME BatchEnds
      PROVE  OwedOK'
  <2>1. /\ phase = "running" /\ Unfinished = {} /\ UNCHANGED <<due, heldOver, kept>>
        /\ phase' \in {"pausing", "ended", "aborted"}
    BY <1>4 DEF BatchEnds, storeVars, historyVars
  <2>2. Owed' \subseteq Owed
    BY <1>0, <2>1 DEF Owed
  <2>3. \A c \in Owed : c \in Calls /\ prepared[c] = "result"
    BY <2>1 DEF OwedOK, Owed, Unfinished
  <2>4. Owed \subseteq Resulted
    BY <1>0a, <2>1, <2>3 DEF OutcomesOK, Resulted
  <2>5. Owed' \subseteq ToSet(log')
    BY <1>0, <1>4, <2>2, <2>4, ResultsJoinLog
  <2> HIDE DEF Owed
  <2> QED BY <1>0, <2>1, <2>2, <2>5 DEF OwedOK, Suspended
<1>5. ASSUME LiveAnswers
      PROVE  OwedOK'
  <2>1. /\ phase = "asking" /\ phase' = "preparing" /\ UNCHANGED <<due, heldOver, kept, log>>
        /\ BeginRound(log)
    BY <1>5 DEF LiveAnswers, storeVars
  <2>2. Owed' \subseteq Owed
    BY <1>0, <2>1 DEF Owed
  <2>3. OnDisk = ToSet(log)
    BY <1>0, <2>1, DiskOnlyGrows DEF FrameOK
  <2>4. active' = {} /\ \A c \in Calls : c \notin ToSet(log) => prepared'[c] = "todo"
    BY <1>0, <2>1, RoundBegins
  <2>5. \A c \in Owed' : prepared'[c] = "todo"
    BY <1>0, <2>2, <2>3, <2>4 DEF Owed, OwedOK
  <2> HIDE DEF Owed
  <2> QED BY <1>0, <2>1, <2>2, <2>4, <2>5 DEF OwedOK, Suspended
<1>6. ASSUME pauseRun
      PROVE  OwedOK'
  <2>1. /\ phase = "pausing" /\ phase' = "paused" /\ UNCHANGED <<due, log>> /\ kept' = Reify(RoundPending)
        /\ flushed = Len(log) /\ heldOver' = IF Held THEN heldOver \union due ELSE heldOver
    BY <1>6 DEF pauseRun, FlushedBeforePause
  <2>2. OnDisk = ToSet(log)
    BY <1>0, <2>1, DiskOnlyGrows
  <2>3. Owed' = {}
    <3>1. CASE Held
      BY <2>1, <3>1 DEF Owed
    <3>2. CASE ~Held
      BY <1>0, <2>1, <2>2, <3>2 DEF Owed, OwedOK
    <3> QED BY <3>1, <3>2
  <2>4. kept' # NothingKept
    BY <2>1 DEF Reify, NothingKept
  <2> HIDE DEF Owed
  <2> QED BY <1>0, <2>1, <2>3, <2>4 DEF OwedOK
<1>7. ASSUME Finish
      PROVE  OwedOK'
  BY <1>0, <1>7 DEF Finish, historyVars, OwedOK
<1>8. ASSUME NEW copy \in copies, resume(copy)
      PROVE  OwedOK'
  <2>1. /\ UNCHANGED <<log, heldOver>> /\ kept # NothingKept /\ copy.revision = kept.revision
        /\ phase \in {"paused", "failed", "dead"} /\ phase' = "preparing" /\ BeginRound(log)
    BY <1>8 DEF resume, NotStale
  <2>2. copy = kept
    BY <2>1 DEF BatchInv, CopiesOK
  <2>3. /\ kept'.pending = kept.pending /\ kept.inputs \subseteq kept'.inputs /\ kept'.phase = "resuming"
        /\ \A c \in due' \ due : c \in Calls /\ kept.pending[c] = "input" /\ c \in kept'.inputs
    BY <1>0, <1>8, <2>2, ResumeTakes
  <2>4. OnDisk = ToSet(log)
    BY <1>0, <2>1, DiskOnlyGrows DEF FrameOK
  <2>5. active' = {} /\ \A c \in Calls : c \notin ToSet(log) => prepared'[c] = "todo"
    BY <1>0, <2>1, RoundBegins
  <2>6. due' \subseteq Calls
    BY <2>3 DEF OwedOK
  <2>7. \A c \in Owed' : kept'.pending[c] = "input" /\ c \in kept'.inputs
    <3> SUFFICES ASSUME NEW c \in Owed'
                 PROVE  kept'.pending[c] = "input" /\ c \in kept'.inputs
      OBVIOUS
    <3>1. CASE c \in due
      <4>1. c \in Owed
        BY <1>0, <2>1, <3>1 DEF Owed
      <4> QED BY <2>1, <2>3, <4>1 DEF OwedOK, Suspended
    <3>2. CASE c \notin due
      BY <2>3, <3>2 DEF Owed
    <3> QED BY <3>1, <3>2
  <2>8. \A c \in Owed' : prepared'[c] = "todo"
    BY <1>0, <2>4, <2>5, <2>6 DEF Owed
  <2>9. kept' # NothingKept
    BY <2>3 DEF NothingKept
  <2> HIDE DEF Owed
  <2> QED BY <1>0, <2>1, <2>5, <2>6, <2>7, <2>8, <2>9 DEF OwedOK, Suspended
<1>9. ASSUME RunThrows
      PROVE  OwedOK'
  <2>1. /\ UNCHANGED <<due, heldOver, prepared, active, queued, log>>
        /\ phase' = "failed" /\ phase \in {"preparing", "asking"}
    BY <1>9 DEF RunThrows, roundVars
  <2>2. /\ kept'.pending = kept.pending /\ kept'.inputs = kept.inputs
        /\ kept' = NothingKept <=> kept = NothingKept
    <3>1. CASE kept.phase = "resuming"
      <4>1. /\ kept'.pending = kept.pending /\ kept'.inputs = kept.inputs /\ kept'.phase = "recovery_required"
        BY <1>0, <1>9, <3>1 DEF RunThrows, BatchTypeOK, InterruptionType
      <4> QED BY <3>1, <4>1 DEF NothingKept
    <3>2. CASE kept.phase # "resuming"
      BY <1>9, <3>2 DEF RunThrows
    <3> QED BY <3>1, <3>2
  <2> QED BY <1>0, <2>1, <2>2, OwedLeftAlone
<1>10. ASSUME Crash
       PROVE  OwedOK'
  <2>1. UNCHANGED <<due, heldOver, kept>> /\ phase' = "dead"
    BY <1>10 DEF Crash, storeVars
  <2>2. Owed' \subseteq Owed
    BY <1>0, <2>1 DEF Owed
  <2> HIDE DEF Owed
  <2> QED BY <1>0, <2>1, <2>2 DEF OwedOK, Suspended
<1>11. ASSUME \/ \E call \in Calls : LateSettle(call)
              \/ Journal \/ Abort \/ AskAborted \/ Reads \/ UNCHANGED vars
       PROVE  OwedOK'
  <2>1. UNCHANGED <<due, heldOver, prepared, active, queued, kept, log>>
    BY <1>11 DEF LateSettle, Journal, Abort, AskAborted, Reads, vars, storeVars, historyVars,
                 roundVars, schedulerVars
  <2>2. phase' = phase \/ (phase' = "aborted" /\ phase = "asking")
    BY <1>11 DEF LateSettle, Journal, Abort, AskAborted, Reads, vars
  <2> QED BY <1>0, <2>1, <2>2, OwedLeftAlone
<1> QED BY <1>1, <1>2, <1>3, <1>4, <1>5, <1>6, <1>7, <1>8, <1>9, <1>10, <1>11, Zenon DEF Next

LEMMA ServedInitially == Init => ServedInv
<1> SUFFICES ASSUME Init PROVE ServedInv
  OBVIOUS
<1>1. Calls \subseteq Tasks
  BY CallsAreTasks DEF Init
<1>2. /\ kept = NothingKept /\ frame = NoFrame /\ answers = NoAnswers /\ due = {}
      /\ log = <<>> /\ flushed = 0 /\ phase = "preparing"
      /\ \A call \in Calls : prepared[call] = "todo"
  BY <1>1 DEF Init
<1>3. \A call \in Calls : kept.pending[call] = "none"
  BY <1>1, <1>2 DEF NothingKept, NoPending
<1>4. frame.pending = kept.pending /\ frame.inputs = kept.inputs /\ Len(log) = 0
  BY <1>2 DEF NothingKept, NoFrame
<1> QED BY <1>2, <1>3, <1>4 DEF ServedInv, FrameOK, PreparedOK, PausingOK, StoredOK, OwedOK, Owed,
                                Suspended

\* A call that suspended for input stays in the frames until it is answered and
\* is run with the answer, in whatever round, unless a pause for an approval
\* passed over it in between (tool-call.ts:74-78, tool/types.ts:39-45).
THEOREM AnswersReachTheirCalls == Spec => SuspendedCallsAreServed
<1>1. Init => BatchInv /\ ServedInv
  BY BatchInvInitially, ServedInitially
<1>2. BatchInv /\ ServedInv /\ [Next]_vars => BatchInv' /\ ServedInv'
  <2>1. ASSUME BatchInv, ServedInv, [Next]_vars
        PROVE  FrameOK' /\ PreparedOK' /\ PausingOK' /\ StoredOK' /\ OwedOK'
    BY <2>1, FrameKept, PreparedKept, PausingKept, StoredKept, OwedKept
  <2> QED BY <2>1, BatchInvKept DEF ServedInv
<1>3. BatchInv /\ ServedInv /\ [Next]_vars
        => [\A call \in Started : call \in due \ heldOver => prepared[call] = "resumed"]_vars
  <2> SUFFICES ASSUME BatchInv, ServedInv, [Next]_vars, NEW call \in Started, call \in due \ heldOver
               PROVE  prepared[call] = "resumed"
    OBVIOUS
  <2>1. call \in Calls /\ call \in Runnable /\ phase \in {"preparing", "running"}
    BY WhoStarts
  <2>2. prepared[call] \in {"fresh", "resumed"}
    BY <2>1 DEF Runnable
  <2>3. call \notin ToSet(log)
    BY <2>1, <2>2 DEF BatchInv, RoundOK
  <2>4. call \in Owed
    BY <2>3, DiskOnlyGrows DEF BatchInv, Owed
  <2> QED BY <2>1, <2>2, <2>4 DEF ServedInv, OwedOK
<1>4. BatchInv /\ ServedInv /\ [Next]_vars
        => [phase' = "paused" /\ phase # "paused" =>
             \A call \in Calls :
                kept.pending[call] = "input" /\ call \notin kept.inputs
                    => kept'.pending[call] = "input"]_vars
  <2> SUFFICES ASSUME BatchInv, ServedInv, [Next]_vars, phase' = "paused", phase # "paused",
                      NEW call \in Calls, kept.pending[call] = "input", call \notin kept.inputs
               PROVE  kept'.pending[call] = "input"
    OBVIOUS
  <2>1. pauseRun
    BY DEF Next, vars, prepareCall, ToolSettles, ToolSuspends, GraceTimeout, Leave, LateSettle,
           Schedule, HoldBatch, AllScheduled, ScheduleCall, PauseOrAsk, BatchEnds, Journal, Abort,
           LiveAnswers, AskAborted, Finish, Reads, resume, RunThrows, Crash
  <2>2. phase = "pausing" /\ kept'.pending = RoundPending
    BY <2>1 DEF pauseRun, Reify
  <2>3. prepared[call] = "repark"
    BY <2>2 DEF ServedInv, PreparedOK, InHand, Suspended
  <2>4. call \in Tasks
    BY CallsAreTasks DEF BatchInv, SceneOK
  <2>5. CASE Held
    BY <2>2, <2>3, <2>4, <2>5 DEF RoundPending, HeldPending, Interrupted, Reparked
  <2>6. CASE ~Held
    BY <2>2, <2>3, <2>4, <2>6 DEF RoundPending, ServedInv, PausingOK
  <2> QED BY <2>5, <2>6
<1> QED BY <1>1, <1>2, <1>3, <1>4, PTL DEF Spec, SuspendedCallsAreServed, UnansweredStaysPending,
           AnswerIsDelivered
=============================================================================
