----------------------------- MODULE ToolBatch -----------------------------
(***************************************************************************)
(* The tool calls of one assistant message, from the first time the loop   *)
(* runs them to the last resume (agents-core/src/loop/tool-call.ts,        *)
(* run-turn.ts, agent/runner.ts, agent/pause.ts, loop/interruption.ts).    *)
(*                                                                         *)
(* A round goes through the calls that have no result in the log yet:      *)
(* each is prepared (resolved and authorised), and if none of them waits   *)
(* for an approval the runnable ones go to a ToolScheduler.  A round in    *)
(* which some call waits for the user, for an approval or for the input a  *)
(* tool suspended for, ends in a pause: a live approver is asked on the    *)
(* spot, otherwise the frame is written to the session's store and the run *)
(* ends; a client answers some of the calls and resumes it, in this        *)
(* process or, after a crash, in another one.                              *)
(*                                                                         *)
(* Calls are numbered in provider order and are the tasks of the scheduler.*)
(* What the code runs without an await is one action.  scene is chosen     *)
(* once and never changes: it says what the calls of a behaviour may do.   *)
(* Frames of child agents and nested calls are not modelled.               *)
(***************************************************************************)
EXTENDS ToolScheduler, SequencesExt

CONSTANTS
    Scenes,       \* the scenes of a run
    MaxSuspends   \* bound: how often the tool of one call suspends

ASSUME MaxSuspendsAssumption == MaxSuspends \in Nat
ASSUME ScenesAssumption ==
    \A s \in Scenes : /\ s.calls \in 0..NumTasks
                       /\ s.accesses \subseteq [Tasks -> SUBSET Access]
                       /\ s.verdicts \in [Tasks -> SUBSET {"allow", "deny", "ask", "block"}]

VARIABLES
    scene,      \* what may happen in this behaviour
    phase,      \* where the run is
    prepared,   \* what runCalls prepared each call of the round to be
    outcome,    \* how each call of the round ended
    executing,  \* calls whose tool has not really settled
    aborted,    \* the run's signal
    answers,    \* state.answers, the approvals of this run
    frame,      \* state.interruption and state.inputAnswers, of this frame
    log,        \* the calls with a result, in the order of the shard
    flushed,    \* how much of the shard is on disk
    kept,       \* the interruption in the store
    copies,     \* the states of it that clients have read
    resumes,    \* resumes so far
    faults,     \* crashes and errors so far
    suspends,   \* how often each call has suspended
    due,        \* history: calls whose input answer was taken, not yet delivered
    heldOver,   \* history: those of them that a pause for an approval passed over
    decided,    \* history: the user's last decision on each call
    settled,    \* history: calls that were complete when a frame was published
    taken       \* history: revisions of the interruption that were resumed

storeVars == <<kept, copies>>
historyVars == <<due, heldOver, decided, settled, taken>>
roundVars == <<prepared, outcome, added, active, queued, executing>>
vars == <<scene, phase, roundVars, accesses, aborted, answers, frame, log,
          flushed, storeVars, resumes, faults, suspends, historyVars>>

Calls == 1..scene.calls

Phases == {"preparing", "running", "asking", "pausing",
           "paused", "ended", "aborted", "failed", "dead"}

PreparedKinds == {"todo", "absent", "result", "repark", "interrupt", "fresh", "resumed"}

Pending == {"none", "approval", "input"}

\* interruption: the part of InterruptionState that belongs to this frame
NoAnswers == [call \in Tasks |-> "none"]
NoPending == [call \in Tasks |-> "none"]
NoFrame == [pending |-> NoPending, inputs |-> {}]
NothingKept == [revision |-> 0, phase |-> "absent", pending |-> NoPending,
                decisions |-> NoAnswers, inputs |-> {}]

InterruptionType ==
    [revision : Nat, phase : {"absent", "waiting", "resuming", "recovery_required"},
     pending : [Tasks -> Pending],
     decisions : [Tasks -> {"none", "approved", "rejected"}],
     inputs : SUBSET Tasks]

BatchTypeOK ==
    /\ SchedulerTypeOK
    /\ phase \in Phases
    /\ prepared \in [Tasks -> PreparedKinds]
    /\ outcome \in [Tasks -> {"none", "result", "input"}]
    /\ executing \in SUBSET Tasks
    /\ aborted \in BOOLEAN
    /\ answers \in [Tasks -> {"none", "approved", "rejected"}]
    /\ frame \in [pending : [Tasks -> Pending], inputs : SUBSET Tasks]
    /\ log \in Seq(Tasks)
    /\ flushed \in 0..Len(log)
    /\ kept \in InterruptionType
    /\ copies \in SUBSET InterruptionType
    /\ due \in SUBSET Tasks
    /\ heldOver \in SUBSET Tasks

---------------------------------------------------------------------------
(* A round.                                                                *)

\* Bug: the results already in the log are forgotten.
BugCompletedNone(shard) == {}

completedToolCallIds(shard) == ToSet(shard)

\* The calls of the round: those without a result.
InRound(shard) == Calls \ completedToolCallIds(shard)

BeginRound(shard) ==
    /\ prepared' = [call \in Tasks |-> IF call \in InRound(shard) THEN "todo" ELSE "absent"]
    /\ outcome' = [call \in Tasks |-> "none"]
    /\ newScheduler

Init ==
    /\ scene \in Scenes
    /\ accesses \in scene.accesses
    /\ EmptyScheduler
    /\ phase = "preparing"
    /\ prepared = [call \in Tasks |-> IF call \in Calls THEN "todo" ELSE "absent"]
    /\ outcome = [call \in Tasks |-> "none"]
    /\ executing = {}
    /\ aborted = FALSE
    /\ answers = NoAnswers
    /\ frame = NoFrame
    /\ log = <<>> /\ flushed = 0
    /\ kept = NothingKept /\ copies = {}
    /\ resumes = 0 /\ faults = 0
    /\ suspends = [call \in Tasks |-> 0]
    /\ due = {} /\ heldOver = {} /\ decided = NoAnswers /\ settled = {} /\ taken = {}

ToPrepare == {call \in Calls : prepared[call] = "todo"}

\* Bug: any answer of the user is taken for an approval.
BugAnyAnswerRuns(call, verdict) ==
    CASE answers[call] # "none" \/ verdict = "allow" -> "run"
      [] answers[call] = "none" /\ verdict \in {"deny", "block"} -> "result"
      [] answers[call] = "none" /\ verdict = "ask" -> "interrupt"

\* A call that a guardrail blocks, whose tool is gone or whose resolve throws
\* ("block") has its result before anybody is asked.  buildAuthorizer: the
\* user's decision if there is one, else the policies' verdict.
Authorize(call, verdict) ==
    IF \/ verdict = "block" \/ answers[call] = "rejected"
       \/ answers[call] = "none" /\ verdict = "deny"
    THEN "result"
    ELSE IF answers[call] = "approved" \/ verdict = "allow" THEN "run" ELSE "interrupt"

\* Bug: the answered call is run, but without what it suspended with.
BugPrepareNoResume(call, verdict) ==
    IF frame.pending[call] = "input" /\ call \notin frame.inputs
    THEN "repark"
    ELSE LET ok == Authorize(call, verdict)
         IN  IF ok = "run" THEN "fresh" ELSE ok

\* prepareCall: a call that suspended for input is left alone until it is
\* answered; every other call, answered ones included, is authorised.
PreparedAs(call, verdict) ==
    IF frame.pending[call] = "input" /\ call \notin frame.inputs
    THEN "repark"
    ELSE LET ok == Authorize(call, verdict)
         IN  IF ok # "run" THEN ok
             ELSE IF frame.pending[call] = "input" THEN "resumed" ELSE "fresh"

\* Phase A, one call after the other in provider order.
prepareCall(call) ==
    /\ phase = "preparing"
    /\ call \in ToPrepare
    /\ \A other \in ToPrepare : call <= other
    /\ \E verdict \in scene.verdicts[call] :
         prepared' = [prepared EXCEPT ![call] = PreparedAs(call, verdict)]
    /\ UNCHANGED <<scene, phase, outcome, schedulerVars, executing, aborted,
                   answers, frame, log, flushed, storeVars, resumes, faults,
                   suspends, historyVars>>

Interrupted == {call \in Calls : prepared[call] = "interrupt"}
Reparked    == {call \in Calls : prepared[call] = "repark"}
Runnable    == {call \in Calls : prepared[call] \in {"fresh", "resumed"}}

\* Bug: the batch is only held when there is nothing else to run.
BugHeldWhenIdle == Interrupted # {} /\ Runnable = {}

\* One call that needs approval suspends the whole batch.
Held == Interrupted # {}

\* approvalPending: the frame of a round that is held.
HeldPending(call) ==
    CASE call \in Interrupted -> "approval"
      [] call \in Reparked    -> "input"
      [] OTHER                -> "none"

\* Bug: only a fresh suspension is reported, a reparked call is dropped.
BugRoundPendingFresh ==
    [call \in Tasks |->
        IF Held THEN HeldPending(call)
        ELSE IF outcome[call] = "input" /\ call \notin Reparked THEN "input" ELSE "none"]

\* The pending list runCalls returns: what the held batch waits for, or what
\* its tools suspended for and what was reparked.
RoundPending ==
    [call \in Tasks |->
        IF Held THEN HeldPending(call)
        ELSE IF outcome[call] = "input" THEN "input" ELSE "none"]

\* Runner: with a live approver, a round that waits for approvals only is
\* answered in memory, otherwise the run is paused.
PauseOrAsk(pending) ==
    IF scene.live /\ \A call \in Tasks : pending[call] # "input"
    THEN "asking" ELSE "pausing"

\* The batch is held: nothing is run.
HoldBatch ==
    /\ phase = "preparing" /\ ToPrepare = {} /\ Held
    /\ phase' = PauseOrAsk(RoundPending)
    /\ UNCHANGED <<outcome, schedulerVars, executing>>

\* Phase B: the calls are handed to the scheduler one by one in provider
\* order.  There is no await between two of them: nothing else happens
\* until the last one is added.  A task that is not blocked calls its tool
\* within add.
ScheduleCall(call) ==
    /\ phase = "preparing" /\ ToPrepare = {} /\ ~Held
    /\ call \in Runnable \ added
    /\ \A other \in Runnable \ added : call <= other
    /\ add(call)
    /\ executing' = executing \union (active' \ active)
    /\ UNCHANGED <<phase, outcome>>

\* Everything is added: calls that were answered without a tool, and those
\* that stay suspended, have their outcome at once.
AllScheduled ==
    /\ phase = "preparing" /\ ToPrepare = {} /\ ~Held
    /\ Runnable \subseteq added
    /\ phase' = "running"
    /\ outcome' = [call \in Tasks |->
                     CASE prepared[call] = "result" -> "result"
                       [] prepared[call] = "repark" -> "input"
                       [] OTHER -> "none"]
    /\ UNCHANGED <<schedulerVars, executing>>

\* The calls whose tool is called by a step.
Started == active' \ active

Schedule ==
    /\ HoldBatch \/ AllScheduled \/ \E call \in Calls : ScheduleCall(call)
    /\ due' = due \ Started
    /\ heldOver' = heldOver \ Started
    /\ UNCHANGED <<scene, prepared, aborted, answers, frame, log, flushed,
                   storeVars, resumes, faults, suspends, decided, settled, taken>>

\* runAndFinalize ends: the scheduler frees the slot and starts whatever
\* that unblocks, with an aborted signal too.
Leave(call, how) ==
    /\ phase = "running"
    /\ finish(call)
    /\ outcome' = [outcome EXCEPT ![call] = how]
    /\ due' = due \ Started
    /\ heldOver' = heldOver \ Started
    /\ UNCHANGED <<scene, phase, prepared, aborted, answers, frame, log, flushed,
                   storeVars, resumes, faults, decided, settled, taken>>

\* The tool returns or throws; finalizeToolResult is part of the step.
ToolSettles(call) ==
    /\ Leave(call, "result")
    /\ executing' = (executing \ {call}) \union Started
    /\ UNCHANGED suspends

\* The tool calls suspend().
ToolSuspends(call) ==
    /\ call \in scene.suspending
    /\ suspends[call] < MaxSuspends
    /\ Leave(call, "input")
    /\ executing' = (executing \ {call}) \union Started
    /\ suspends' = [suspends EXCEPT ![call] = @ + 1]

\* After an abort the framework waits GRACE_TIMEOUT_MS for a tool that does
\* not settle, then goes on without it: the tool itself runs on.
GraceTimeout(call) ==
    /\ aborted
    /\ Leave(call, "result")
    /\ executing' = executing \union Started
    /\ UNCHANGED suspends

\* A tool that was given up on settles after all; nobody listens.
LateSettle(call) ==
    /\ call \in executing \ active
    /\ executing' = executing \ {call}
    /\ UNCHANGED <<scene, phase, prepared, outcome, schedulerVars, aborted,
                   answers, frame, log, flushed, storeVars, resumes, faults,
                   suspends, historyVars>>

\* The results of the round in provider order.
Resulted == {call \in Calls : outcome[call] = "result"}
RoundResults ==
    CHOOSE results \in [1..Cardinality(Resulted) -> Resulted] :
        \A i, j \in DOMAIN results : i < j => results[i] < results[j]

\* Promise.all: every call has its outcome.  The results go into the log,
\* and the run goes on to the model unless some call waits for the user.
BatchEnds ==
    /\ phase = "running"
    /\ Unfinished = {} /\ Runnable \subseteq added
    /\ log' = log \o RoundResults
    /\ phase' = IF \E call \in Tasks : RoundPending[call] # "none" THEN "pausing"
                ELSE IF aborted THEN "aborted" ELSE "ended"
    /\ UNCHANGED <<scene, prepared, outcome, schedulerVars, executing, aborted,
                   answers, frame, flushed, storeVars, resumes, faults, suspends,
                   historyVars>>

\* The journal writes the shard record by record, in order.
Journal ==
    /\ phase # "dead"
    /\ flushed < Len(log)
    /\ flushed' = flushed + 1
    /\ UNCHANGED <<scene, phase, roundVars, accesses, aborted, answers, frame, log,
                   storeVars, resumes, faults, suspends, historyVars>>

---------------------------------------------------------------------------
(* The user.                                                               *)

Abort ==
    /\ scene.aborts /\ ~aborted
    /\ phase \in {"preparing", "running", "asking"}
    /\ phase = "preparing" => added = {}
    /\ aborted' = TRUE
    /\ UNCHANGED <<scene, phase, roundVars, accesses, answers, frame, log, flushed,
                   storeVars, resumes, faults, suspends, historyVars>>

\* The live approver's decisions on every approval of the round.  They are
\* asked for one by one but come into force together, after the last.
LiveAnswers ==
    /\ phase = "asking"
    /\ \E decision \in [Interrupted -> {"approved", "rejected"}] :
         /\ answers' = [call \in Tasks |->
                          IF call \in Interrupted THEN decision[call] ELSE answers[call]]
    /\ ~aborted
    /\ decided' = answers'
    /\ phase' = "preparing"
    /\ BeginRound(log)
    /\ UNCHANGED <<scene, executing, aborted, frame, log, flushed, storeVars,
                   resumes, faults, suspends, due, heldOver, settled, taken>>

\* The run is aborted while the approver is asked: it finishes.  The
\* approver may have refused or not; no answer is kept.
AskAborted ==
    /\ phase = "asking" /\ aborted
    /\ phase' = "aborted"
    /\ UNCHANGED <<scene, roundVars, accesses, aborted, answers, frame, log, flushed,
                   storeVars, resumes, faults, suspends, historyVars>>

\* Bug: the shard is not flushed before the frame is published.
BugFlushedAnyway == TRUE

FlushedBeforePause == flushed = Len(log)

\* Bug: the decisions of earlier pauses are left out of the new frame.
BugReifyNoDecisions(pending) ==
    [revision |-> kept.revision + 1, phase |-> "waiting", pending |-> pending,
     decisions |-> NoAnswers,
     inputs |-> {call \in frame.inputs : pending[call] # "input"}]

\* reify: the frame a pause writes.  Answers are one-shot: a call that
\* suspends again must not see the one it has consumed.
Reify(pending) ==
    [revision |-> kept.revision + 1, phase |-> "waiting", pending |-> pending,
     decisions |-> answers,
     inputs |-> {call \in frame.inputs : pending[call] # "input"}]

\* pauseRun: the shard first, then the frame that refers to it.
pauseRun ==
    /\ phase = "pausing"
    /\ FlushedBeforePause
    /\ kept' = Reify(RoundPending)
    /\ copies' = copies \union {kept'}
    /\ phase' = "paused"
    /\ settled' = settled \union ToSet(log)
    /\ heldOver' = IF Held THEN heldOver \union due ELSE heldOver
    /\ UNCHANGED <<scene, roundVars, accesses, aborted, answers, frame, log, flushed,
                   resumes, faults, suspends, due, decided, taken>>

\* A run that ends for good takes the interruption it continued with it.
Finish ==
    /\ phase \in {"ended", "aborted"}
    /\ kept # NothingKept
    /\ kept' = NothingKept
    /\ UNCHANGED <<scene, phase, roundVars, accesses, aborted, answers, frame, log,
                   flushed, copies, resumes, faults, suspends, historyVars>>

\* A client reads the interruption.
Reads ==
    /\ phase \in {"paused", "failed", "dead"}
    /\ kept # NothingKept /\ kept \notin copies
    /\ copies' = copies \union {kept}
    /\ UNCHANGED <<scene, phase, roundVars, accesses, aborted, answers, frame, log,
                   flushed, kept, resumes, faults, suspends, historyVars>>

\* Bug: any copy of the interruption will do.
BugNotStale(copy) == TRUE

NotStale(copy) == copy.revision = kept.revision

\* Runner.resume: a client answers some of the calls its copy of the
\* interruption says are pending.  A copy that is not what the store holds
\* is refused.  The answers are in the store before the batch is run again.
resume(copy) ==
    /\ phase \in {"paused", "failed", "dead"}
    /\ resumes < scene.resumes
    /\ kept # NothingKept /\ NotStale(copy)
    /\ \E inputs \in SUBSET {call \in Calls : copy.pending[call] = "input"},
          approvals \in SUBSET {call \in Calls : copy.pending[call] = "approval"} :
         \E decision \in [approvals -> {"approved", "rejected"}] :
           /\ kept' = [copy EXCEPT
                !.phase = "resuming", !.revision = @ + 1,
                !.inputs = @ \union inputs,
                !.decisions = [call \in Tasks |->
                    IF call \in approvals THEN decision[call] ELSE @[call]]]
           /\ due' = due \union inputs
           /\ decided' = [call \in Tasks |->
                IF call \in approvals THEN decision[call] ELSE decided[call]]
    /\ answers' = kept'.decisions
    /\ frame' = [pending |-> kept'.pending, inputs |-> kept'.inputs]
    /\ phase' = "preparing"
    /\ aborted' = FALSE
    /\ BeginRound(log)
    /\ resumes' = resumes + 1
    /\ taken' = taken \union {copy.revision}
    /\ UNCHANGED <<scene, executing, log, flushed, copies, faults, suspends, heldOver, settled>>

---------------------------------------------------------------------------
(* Failures.  What a live approver decided is in memory only: a run that   *)
(* fails takes it along, and decided falls back to what the store holds.   *)

\* A policy, a hook or the approver throws.  A run that was resumed leaves
\* its interruption marked; a first run leaves nothing to resume.
RunThrows ==
    /\ faults < scene.faults
    /\ phase \in {"preparing", "asking"} /\ added = {}
    /\ phase' = "failed"
    /\ kept' = IF kept.phase = "resuming"
               THEN [kept EXCEPT !.phase = "recovery_required", !.revision = @ + 1]
               ELSE kept
    /\ faults' = faults + 1
    /\ decided' = kept.decisions
    /\ UNCHANGED <<scene, roundVars, accesses, aborted, answers, frame, log, flushed,
                   copies, resumes, suspends, due, heldOver, settled, taken>>

\* The process dies: the store keeps the interruption and what was journaled.
Crash ==
    /\ faults < scene.faults
    /\ phase \in {"preparing", "running", "asking", "pausing", "paused", "ended", "aborted"}
    /\ phase = "preparing" => added = {}
    /\ phase' = "dead"
    /\ log' = SubSeq(log, 1, flushed)
    /\ executing' = {}
    /\ newScheduler
    /\ faults' = faults + 1
    /\ decided' = kept.decisions
    /\ UNCHANGED <<scene, prepared, outcome, aborted, answers, frame,
                   flushed, storeVars, resumes, suspends, due, heldOver, settled, taken>>

---------------------------------------------------------------------------
Next ==
    \/ \E call \in Calls :
         \/ prepareCall(call)
         \/ ToolSettles(call)
         \/ ToolSuspends(call)
         \/ GraceTimeout(call)
         \/ LateSettle(call)
    \/ Schedule
    \/ BatchEnds
    \/ Journal
    \/ Abort
    \/ LiveAnswers
    \/ AskAborted
    \/ pauseRun
    \/ Finish
    \/ Reads
    \/ \E copy \in copies : resume(copy)
    \/ RunThrows
    \/ Crash

Spec == Init /\ [][Next]_vars

\* The event loop runs on; a tool settles unless it is one of those that
\* hang; the grace timer fires.  Nobody has to answer, to abort or to fail.
Fairness ==
    /\ WF_vars(Schedule)
    /\ WF_vars(BatchEnds)
    /\ \A call \in Tasks :
         /\ WF_vars(call \notin scene.hanging /\ ToolSettles(call))
         /\ WF_vars(GraceTimeout(call))

FairSpec == Spec /\ Fairness

---------------------------------------------------------------------------
(* Properties.                                                             *)

\* While a call of the batch waits for the user's approval no other call of
\* it is run: "the paused frame is never half-executed" (README.md:23,
\* tool-call.ts:105-112).
HeldBatchIsIdle == [][Started # {} => Interrupted' = {}]_vars

\* A call the user rejected does not run, in whichever round, process or
\* resume it comes up again (compose-hooks.ts:111-123).
RejectedNeverRuns == [][\A call \in Started : decided[call] # "rejected"]_vars

\* The user is asked about a call once: a decision that the store or this
\* run holds is replayed whenever the batch is run again
\* (interruption.ts:37-38, pause.ts:101).
DecisionsAreReplayed ==
    phase \in {"asking", "pausing", "paused"} =>
        \A call \in Interrupted : decided[call] = "none"

\* Every call gets one result, and when the run goes on to the model no call
\* is left without (run-turn.ts:119-129, tool-call.ts:157-176).
AnsweredOnce ==
    /\ IsInjective(log)
    /\ phase = "ended" => ToSet(log) = Calls

\* A call that was complete when a frame was published is never run again,
\* not even by a process that has only the store to go by (pause.ts:38-50).
SettledNeverRerun == [][Started \cap settled = {}]_vars

\* A call that suspended for input stays in the published frame until it is
\* answered, however many rounds the rest of the batch takes
\* (tool-call.ts:74-78, 105-112).
UnansweredStaysPending ==
    [][phase' = "paused" /\ phase # "paused" =>
         \A call \in Calls :
            kept.pending[call] = "input" /\ call \notin kept.inputs
                => kept'.pending[call] = "input"]_vars

\* What the comment on ToolResumeContext says of an accepted answer: "Always
\* delivered" (tool/types.ts:42-44).  Not so in this code: a call whose answer
\* is in hand when the policies, asked again, hold its round for an approval is
\* not in the frame of that pause (tool-call.ts:105-112, pause.ts:86-101), and
\* runs anew in the next round.
AnswerAlwaysDelivered ==
    [][\A call \in Started : call \in due => prepared[call] = "resumed"]_vars

\* An answer the run accepted reaches the tool it was given to: when the
\* call runs next it is as the continuation of what it suspended, except for
\* those that a pause for an approval passed over (tool/types.ts:39-45, 149-151).
AnswerIsDelivered ==
    [][\A call \in Started : call \in due \ heldOver => prepared[call] = "resumed"]_vars

\* Of several clients that read the same state of an interruption, one can
\* resume it (runner.ts:384-390).
ResumedOnce == Cardinality(taken) = resumes

\* Over all rounds, processes and clients of a batch, each call is asked about
\* once and answered once, and each state of its interruption resumed once.
OnceEach == DecisionsAreReplayed /\ AnsweredOnce /\ ResumedOnce

\* What is done or refused stays so: neither a later round nor a process that
\* has only the store to go by runs a settled or a rejected call.
DoneAndRefusedStaySo == RejectedNeverRuns /\ SettledNeverRerun

\* A call that asked for input gets it: it stays in the published frames until
\* it is answered, and the answer reaches it as its continuation.
SuspendedCallsAreServed == UnansweredStaysPending /\ AnswerIsDelivered

\* A batch that runs ends, whatever conflicts with whatever, unless a tool
\* hangs and the run is not aborted (tool-call.ts:507-543, scheduler.ts:75-91).
BatchComesToAnEnd ==
    (phase = "running") ~>
        (phase # "running" \/ (~aborted /\ active \cap scene.hanging # {}))
=============================================================================
