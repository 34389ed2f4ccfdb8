---------------------------- MODULE WorkflowRun ----------------------------
(***************************************************************************)
(* A workflow run and its journal: agents-core/src/agent/workflow/         *)
(* runtime.ts (the hooks agent, parallel, pipeline and workflow),          *)
(* journal.ts and the executeJournaled bracket of tool.ts.                 *)
(*                                                                         *)
(* The script is pipeline(items, stage, ..., stage): with one stage it is  *)
(* parallel(), with one item a sequence of calls.  Each stage asks one     *)
(* agent, and its prompt holds the item, the stage and the value the stage *)
(* before returned.  In a nested script a stage is `workflow(name)`, whose *)
(* body asks that agent: runWorkflow gives the child a semaphore, a count  *)
(* and a tally of its own, and only shares the chain of keys.              *)
(*                                                                         *)
(* A journal key is a hash chained over all the prompts asked so far; it   *)
(* is modelled by that sequence of prompts.  An agent call costs one unit  *)
(* of output.  What the process holds is `mem`, a record the hooks         *)
(* transform; `journal` is what a crash leaves.                            *)
(***************************************************************************)
EXTENDS Integers, Sequences, SequencesExt, FiniteSetsExt

CONSTANTS
    Scripts,    \* the scripts explored: [items, stages, nested, width, budget]
    Results,    \* the values an agent may return
    AgentCap,   \* WORKFLOW_AGENT_CAP
    MaxRuns,    \* bound: the first run and its resumes
    MaxFaults   \* bound: aborts and appends that fail, in all

ASSUME BoundsAssumption ==
    /\ AgentCap \in Nat /\ MaxRuns \in Nat /\ MaxFaults \in Nat
    /\ \A s \in Scripts : s.items \in Nat \ {0} /\ s.stages \in Nat \ {0}
                          /\ s.width \in Nat \ {0} /\ s.budget \in Nat

VARIABLES
    script,     \* what is run, and resumed unchanged
    journal,    \* the results on record: a function from keys to values
    mem,        \* the state of the running process, see Fresh
    outcome,    \* "none", "running", "completed", "aborted", or "crashed"
    runs, faults,   \* counters for the bounds
    paid,       \* history: the prompts with a result on record when this run began
    firstMiss   \* history: the first prompt of this run the journal did not answer

vars == <<script, journal, mem, outcome, runs, faults, paid, firstMiss>>

Root == 0
NoPrompt == <<>>
ItemsOf(s) == 1..s.items

(* What runWorkflow starts from; a frame is a runWorkflow call, Root or the
   child an item is in. *)
Fresh(s) ==
    [pc |-> [i \in ItemsOf(s) |-> "asking"], stage |-> [i \in ItemsOf(s) |-> 0],
     value |-> [i \in ItemsOf(s) |-> 0], key |-> [i \in ItemsOf(s) |-> <<>>],
     ready |-> <<>>, prevKey |-> <<>>, diverged |-> FALSE, aborted |-> FALSE,
     active |-> [f \in 0..s.items |-> 0], queue |-> [f \in 0..s.items |-> <<>>],
     spent |-> [f \in 0..s.items |-> 0], agentCount |-> [f \in 0..s.items |-> 0]]

Frame(i) == IF script.nested THEN i ELSE Root
Prompt(m, i) == <<i, m.stage[i], m.value[i]>>

-----------------------------------------------------------------------------
(* The hooks, as functions of the process state *)

budgetExhausted(m, f) == script.budget > 0 /\ m.spent[f] >= script.budget

(* Bug: the cap is looked at after one call too many. *)
BugCheckCapsLate(m, f) == m.aborted \/ m.agentCount[f] > AgentCap \/ budgetExhausted(m, f)

(* Whether checkCaps throws in frame f. *)
checkCaps(m, f) == m.aborted \/ m.agentCount[f] >= AgentCap \/ budgetExhausted(m, f)

(* The promise of an item rejects: the pipeline turns it into null. *)
drop(m, i) == [m EXCEPT !.pc[i] = "null"]

(* Bug: nothing is looked at again once the slot is free. *)
BugDispatchUnchecked(m, i) == [m EXCEPT !.pc[i] = "running"]

(* The body semaphore.run wraps, once the slot is held: abort and budget are
   looked at again, and a refusal is journaled before the slot is given back. *)
dispatch(m, i) ==
    [m EXCEPT !.pc[i] = IF m.aborted \/ budgetExhausted(m, Frame(i)) THEN "erring" ELSE "running"]

(* Bug: the slot is counted free and the waiter is not woken. *)
BugReleaseDropsWaiter(m, i) == [m EXCEPT !.active[Frame(i)] = @ - 1]

(* Semaphore.run, before and after its body.  The slot goes to the first waiter
   without `active` ever dropping. *)
acquire(m, i) ==
    LET f == Frame(i) IN
    IF m.active[f] >= script.width
    THEN [m EXCEPT !.pc[i] = "queued", !.queue[f] = Append(@, i)]
    ELSE dispatch([m EXCEPT !.active[f] = @ + 1], i)

release(m, i) ==
    LET f == Frame(i) IN
    IF m.queue[f] = <<>> THEN [m EXCEPT !.active[f] = @ - 1]
    ELSE dispatch([m EXCEPT !.queue[f] = Tail(@)], Head(m.queue[f]))

(* The stage of an item returns: its continuation joins the microtask queue. *)
return(m, i, v) == [m EXCEPT !.pc[i] = "ready", !.value[i] = v, !.ready = Append(@, i)]

(* Bug: a call the journal answers does not enter the chain. *)
BugAgentChainsAfterMiss(m, i) ==
    LET f == Frame(i)
        key == Append(m.prevKey, Prompt(m, i))
        called == [m EXCEPT !.agentCount[f] = @ + 1, !.key[i] = key]
    IN  IF checkCaps(m, f) THEN drop(m, i)
        ELSE IF ~m.diverged /\ key \in DOMAIN journal THEN return(called, i, journal[key])
        ELSE acquire([called EXCEPT !.diverged = TRUE, !.prevKey = key], i)

(* agent(): the caps, the next key of the chain, the journal while nothing has
   diverged, else a slot.  `key[i]` is remembered for the result's record. *)
agent(m, i) ==
    LET f == Frame(i)
        key == Append(m.prevKey, Prompt(m, i))
        called == [m EXCEPT !.agentCount[f] = @ + 1, !.prevKey = key, !.key[i] = key]
    IN  IF checkCaps(m, f) THEN drop(m, i)
        ELSE IF ~m.diverged /\ key \in DOMAIN journal THEN return(called, i, journal[key])
        ELSE acquire([called EXCEPT !.diverged = TRUE], i)

(* workflow(): the caller's caps; then the script is read from the environment. *)
workflowHook(m, i) ==
    IF checkCaps(m, Root) THEN drop(m, i) ELSE [m EXCEPT !.pc[i] = "resolving"]

(* What a stage function does: ask an agent, here or in a child workflow. *)
Stage(m, i) == IF script.nested THEN workflowHook(m, i) ELSE agent(m, i)

(* History of a step to process state m: the first call the journal did not
   answer, once there is one. *)
Asking(m) == {i \in ItemsOf(script) : m.pc[i] \in {"queued", "running", "erring"}}
FirstAsked(m) ==
    CHOOSE i \in Asking(m) : \A j \in Asking(m) : Len(m.key[i]) <= Len(m.key[j])
Becomes(m) ==
    /\ mem' = m
    /\ firstMiss' = IF mem.diverged \/ ~m.diverged THEN firstMiss ELSE Prompt(m, FirstAsked(m))

-----------------------------------------------------------------------------
(* The run *)

(* runWorkflow reaches the pipeline: every item is to enter its first stage, in
   order; what becomes ready meanwhile comes after. *)
pipeline(s) == [Fresh(s) EXCEPT !.ready = [i \in ItemsOf(s) |-> i]]

Init ==
    /\ script \in Scripts
    /\ journal = [k \in {} |-> 0]
    /\ mem = Fresh(script)
    /\ outcome = "none" /\ runs = 0 /\ faults = 0
    /\ paid = {} /\ firstMiss = NoPrompt

(* The Workflow tool, fresh or with resumeFromRunId: openJournal loads what is
   on record, and the script starts.  A run is resumed once its process is
   gone or its outcome is known. *)
executeJournaled ==
    /\ outcome # "running" /\ runs < MaxRuns
    /\ runs' = runs + 1 /\ outcome' = "running"
    /\ paid' = {Last(k) : k \in DOMAIN journal}
    /\ mem' = pipeline(script) /\ firstMiss' = NoPrompt
    /\ UNCHANGED <<script, journal, faults>>

(* A continuation of the pipeline: the item's next stage, the first at the start,
   or the item is finished. *)
Continue ==
    /\ outcome = "running" /\ mem.ready # <<>>
    /\ LET i == Head(mem.ready)
           m == [mem EXCEPT !.ready = Tail(@)]
       IN  Becomes(IF mem.stage[i] = script.stages THEN [m EXCEPT !.pc[i] = "done"]
                   ELSE Stage([m EXCEPT !.stage[i] = @ + 1], i))
    /\ UNCHANGED <<script, journal, outcome, runs, faults, paid>>

(* The nested script has been read and parsed: runWorkflow with the shared
   chain and fresh counters, and its body asks the agent. *)
enterChild(i) ==
    /\ outcome = "running" /\ mem.pc[i] = "resolving" /\ mem.ready = <<>>
    /\ Becomes(agent([mem EXCEPT !.spent[i] = 0, !.agentCount[i] = 0], i))
    /\ UNCHANGED <<script, journal, outcome, runs, faults, paid>>

(* runAgent settles: with a value, which is tallied and put on record before
   agent() returns it, or with an error. *)
agentAnswers(i) ==
    /\ outcome = "running" /\ mem.pc[i] = "running" /\ mem.ready = <<>>
    /\ \E v \in Results :
         Becomes([mem EXCEPT !.pc[i] = "writing", !.value[i] = v, !.spent[Frame(i)] = @ + 1])
    /\ UNCHANGED <<script, journal, outcome, runs, faults, paid>>

agentFails(i) ==
    /\ outcome = "running" /\ mem.pc[i] = "running" /\ mem.ready = <<>>
    /\ Becomes([mem EXCEPT !.pc[i] = "erring"])
    /\ UNCHANGED <<script, journal, outcome, runs, faults, paid>>

(* Bug: agent() returns without waiting for the append. *)
BugRecordResultUnawaited(i) ==
    /\ outcome = "running" /\ mem.pc[i] = "writing" /\ mem.ready = <<>>
    /\ Becomes(release(return(mem, i, mem.value[i]), i))
    /\ UNCHANGED <<script, journal, faults, outcome, runs, paid>>

(* recordResult's append lands, or fails: then agent() rejects although the
   agent ran.  Either way the slot is given back. *)
recordResult(i) ==
    /\ outcome = "running" /\ mem.pc[i] = "writing" /\ mem.ready = <<>>
    /\ \/ /\ journal' = [k \in DOMAIN journal \cup {mem.key[i]} |->
                           IF k = mem.key[i] THEN mem.value[i] ELSE journal[k]]
          /\ Becomes(release(return(mem, i, mem.value[i]), i))
          /\ UNCHANGED faults
       \/ /\ faults < MaxFaults /\ faults' = faults + 1
          /\ Becomes(release(drop(mem, i), i))
          /\ UNCHANGED journal
    /\ UNCHANGED <<script, outcome, runs, paid>>

(* recordError's append has settled, and agent() rejects. *)
recordError(i) ==
    /\ outcome = "running" /\ mem.pc[i] = "erring" /\ mem.ready = <<>>
    /\ Becomes(release(drop(mem, i), i))
    /\ UNCHANGED <<script, journal, outcome, runs, faults, paid>>

(* The turn is interrupted, or the task stopped, once the script has called
   every item's first stage. *)
Abort ==
    /\ outcome = "running" /\ ~mem.aborted /\ faults < MaxFaults
    /\ \A i \in ItemsOf(script) : mem.pc[i] # "asking"
    /\ faults' = faults + 1
    /\ Becomes([mem EXCEPT !.aborted = TRUE])
    /\ UNCHANGED <<script, journal, outcome, runs, paid>>

(* Promise.allSettled resolves; pipeline() throws if the run was aborted, the
   script ends, and the outcome is journaled. *)
recordOutcome ==
    /\ outcome = "running" /\ \A i \in ItemsOf(script) : mem.pc[i] \in {"done", "null"}
    /\ outcome' = IF mem.aborted THEN "aborted" ELSE "completed"
    /\ UNCHANGED <<script, journal, mem, runs, faults, paid, firstMiss>>

Crash ==
    /\ outcome = "running" /\ runs < MaxRuns
    /\ outcome' = "crashed" /\ mem' = Fresh(script)
    /\ UNCHANGED <<script, journal, runs, faults, paid, firstMiss>>

Next ==
    \/ executeJournaled \/ Continue \/ Abort \/ recordOutcome \/ Crash
    \/ \E i \in ItemsOf(script) :
         \/ enterChild(i) \/ agentAnswers(i) \/ agentFails(i)
         \/ recordResult(i) \/ recordError(i)

Spec == Init /\ [][Next]_vars

(* Continuations run; appends settle; a script is read; a subagent ends, within
   WORKFLOW_AGENT_TIMEOUT_MS at the latest. *)
Settles(i) == enterChild(i) \/ agentAnswers(i) \/ agentFails(i) \/ recordResult(i) \/ recordError(i)
FairSpec ==
    /\ Spec /\ WF_vars(Continue) /\ WF_vars(recordOutcome)
    /\ \A i \in 1..Max({s.items : s \in Scripts}) : WF_vars(i \in ItemsOf(script) /\ Settles(i))

-----------------------------------------------------------------------------
(* Properties *)

Frames == 0..script.items
Holding(f) == {i \in ItemsOf(script) : Frame(i) = f /\ mem.pc[i] \in {"running", "writing", "erring"}}

(* What the script has seen is on record: a value a stage got is the one the
   journal holds for that call, so a resume shows the script the same past. *)
SeenIsOnRecord ==
    \A i \in ItemsOf(script) :
        mem.pc[i] \in {"ready", "done"} =>
            mem.key[i] \in DOMAIN journal /\ journal[mem.key[i]] = mem.value[i]

(* In each frame, that is each runWorkflow call, the slots are counted right and
   a waiter waits only while they are all taken; what the frame has spent
   overruns the budget by no more than its calls in flight, and it makes no
   more calls than the cap.  It says nothing of the frames of a run together. *)
SlotsAndBudgetHold ==
    \A f \in Frames :
        /\ mem.active[f] = Cardinality(Holding(f)) /\ mem.active[f] <= script.width
        /\ mem.queue[f] # <<>> => mem.active[f] = script.width
        /\ script.budget > 0 => mem.spent[f] < script.budget + script.width
        /\ mem.agentCount[f] <= AgentCap

(* What workflow/prompt.ts promises the author of a script about the whole
   workflow: no agent is dispatched once the budget is spent, "overshoot is
   bounded by concurrency", and no more than `width` agents run at once. *)
BudgetHoldsForTheWorkflow ==
    script.budget > 0 => FoldSet(LAMBDA f, n : mem.spent[f] + n, 0, Frames) < script.budget + script.width
WidthHoldsForTheWorkflow == Cardinality(UNION {Holding(f) : f \in Frames}) <= script.width

(* The first call a resume runs again has no result on record: "completed
   calls up to the first changed/new/interrupted one return cached results"
   (workflow/prompt.ts). *)
ReplayIsFree == firstMiss # NoPrompt => firstMiss \notin paid

(* It is so where the script asks in one order whatever the agents' timing: a
   sequence of calls, or a single fan-out. *)
AsksInOneOrder == ~script.nested /\ (script.items = 1 \/ script.stages = 1)
PrefixIsReplayed == AsksInOneOrder => ReplayIsFree

(* The journal is what a resume says it is: it holds what the script has seen,
   and pays for no call again that it holds (workflow/prompt.ts). *)
JournalIsThePast == SeenIsOnRecord /\ PrefixIsReplayed

(* Every run ends: no call waits for a slot for ever, and an abort unwinds the
   script instead of stalling it. *)
EveryRunEnds == outcome = "running" ~> outcome # "running"

WorkflowTypeOK ==
    /\ script \in Scripts /\ runs \in 0..MaxRuns /\ faults \in 0..MaxFaults
    /\ outcome \in {"none", "running", "completed", "aborted", "crashed"}
    /\ \A k \in DOMAIN journal : journal[k] \in Results
    /\ \A i \in ItemsOf(script) :
         mem.pc[i] \in {"asking", "resolving", "queued", "running", "writing", "erring",
                        "ready", "done", "null"}
=============================================================================
