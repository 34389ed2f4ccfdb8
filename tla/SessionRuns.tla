---------------------------- MODULE SessionRuns ----------------------------
(***************************************************************************)
(* The runs of one open session: the facade that starts, holds, aborts and *)
(* awaits them (agents/src/harness.ts), the run lock they queue on         *)
(* (agent/session.ts), the agent loop (Runner and Engine.run in            *)
(* agent/runner.ts), the step loop of a turn (loop/run-turn.ts,            *)
(* loop/turn-step.ts) and the bus on which messages wait (loop/steer.ts).  *)
(*                                                                         *)
(* A run is at one of the awaits of this code; what runs up to the next    *)
(* await is one action.  The two channels of the bus are sets, since a     *)
(* drain takes all of one.  Of the conversation only its end is kept: a    *)
(* prompt of this run nobody has answered yet, tool calls without their    *)
(* results, or neither; between runs, what an interruption holds.  The     *)
(* tool batch is the module ToolBatch; here it ends in one of the ways     *)
(* runCalls can end.                                                       *)
(*                                                                         *)
(* scene is chosen in the initial state and never changes: which doings of *)
(* the environment may happen, and how often.                              *)
(***************************************************************************)
EXTENDS Naturals, FiniteSets, Sequences

CONSTANTS
    Runs,      \* runs that can be under way at once
    Messages,  \* messages that producers put on the bus
    Scenes,    \* the scenes of a check
    MaxTurns,  \* RunOptions.maxTurns
    MaxSteps   \* Agent.maxStepsPerTurn

\* Bound: what the environment does is counted.
Doings == {"message", "prompt", "resume", "fault", "tripwire", "cancel", "hold",
           "ask", "close"}
Features == {"pause", "live", "handoff", "flush", "claim"}

ASSUME CapsAssumption == MaxTurns \in Nat \ {0} /\ MaxSteps \in Nat \ {0}
ASSUME ScenesAssumption ==
    \A s \in Scenes : s.limit \in [Doings -> Nat] /\ s.may \subseteq Features

VARIABLES
    scene,        \* what may happen in this behaviour
    spent,        \* how often each doing has happened
    life,         \* lifecycle of the session object
    gate,         \* runGate
    waited,       \* runs whose end the last hold or close waits for
    wake,         \* wakeScheduled
    interrupted,  \* lastRunInterrupted
    runs,         \* the runs of the facade, one record each
    chain,        \* runs in the order in which they got hold of runChain
    loop,         \* locals of Engine.run and runTurn in the run that has the lock
    place,        \* where each message is
    active,       \* SteerBus.activeTurnId is set
    intr,         \* stored interruption: the turns its frame counts, 0 for none
    tail,         \* history: how the conversation ends
    told,         \* history: what the event stream last said of a turn
    slipped,      \* history: runs that were past the gate when it closed
    parted,       \* history: what came between the last run and its result
    claimed       \* history: a hook has a step run again after its calls

facadeVars == <<life, gate, waited, wake, interrupted>>
busVars == <<place, active>>
storyVars == <<intr, tail, told>>
marks == <<slipped, parted, claimed>>
vars == <<scene, spent, facadeVars, runs, chain, loop, busVars, storyVars, marks>>

MAX_STEP_RECOVERIES_PER_TURN == 2

Inside == {"assembling", "boundary", "preparing", "batch", "top", "model", "tools",
           "hook", "returned", "rejected", "asking", "pausing", "handing", "gates",
           "settling"}
Places == {"none", "parked", "passed", "reading", "queued"} \union Inside

Stops == {"none", "end_turn", "error", "aborted", "interrupt", "handoff",
          "thrown", "blocked"}
Results == {"none", "done", "interrupted", "blocked", "thrown"}

NoLoop == [turns |-> 0, drain |-> FALSE, first |-> FALSE, resuming |-> FALSE,
           steps |-> 0, recoveries |-> 0, stop |-> "none"]
NoRun == [pc |-> "none", kind |-> "prompt", aborted |-> FALSE, result |-> "none",
          fed |-> FALSE]

TypeOK ==
    /\ scene \in Scenes
    /\ spent \in [Doings -> Nat]
    /\ life \in {"open", "closing", "closed"}
    /\ gate \in {"open", "held"}
    /\ waited \in SUBSET Runs
    /\ wake \in BOOLEAN /\ interrupted \in BOOLEAN
    /\ runs \in [Runs -> [pc : Places, kind : {"prompt", "wake", "resume"},
                          aborted : BOOLEAN, result : Results, fed : BOOLEAN]]
    /\ chain \in Seq(Runs)
    /\ loop \in [turns : 0..MaxTurns, drain : BOOLEAN, first : BOOLEAN,
                 resuming : BOOLEAN, steps : 0..MaxSteps,
                 recoveries : 0..MAX_STEP_RECOVERIES_PER_TURN, stop : Stops]
    /\ place \in [Messages -> {"out", "steering", "followUp", "taken"}]
    /\ active \in BOOLEAN
    /\ intr \in 0..MaxTurns
    /\ tail \in {"quiet", "prompt", "calls"}
    /\ told \in {"closed", "open", "paused", "left"}
    /\ slipped \in SUBSET Runs
    /\ parted \in {"no", "blocked", "flush"}
    /\ claimed \in BOOLEAN

At(r, pc) == runs[r].pc = pc
Go(r, pc) == runs' = [runs EXCEPT ![r].pc = pc]
Gone(r) == runs' = [runs EXCEPT ![r] = NoRun]

\* hasActiveRuns: begun and not yet settled; a call at the gate is not begun.
InFlight == {r \in Runs : runs[r].pc \notin {"none", "parked", "passed"}}

Queued(channel) == {m \in Messages : place[m] = channel}
hasItems == Queued("steering") \union Queued("followUp") # {}

Spend(doing) == /\ spent[doing] < scene.limit[doing]
                /\ spent' = [spent EXCEPT ![doing] = @ + 1]

\* scheduleIdleWake: further calls fold into the one that is scheduled.
scheduleIdleWake == wake' = TRUE

Init ==
    /\ scene \in Scenes
    /\ spent = [doing \in Doings |-> 0]
    /\ life = "open" /\ gate = "open" /\ waited = {} /\ wake = FALSE
    /\ interrupted = FALSE
    /\ runs = [r \in Runs |-> NoRun]
    /\ chain = <<>>
    /\ loop = NoLoop
    /\ place = [m \in Messages |-> "out"]
    /\ active = FALSE
    /\ intr = 0 /\ tail = "quiet" /\ told = "closed"
    /\ slipped = {} /\ parted = "no" /\ claimed = FALSE

---------------------------------------------------------------------------
(* Producers: users, background tasks, cron, peers.                        *)

\* enqueue: nobody drains the bus between turns, so the listener is told.
enqueue(m, channel) ==
    /\ life = "open" /\ place[m] = "out"
    /\ Spend("message")
    /\ place' = [place EXCEPT ![m] = channel]
    /\ wake' = (wake \/ ~active)
    /\ UNCHANGED <<scene, marks, life, gate, waited, interrupted, runs, chain, loop,
                   active, storyVars>>

steer(m) == enqueue(m, "steering")
followUp(m) == enqueue(m, "followUp")

---------------------------------------------------------------------------
(* The facade: prompt, resume, idle wake, the gate, cancel and close.      *)

Entered(r, kind, pc) ==
    runs' = [runs EXCEPT ![r] = [NoRun EXCEPT !.pc = pc, !.kind = kind]]

\* beginRun, and the wait for the run lock.
Begins(r, kind) == Entered(r, kind, "queued") /\ chain' = Append(chain, r)

prompt(r) ==
    /\ life = "open" /\ At(r, "none")
    /\ Spend("prompt")
    /\ \/ gate = "open" /\ Begins(r, "prompt")
       \/ gate = "held" /\ Entered(r, "prompt", "parked") /\ UNCHANGED chain
    /\ UNCHANGED <<scene, marks, facadeVars, loop, busVars, storyVars>>

\* A resume next to another run is refused.
resume(r) ==
    /\ life = "open" /\ At(r, "none")
    /\ Spend("resume")
    /\ \/ gate = "open" /\ InFlight = {} /\ Entered(r, "resume", "reading")
       \/ gate = "held" /\ Entered(r, "resume", "parked")
    /\ UNCHANGED <<scene, marks, facadeVars, chain, loop, busVars, storyVars>>

\* Bug: what closes while a call is parked is not looked at again.
BugParkAtGate(r) == gate = "open" /\ Go(r, "passed")

\* The gate is released, or the session closes and the call fails.
parkAtGate(r) ==
    \/ life # "open" /\ Gone(r)
    \/ life = "open" /\ gate = "open" /\ Go(r, "passed")

Unparks(r) ==
    /\ At(r, "parked")
    /\ parkAtGate(r)
    /\ UNCHANGED <<scene, marks, spent, facadeVars, chain, loop, busVars, storyVars>>

\* The call goes on in a microtask of its own.  It looks neither at the gate
\* nor at the life of the session again; a resume looks for other runs.
LeavesGate(r) ==
    /\ At(r, "passed")
    /\ \/ runs[r].kind = "prompt" /\ Begins(r, "prompt")
       \/ /\ runs[r].kind = "resume"
          /\ IF InFlight = {} THEN Go(r, "reading") ELSE Gone(r)
          /\ UNCHANGED chain
    /\ UNCHANGED <<scene, marks, spent, facadeVars, loop, busVars, storyVars>>

\* Bugs: the wake does not look at the gate; at the runs in flight.
BugWakeWantedHeld == life = "open" /\ ~interrupted /\ InFlight = {} /\ hasItems
BugWakeWantedBusy == life = "open" /\ ~interrupted /\ gate = "open" /\ hasItems

\* What the wake checks when its microtask runs.
wakeWanted ==
    /\ life = "open" /\ ~interrupted
    /\ gate = "open"
    /\ InFlight = {}
    /\ hasItems

IdleWakeStarts(r) ==
    /\ wake /\ wakeWanted /\ At(r, "none")
    /\ wake' = FALSE
    /\ Begins(r, "wake")
    /\ UNCHANGED <<scene, marks, spent, life, gate, waited, interrupted, loop, busVars, storyVars>>

IdleWakeStandsDown ==
    /\ wake /\ ~wakeWanted
    /\ wake' = FALSE
    /\ UNCHANGED <<scene, marks, spent, life, gate, waited, interrupted, runs, chain, loop,
                   busVars, storyVars>>

\* Calls that have left the gate and have not begun.
AtTheDoor == {r \in Runs : At(r, "passed")}

\* allRunsSettled: a coordinator waits for the runs of this moment.  From close
\* on it is what close waits for that is kept.
holdAtBoundary ==
    /\ gate = "open" /\ life # "closed"
    /\ Spend("hold")
    /\ gate' = "held"
    /\ IF life = "open" THEN waited' = InFlight /\ slipped' = AtTheDoor
       ELSE UNCHANGED <<waited, slipped>>
    /\ UNCHANGED <<scene, parted, claimed, life, wake, interrupted, runs, chain, loop,
                   busVars, storyVars>>

\* Whoever held the session waits no longer.
Released ==
    IF life = "open" THEN waited' = {} /\ slipped' = {} ELSE UNCHANGED <<waited, slipped>>

\* Bug: nothing looks at what was queued while the session was held.
BugRelease ==
    /\ gate = "held"
    /\ gate' = "open"
    /\ Released
    /\ UNCHANGED <<scene, parted, claimed, spent, life, wake, interrupted, runs, chain, loop,
                   busVars, storyVars>>

release ==
    /\ gate = "held"
    /\ gate' = "open"
    /\ Released
    /\ scheduleIdleWake
    /\ UNCHANGED <<scene, parted, claimed, spent, life, interrupted, runs, chain, loop,
                   busVars, storyVars>>

Aborted == [r \in Runs |-> [runs[r] EXCEPT !.aborted = @ \/ r \in InFlight]]

cancel ==
    /\ InFlight # {}
    /\ Spend("cancel")
    /\ runs' = Aborted
    /\ UNCHANGED <<scene, marks, facadeVars, chain, loop, busVars, storyVars>>

close ==
    /\ life = "open"
    /\ Spend("close")
    /\ life' = "closing"
    /\ waited' = InFlight /\ slipped' = AtTheDoor
    /\ runs' = Aborted
    /\ UNCHANGED <<scene, parted, claimed, gate, wake, interrupted, chain, loop, busVars, storyVars>>

\* The runs have settled; the deadline, with a run left behind, is not modelled.
runClose ==
    /\ life = "closing" /\ waited = {}
    /\ life' = "closed"
    /\ UNCHANGED <<scene, marks, spent, gate, waited, wake, interrupted, runs, chain, loop,
                   busVars, storyVars>>

---------------------------------------------------------------------------
(* A run: from the lock to its first turn.                                 *)

Ends(r, result) == runs' = [runs EXCEPT ![r].pc = "settling", ![r].result = result]

Fault == Spend("fault")
Free == UNCHANGED spent

\* resume reads the interruption before it queues; without one it fails.
ReadsInterruption(r) ==
    /\ At(r, "reading")
    /\ \/ /\ intr # 0
          /\ Go(r, "queued") /\ chain' = Append(chain, r)
          /\ UNCHANGED <<waited, wake>>
       \/ /\ intr = 0
          /\ Gone(r) /\ UNCHANGED chain
          /\ waited' = waited \ {r} /\ scheduleIdleWake
    /\ UNCHANGED <<scene, marks, spent, life, gate, interrupted, loop, busVars, storyVars>>

\* withRunLock: the run ahead has let go.
withRunLock(r) ==
    /\ At(r, "queued") /\ Head(chain) = r
    /\ IF runs[r].aborted THEN Ends(r, "thrown") ELSE Go(r, "assembling")
    /\ UNCHANGED <<scene, marks, spent, facadeVars, chain, loop, busVars, storyVars>>

\* Bug: every run may drain the follow-ups before its first turn.
BugFirstTurn(kind, turns) ==
    [NoLoop EXCEPT !.turns = turns, !.drain = kind # "resume", !.first = kind = "wake",
                   !.resuming = kind = "resume"]

\* What Engine.run starts with: a wake run has no prompt but the queue.
FirstTurn(kind, turns) ==
    [NoLoop EXCEPT !.turns = turns, !.drain = kind = "wake", !.first = kind = "wake",
                   !.resuming = kind = "resume"]

\* execute: refused while an interruption is stored; a capability may answer
\* the prompt, a guardrail may block it.
execute(r) ==
    /\ At(r, "assembling") /\ runs[r].kind # "resume"
    /\ \/ intr # 0 /\ Ends(r, "thrown") /\ Free /\ UNCHANGED <<loop, tail>>
       \/ /\ intr = 0
          /\ Go(r, "boundary") /\ Free
          /\ loop' = FirstTurn(runs[r].kind, 0)
          /\ tail' = IF runs[r].kind = "prompt" THEN "prompt" ELSE tail
       \/ /\ intr = 0 /\ runs[r].kind = "prompt"
          /\ Ends(r, "done") /\ Free /\ UNCHANGED <<loop, tail>>
       \/ /\ intr = 0 /\ Spend("tripwire")
          /\ Ends(r, "blocked") /\ UNCHANGED <<loop, tail>>
       \/ intr = 0 /\ Fault /\ Ends(r, "thrown") /\ UNCHANGED <<loop, tail>>
    /\ UNCHANGED <<scene, marks, facadeVars, chain, busVars, intr, told>>

\* Runner.resume: the frame says how many turns the run has had.  It looks for
\* the interruption a second time; nothing can have taken it since.
Continues(r) ==
    /\ At(r, "assembling") /\ runs[r].kind = "resume"
    /\ \/ Go(r, "boundary") /\ Free /\ loop' = FirstTurn("resume", intr)
       \/ Fault /\ Ends(r, "thrown") /\ UNCHANGED loop
    /\ UNCHANGED <<scene, marks, facadeVars, chain, busVars, storyVars>>

\* What the boundary of a turn takes off the bus.
BoundaryDrain(l) == (IF l.first THEN Queued("steering") ELSE {})
                      \union (IF l.drain THEN Queued("followUp") ELSE {})

Take(r, drained, pc) ==
    /\ place' = [m \in Messages |-> IF m \in drained THEN "taken" ELSE place[m]]
    /\ runs' = [runs EXCEPT ![r].pc = pc, ![r].fed = @ \/ drained # {}]

\* Top of the loop of Engine.run.
TurnBoundary(r) ==
    /\ At(r, "boundary")
    /\ \/ runs[r].aborted /\ Ends(r, "thrown") /\ UNCHANGED <<place, loop>>
       \/ /\ ~runs[r].aborted /\ ~loop.resuming /\ loop.turns >= MaxTurns
          /\ Ends(r, "done") /\ UNCHANGED <<place, loop>>
       \/ /\ ~runs[r].aborted /\ (loop.resuming \/ loop.turns < MaxTurns)
          /\ Take(r, BoundaryDrain(loop), "preparing")
          /\ loop' = [loop EXCEPT !.first = FALSE,
                                  !.turns = IF loop.resuming THEN @ ELSE @ + 1]
    /\ UNCHANGED <<scene, marks, spent, facadeVars, chain, active, storyVars>>

\* A run that ends between the end of runTurn and turn.ended says nothing more.
Leaves == told' = IF told = "closed" THEN told ELSE "left"

\* Model, instructions and tools are resolved; the turn starts.
BeginTurn(r) ==
    /\ At(r, "preparing")
    /\ \/ /\ Go(r, IF loop.resuming THEN "batch" ELSE "top") /\ Free
          /\ told' = IF loop.resuming THEN told ELSE "open"
          /\ active' = TRUE
          /\ loop' = [loop EXCEPT !.steps = 0, !.recoveries = 0, !.stop = "none"]
       \/ Fault /\ Ends(r, "thrown") /\ Leaves /\ UNCHANGED <<active, loop>>
    /\ UNCHANGED <<scene, marks, facadeVars, chain, place, intr, tail>>

---------------------------------------------------------------------------
(* runTurn.                                                                *)

Returns(r, stop) == Go(r, "returned") /\ loop' = [loop EXCEPT !.stop = stop]

\* An abort wins over whatever runTurn throws.
TurnThrows(r, stop) ==
    IF runs[r].aborted THEN Returns(r, "aborted")
    ELSE Go(r, "rejected") /\ loop' = [loop EXCEPT !.stop = stop]

\* How the tool calls of a message can end: waiting for the user, or with
\* all results in the conversation.
Interrupts(r) == "pause" \in scene.may /\ Returns(r, "interrupt") /\ UNCHANGED tail

\* The interrupted batch again, with the answers.
BatchAgain(r) ==
    /\ At(r, "batch")
    /\ \/ Interrupts(r) /\ Free
       \/ /\ tail' = "quiet" /\ Free
          /\ \/ Go(r, "top") /\ UNCHANGED loop
             \/ Returns(r, "end_turn")
             \/ "handoff" \in scene.may /\ Returns(r, "handoff")
       \/ Fault /\ TurnThrows(r, "thrown") /\ UNCHANGED tail
    /\ UNCHANGED <<scene, marks, facadeVars, chain, busVars, intr, told>>

StepLeft == loop.steps < MaxSteps

\* Top of the loop of runTurn: the drain comes before the cap.
StepTop(r) ==
    /\ At(r, "top")
    /\ \/ runs[r].aborted /\ Returns(r, "aborted") /\ UNCHANGED place
       \/ /\ ~runs[r].aborted /\ StepLeft
          /\ Take(r, Queued("steering"), "model")
          /\ loop' = [loop EXCEPT !.steps = @ + 1]
       \/ /\ ~runs[r].aborted /\ ~StepLeft
          /\ Take(r, Queued("steering"), "rejected")
          /\ loop' = [loop EXCEPT !.stop = "thrown"]
    /\ UNCHANGED <<scene, marks, spent, facadeVars, chain, active, storyVars>>

\* executeStep up to the answer of the model, and what runTurn makes of its
\* failure: a hook recovers it, an overflow ends the turn, else it throws.
ModelAnswers(r) ==
    /\ At(r, "model")
    /\ \/ runs[r].aborted /\ Returns(r, "aborted") /\ Free /\ UNCHANGED tail
       \/ Go(r, "tools") /\ tail' = "calls" /\ Free /\ UNCHANGED loop
       \/ /\ Go(r, "hook") /\ tail' = "quiet" /\ Free
          /\ \E stop \in {"end_turn", "error"} : loop' = [loop EXCEPT !.stop = stop]
       \/ /\ Fault /\ UNCHANGED tail
          /\ \/ /\ ~runs[r].aborted /\ loop.recoveries < MAX_STEP_RECOVERIES_PER_TURN
                /\ Go(r, "top")
                /\ loop' = [loop EXCEPT !.recoveries = @ + 1, !.steps = @ - 1]
             \/ ~runs[r].aborted /\ Returns(r, "error")
             \/ TurnThrows(r, "thrown")
       \/ Spend("tripwire") /\ TurnThrows(r, "blocked") /\ UNCHANGED tail
    /\ UNCHANGED <<scene, marks, facadeVars, chain, busVars, intr, told>>

\* The batch of the step, and the rest of executeStep.
ToolsEnd(r) ==
    /\ At(r, "tools")
    /\ \/ Interrupts(r) /\ Free
       \/ /\ tail' = "quiet" /\ Free
          /\ \/ runs[r].aborted /\ Returns(r, "aborted")
             \/ ~runs[r].aborted /\ Go(r, "top") /\ UNCHANGED loop
             \/ /\ ~runs[r].aborted
                /\ Go(r, "hook") /\ loop' = [loop EXCEPT !.stop = "end_turn"]
             \/ ~runs[r].aborted /\ "handoff" \in scene.may /\ Returns(r, "handoff")
       \/ Fault /\ TurnThrows(r, "thrown") /\ UNCHANGED tail
    /\ UNCHANGED <<scene, marks, facadeVars, chain, busVars, intr, told>>

\* A hook may claim a failure of the batch too: the step runs again under its
\* number, though its calls are in the conversation.  The one hook of this code
\* that claims, compaction, claims overflows only, which a batch cannot throw.
ToolsClaimed(r) ==
    /\ At(r, "tools") /\ ~runs[r].aborted
    /\ "claim" \in scene.may /\ Fault
    /\ loop.recoveries < MAX_STEP_RECOVERIES_PER_TURN
    /\ Go(r, "top")
    /\ loop' = [loop EXCEPT !.recoveries = @ + 1, !.steps = @ - 1]
    /\ claimed' = TRUE
    /\ UNCHANGED <<scene, slipped, parted, facadeVars, chain, busVars, storyVars>>

\* shouldContinueAfterStop, and the drain for what landed in the last step.
AfterStop(r) ==
    /\ At(r, "hook")
    /\ \/ Go(r, "top") /\ UNCHANGED <<place, loop>>
       \/ /\ Queued("steering") # {}
          /\ Take(r, Queued("steering"), "top")
          /\ UNCHANGED loop
       \/ Queued("steering") = {} /\ Returns(r, loop.stop) /\ UNCHANGED place
    /\ UNCHANGED <<scene, marks, spent, facadeVars, chain, active, storyVars>>

---------------------------------------------------------------------------
(* Engine.run, after a turn.                                               *)

\* Bug: a tripwire ends a turn without a word in execute as well.
BugToldOfRejection(r) == IF loop.stop = "blocked" THEN told ELSE "closed"

\* turn.ended, save for a tripwire, which execute tells of in its own way and
\* Runner.resume does not.
ToldOfRejection(r) ==
    IF loop.stop = "blocked" /\ runs[r].kind = "resume" THEN told ELSE "closed"

TurnRejected(r) ==
    /\ At(r, "rejected")
    /\ Ends(r, loop.stop)
    /\ active' = FALSE
    /\ told' = ToldOfRejection(r)
    /\ UNCHANGED <<scene, marks, spent, facadeVars, chain, loop, place, intr, tail>>

\* The turn returned.  A live approver is asked on the spot, if approvals are
\* all that is missing; otherwise an interrupt becomes a pause.
TurnReturned(r) ==
    /\ At(r, "returned")
    /\ active' = FALSE
    /\ loop' = [loop EXCEPT !.drain = TRUE, !.resuming = FALSE]
    /\ \/ /\ loop.stop = "interrupt" /\ "live" \in scene.may
          /\ Spend("ask") /\ Go(r, "asking") /\ UNCHANGED told
       \/ loop.stop = "interrupt" /\ Go(r, "pausing") /\ Free /\ UNCHANGED told
       \/ /\ loop.stop # "interrupt"
          /\ told' = "closed" /\ Free
          /\ \/ loop.stop = "handoff" /\ Go(r, "handing")
             \/ /\ loop.stop = "end_turn"
                /\ Go(r, IF Queued("followUp") # {} THEN "boundary" ELSE "gates")
             \/ loop.stop \in {"error", "aborted"} /\ Ends(r, "done")
    /\ UNCHANGED <<scene, marks, facadeVars, chain, place, intr, tail>>

\* shouldContinueAtBoundary, or the run is finished.
BoundaryGates(r) ==
    /\ At(r, "gates")
    /\ \/ Go(r, "boundary") \/ Ends(r, "done")
    /\ UNCHANGED <<scene, marks, spent, facadeVars, chain, loop, busVars, storyVars>>

\* Bug: the resumed turn may drain follow-ups at its start.
BugSameTurn == [loop EXCEPT !.resuming = TRUE]

\* The answered batch goes on in the turn it belongs to.
SameTurn == [loop EXCEPT !.resuming = TRUE, !.drain = FALSE]

\* The approver answers, and the loop goes on to the awaits of the next turn;
\* an abort meanwhile ends the run here.
LiveAnswers(r) ==
    /\ At(r, "asking")
    /\ \/ /\ ~runs[r].aborted /\ Free
          /\ Take(r, BoundaryDrain(SameTurn), "preparing") /\ loop' = SameTurn
          /\ UNCHANGED told
       \/ /\ \/ runs[r].aborted /\ Ends(r, "done") /\ Free
             \/ Fault /\ Ends(r, "thrown")
          /\ Leaves
          /\ UNCHANGED <<place, loop>>
    /\ UNCHANGED <<scene, marks, facadeVars, chain, active, intr, tail>>

pauseRun(r) ==
    /\ At(r, "pausing")
    /\ \/ Ends(r, "interrupted") /\ Free /\ intr' = loop.turns /\ told' = "paused"
       \/ Fault /\ Ends(r, "thrown") /\ Leaves /\ UNCHANGED intr
    /\ UNCHANGED <<scene, marks, facadeVars, chain, loop, busVars, tail>>

\* performHandoff: an edge nobody knows ends the run.
performHandoff(r) ==
    /\ At(r, "handing")
    /\ \/ Go(r, "boundary") /\ Free
       \/ Ends(r, "done") /\ Free
       \/ Spend("tripwire") /\ Ends(r, "blocked")
       \/ Fault /\ Ends(r, "thrown")
    /\ UNCHANGED <<scene, marks, facadeVars, chain, loop, busVars, storyVars>>

---------------------------------------------------------------------------
(* The end of a run: the store, the lock, the flag, and another look at    *)
(* the bus.  These are a few microtasks without input or output.           *)

\* Bugs: a run's end leaves the flag; nothing looks at the bus again.
BugFlagAfter(result) == result = "interrupted" \/ interrupted

\* lastRunInterrupted: a run that throws leaves it.
FlagAfter(result) ==
    IF result = "thrown" THEN interrupted ELSE result = "interrupted"

BugEndRun(r) == waited' = waited \ {r} /\ UNCHANGED wake

endRun(r) == waited' = waited \ {r} /\ scheduleIdleWake

\* Bug: a run that throws keeps the lock.
BugLetGo(result) == IF result = "thrown" THEN chain ELSE Tail(chain)

\* The lock goes to the next in the queue, whatever became of this run.
LetGo(result) == Tail(chain)

\* A failing flush replaces the result.
SettleResult(r, result) ==
    \/ result = runs[r].result /\ Free
    \/ "flush" \in scene.may /\ result = "thrown" /\ Fault

\* Two ends of a run leave the flag and the stream behind the store: a
\* guardrail that blocks a resumed run, a flush that fails after it.
Parting(r, result) ==
    IF runs[r].kind = "resume" /\ runs[r].result = "blocked" THEN "blocked"
    ELSE IF result # runs[r].result THEN "flush"
    ELSE IF result = "thrown" THEN parted ELSE "no"

Settles(r) ==
    /\ At(r, "settling")
    /\ \E result \in Results :
          /\ SettleResult(r, result)
          /\ interrupted' = FlagAfter(result)
          /\ parted' = Parting(r, result)
          /\ chain' = LetGo(result)
    /\ intr' = IF runs[r].kind = "resume" /\ runs[r].result = "done" THEN 0 ELSE intr
    /\ tail' = IF intr' # 0 THEN tail ELSE "quiet"
    /\ claimed' = (claimed /\ intr' # 0)
    /\ Gone(r)
    /\ loop' = NoLoop
    /\ endRun(r)
    /\ UNCHANGED <<scene, slipped, life, gate, busVars, told>>

---------------------------------------------------------------------------
RunStep(r) ==
    \/ Unparks(r) \/ LeavesGate(r) \/ ReadsInterruption(r) \/ withRunLock(r)
    \/ execute(r) \/ Continues(r) \/ TurnBoundary(r) \/ BeginTurn(r)
    \/ BatchAgain(r) \/ StepTop(r) \/ ModelAnswers(r) \/ ToolsEnd(r) \/ ToolsClaimed(r)
    \/ AfterStop(r)
    \/ TurnRejected(r) \/ TurnReturned(r) \/ BoundaryGates(r)
    \/ pauseRun(r) \/ performHandoff(r) \/ Settles(r)

Next ==
    \/ \E m \in Messages : steer(m) \/ followUp(m)
    \/ \E r \in Runs : \/ prompt(r) \/ resume(r) \/ IdleWakeStarts(r)
                       \/ RunStep(r) \/ LiveAnswers(r)
    \/ IdleWakeStandsDown
    \/ holdAtBoundary \/ release
    \/ cancel \/ close \/ runClose

Spec == Init /\ [][Next]_vars

\* The event loop runs on; a model and a tool answer or fail; a coordinator
\* releases what it holds, whatever happened.  An approver need not answer.
Fairness ==
    /\ \A r \in Runs : WF_vars(RunStep(r))
    /\ WF_vars(IdleWakeStandsDown \/ \E r \in Runs : IdleWakeStarts(r))
    /\ WF_vars(release)
    /\ WF_vars(runClose)

FairSpec == Spec /\ Fairness

---------------------------------------------------------------------------
(* Properties.                                                             *)

\* Once the runs that a hold or a close waits for have settled, no run is in
\* flight until the gate opens again: what a coordinator replaces, or close
\* takes down, nobody is using (harness.ts:681-683, 777-792, 859-866).  Except a
\* call that was let out of an earlier hold and had not begun when the gate fell.
QuietMeansQuiet ==
    (gate = "held" \/ life = "closed") /\ waited = {} => InFlight \subseteq slipped

\* What the comment of holdAtBoundary says: a held session takes no new run,
\* and is at its boundary once the runs of that moment have settled
\* (harness.ts:867-872).
HeldSessionsTakeNoRun == gate = "held" /\ life = "open" => InFlight \subseteq waited

\* A run that an idle wake started has something new to say to the model:
\* nobody has taken the queue from under it (runner.ts:652-655, 852-858).
WakeBringsInput ==
    \A r \in Runs : runs[r].kind = "wake" /\ At(r, "model") => runs[r].fed

\* While tool calls wait for the user nothing is put between them and their
\* results: no message of the bus and no prompt (runner.ts:882-887, 1054-1058,
\* 579-581).  Except in a run where a hook claimed a failure of the calls.
HeldCallsStayWhole ==
    [][tail = "calls" /\ ~claimed =>
         /\ \A m \in Messages : place'[m] = "taken" => place[m] = "taken"
         /\ tail' # "prompt"]_vars

\* A follow-up is a prompt of its own: it does not join a prompt that has
\* not been answered (runner.ts:882-887, steer.ts:119-122).
FollowUpsAreOwnPrompts ==
    [][\A m \in Messages :
         place[m] = "followUp" /\ place'[m] = "taken" => tail # "prompt" \/ claimed]_vars

\* The drains of Engine.run and runTurn keep the conversation well formed:
\* calls next to their results, each follow-up after an answer.
DrainsKeepTheConversation == HeldCallsStayWhole /\ FollowUpsAreOwnPrompts

\* Between runs the session says that it is interrupted when its store does,
\* so that a message wakes it exactly when a run would be accepted
\* (harness.ts:755-766, 1084-1086, runner.ts:579-581).  Except after a guardrail
\* that blocked a resumed run, or a flush that failed.
FlagAgreesWithStore == InFlight = {} => (interrupted <=> intr # 0) \/ parted # "no"

\* Between runs no turn is open in the event stream: it was ended, or paused
\* with an interruption to answer, or given up at one of the awaits where the
\* code is known to say nothing (runner.ts:992-998, telemetry/events.ts:174),
\* one of which, a blocked resume, leaves it open.
TurnsEnd ==
    InFlight = {} => /\ told = "open" => parted = "blocked"
                     /\ told = "paused" => intr # 0

Asking == \E r \in Runs : At(r, "asking")

\* What is put on the bus is taken, by the turn it landed in or by a later
\* one, unless the session waits for the user or closes (harness.ts:739-754,
\* 841-847, 880).
QueuedIsTaken ==
    \A m \in Messages :
        place[m] \in {"steering", "followUp"}
            ~> (place[m] = "taken" \/ interrupted \/ life # "open" \/ Asking)

\* A call that has been accepted comes back: parked, queued or running, it
\* ends, unless an approver keeps it (harness.ts:782-792, 914-916).
RunsEnd ==
    \A r \in Runs : runs[r].pc # "none" ~> (At(r, "none") \/ Asking)
=============================================================================
