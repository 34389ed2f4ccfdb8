# operon-agents in TLA+

A verification development of the control logic of operon-agents: what the
managed server's worker fleet does with the sessions it leases, how one session
starts, holds and ends its runs, what the agent loop does with the tool calls of
one assistant message, and what lies around it: the event stream a client
watches, the log on disk, background tasks, workflows and messages between
agents. The models are translated from the TypeScript under `packages/`; line
numbers are those of the source files at the modelled commit.

1. [Inventory](#1-inventory)
2. [Modules and the code](#2-modules-and-the-code)
3. [Runs](#3-runs)
4. [Fairness](#4-fairness)
5. [What is proved](#5-what-is-proved)
6. [Where the code and its comments part](#6-where-the-code-and-its-comments-part)
7. [Abstractions and what is not modelled](#7-abstractions-and-what-is-not-modelled)
8. [Plan](#8-plan)

## 1. Inventory

operon-agents is a framework for LLM agents. An *agent loop* sends a
conversation to a model, runs the tool calls of the answer and goes around; a
*session* keeps the conversation in an append-only log and a small key-value
state; a *harness* holds sessions open in a process; the *managed server*
splits acceptance of messages (API nodes) from execution (workers), with the
log of the session as the only channel between them.

| component | state | operations | hard parts | what makes it correct | module |
|---|---|---|---|---|---|
| work table (`managed-agents/server/work*.ts`) | one row per session: woken, owner, lease_until, fence | append, claim, acquire, renew, release, peek | statements that commit or answer late, lapse, crash | one holder; a wake is never erased; abandoned sessions are taken again | SessionWork, LeaseGrants |
| session worker (`session-worker.ts`) | running map, wake flag per run, cursor in the store | claim loop, run, drainInbox, processInbox, nudge, stop | wake against release, cancel against turn, crash between turn and cursor, take-over from oneself | the cursor never passes what nobody dealt with; accepted work is somebody's; runs end | SessionWorker |
| inbox (`inbox.ts`) | none of its own: records of the log after the cursor | readInbox, put cursor | paging, exclusion of what is on the bus | every accepted record is read until it is consumed | SessionWorker |
| session service (`session-service.ts`) | metadata, streams of watchers | accept, resume, cancel, watch; create, fork, delete | check before append, backfill against live events | accepted means appended and woken; a stream has no gap | SessionWorker, EventStream |
| broadcast (`broadcast.ts`), publisher (`events/publisher.ts`) | listeners, Redis subscription, queue of appends | publish, subscribe | best effort, SUBSCRIBE that takes effect later, commit before emit | what the stream drops is found in the log | EventStream |
| harness session (`agents/harness.ts`) | bus of steer messages, runs in flight, state | prompt, resume, steer, cancel, hold, close, idle wake | idle wake against cancel and close | one run at a time, a held session is quiet | SessionRuns |
| agent loop (`agents-core/loop/`) | context, steer bus, turn | step, drain, tool batch, retry | drains at step ends, journal writes in flight | records pair up; a turn that starts ends | SessionRuns |
| tool scheduler (`loop/scheduler.ts`, `tool/access.ts`) | active and queued tasks | add, finish (sweep) | path overlap, overtaking, forgotten waiters | no race, provider order, progress | ToolScheduler |
| tool batch, pause and resume (`loop/tool-call.ts`, `agent/pause.ts`, `agent/runner.ts`, `loop/interruption.ts`) | prepared calls, outcomes, interruption in the store | prepare, run, suspend, pause, answer, resume, recover | several rounds, processes and clients; crash between shard and frame | a call runs once, an answer is honoured once and reaches its tool | ToolBatch |
| permission (`permission/`) | mode, rules, session grants | authorize, apply an approval | mode changes while calls wait | a rejection holds | ToolBatch (authorizer only) |
| session object (`agent/session.ts`, `concurrency.ts`) | run lock, semaphore, frames | withRunLock, acquire, attach, detach, close | close against a run | one writer per shard | SessionRuns, WorkflowRun |
| disk store (`store/disk-store.ts`) | a file of lines per address, state.json, counters in memory | append, index a checkpoint, rewrite, put state | torn tail, index left behind, two stores on one directory | prefix of what was appended; a replay starts at a checkpoint | DiskLog |
| other stores (`pg.ts`, `redis.ts`, `lock.ts`) | log, state, blobs, catalogue | append, page, put, lock, migrate | lock expiry, commit order | as above | — |
| background tasks (`capabilities/background/`) | live entries, record per task, queue of writes, notices | register, attach, detach, settle, stop, wait, reconcile | notice against bus and log, two kills, crash between end and stamp | a task's end is told once, and what a record says stays so | BackgroundTasks, TaskLedger |
| workflows (`agent/workflow/`) | journal, key chain, slots, budget | agent, parallel, pipeline, workflow, resume | replay of calls whose order may change, aborts while waiting for a slot | a resume sees the past it had and pays for nothing twice | WorkflowRun |
| peers (`agents-peers/`) | mailbox ledger, roster | send, deliver, observe, read inbox, disband, reconcile | crash between ledger and conversation | a message reported delivered is not lost | PeerMail |
| capabilities (goal, plan, todo, task, skills, compaction, hooks) | small stores | tools and hooks around a turn | order of start and stop, budget | plan mode blocks writes; the budget stops the loop | — |
| extensions, cron, mcp, plugins | registries, schedules, connections | start, dispose, tick, reconnect | start barrier, missed ticks, attempts that overlap | services exist while used; a tick fires once | — |
| idempotency, metadata, registries | key to resource | create once, replay | retry while the first attempt runs | one resource per key | — |
| front ends, sandboxes, code mode, tracing | — | — | I/O, rendering, external programs | — | — |

Interaction: an API node **appends** to the log and wakes the row (one
transaction); a worker **claims** the row, opens the session through the
harness, **requeues** inbox records on the session's bus; the loop **drains**
the bus into the conversation, each record of which goes to the same log and,
once appended, to the **broadcast**; the worker advances the **cursor** in the
session's state when it sees the loop's records; heartbeats bring new wakes.
Watchers read the log first and the broadcast after. Inside a turn the loop
hands the tool calls of a message to `runCalls`, which asks the authorizer and
the scheduler; a pause writes the **interruption** to the session's state, a
resume control record brings the answers back the way a message comes. Background
tasks and peers speak to an agent through the same bus; a workflow runs agents of
its own under a semaphore.

The hazards of this code, each at its line and with the properties that cover
it, are listed in `PROJECT.json`; those that no property covers carry the
reason, and are what [the plan](#8-plan) is ordered by.

## 2. Modules and the code

```
LeaseGrants            what leases promise, without clocks or messages
  ^ refined by
SessionWork            the Postgres work table
  ^ extended by
SessionWorker          API node, inbox, worker, session object
  ^ extended by
SessionWorkerInvariants   the inductive invariants     SessionWorkerProofs (of both)

SessionRuns            harness, run lock, agent loop, steer bus of one session
                                                         SessionTurnsProofs

ToolScheduler          scheduler over declared accesses
  ^ extended and implemented by
ToolBatch              one batch from first run to last resume  ToolBatchProofs

TaskLedger             what the records of background tasks promise
  ^ refined by
BackgroundTasks        manager, record store, notices    BackgroundTasksProofs

EventStream            publisher, broadcast, watcher, client  EventStreamProofs
DiskLog                files, sequences, checkpoint index  DiskLogProofs
WorkflowRun            hooks, journal, slots, budget     WorkflowRunProofs
PeerMail               ledger, delivery, reconcile       PeerMailProofs

...MC                  small instances and scenes for TLC
```

**SessionWork** (`work-pg.ts`, contract in `work.ts`). `row` is the table and
`lease` the `WorkLease` objects of all processes. A statement is one action.
`RenewSend`, `RenewCommit`, `RenewAnswer` (and the two of release) are separate
because the code awaits the pool between them: `calls` holds what was sent and
what was answered. Time is the database's clock; a row keeps the ticks that are
left until `lease_until`. `sure` is a history variable: what the last commit for
a lease granted it, the measure of how long its holder may go on.

**LeaseGrants** is the contract: a session is granted over and over, at most one
grant is held, an old one never comes back. `grantEpoch` and `grantHeld` in
SessionWork are the refinement mapping (the row's fence; the fences of the
current leases).

**SessionWorker** (`session-worker.ts`, `inbox.ts`, and what they use of
`session-service.ts`, `harness.ts`, `run-turn.ts`, `pause.ts`). `run[h]` is the
worker's run under lease `h`; its `pc` names the await it is at, so an action is
the code between two awaits that matter: `Pass` (top of the do-loop of `run`),
`ReadWork`, `Open`, `Step` (advance and read in `processInbox`), `FeedCancel` /
`FeedPaused` / `Feed`, `Wakes` (the race of idle and wake), `CursorStored`,
`HoldEnds`, `CancelSettles`, `Close`, `After` (the loop's `while`), `Finish`,
`Done`. `obj[h]` is the session object: its bus, whether a run is in flight,
aborted, paused, and whether a background task holds it open. `log`, `cursor`,
`intr` (an interruption is stored) and `turnOpen` are the durable state. The
service's check of the session's state and its append are two actions
(`CheckState`, `AppendChecked`). A read sees one page of the log (`PageSize`), and
takes what it got for all there is (`PageRead`). `dropped` is a history variable: how
a row's wake was last lost, or the inbox behind a page overlooked.

**SessionRuns** (`harness.ts`, `session.ts:1104-1114`, `runner.ts`, `run-turn.ts`,
`turn-step.ts`, `steer.ts`, `pause.ts`). One open session and the calls made on it.
`runs[r].pc` is the await a call is at: parked at the barrier gate, past it ("passed":
its last check of the gate is behind it, `beginRun` a microtask ahead, `LeavesGate`),
reading the interruption, queued for the run lock, assembling (what `execute` does
before the engine), at the boundary of a turn, preparing it, in the resumed batch, at
the top of a step, at the model, at the tools, in the continuation hook, and the exits
of `runTurn` and `Engine.run` down to settling. `loop` holds the locals of `Engine.run`
and `runTurn`, one record because the lock lets one run have them. `chain` is the
promise chain of the lock, `waited` what the last hold or close awaits, `wake` is
`wakeScheduled`, `interrupted` is `lastRunInterrupted` and `intr` the interruption in
the store (the number of turns its frame counts). `FirstTurn`, `SameTurn` and
`BoundaryDrain` are the drain rules of `Engine.run`. `ToolsClaimed` is a failure of the
tools that a hook claims, after the message with the calls is in the conversation.
`tail` and `told` are history variables: how the conversation ends, and what the event
stream last said of a turn; `slipped`, `parted` and `claimed` remember what the
exceptions of the properties are about: the runs past the gate when it fell, a blocked
resume or failed flush at the end of the last run, a claimed failure. SessionWorker
keeps its own, coarser turn; it looks at the log across processes, this module at the
awaits of one.

**ToolScheduler** (`scheduler.ts`, `access.ts`). Tasks are numbered in the order
they are added. The queue is the set of waiting tasks, since the array is always
in that order. `finish` contains the sweep: `Unblocked` is the set a pass over
the queue starts. The accesses of a task are any set of declarations over any
paths.

**ToolBatch** (`tool-call.ts`, `run-turn.ts:111-145`, `pause.ts`,
`interruption.ts`, the resume and live-approval parts of `runner.ts`,
`buildAuthorizer`). `phase` is where the run is; `prepared` and `outcome` are the
local arrays of `runCalls`; `frame` and `answers` are the run's state, `kept` the
interruption in the store, `log`/`flushed` the shard in memory and on disk,
`copies` what clients have read. `due`, `heldOver`, `decided`, `settled`, `taken` are
history variables for the properties; `heldOver` are the calls whose answer a pause for
an approval passed over. A new round has a new scheduler (`newScheduler`),
as `runCalls` constructs one.

**BackgroundTasks** (`capabilities/background/manager.ts`, the publisher's queue
and what opening and running a session do with the manager). `live` is the map
`tasks`, `work` what each task itself is doing, `disk` the stored records.
Records are written through one chain (`persistenceChain`): `chain` holds the
writes asked for, `ready` those that have landed and whose continuation has not
run, so that the code on both sides of an await is apart. `walk` is a reconcile
under way, one called by open and one by a run. `bus`, `outbox` and `told` follow
a notice from the steer bus over the publisher to the durable conversation. `crash`
loses everything but `disk` and `told`; `closeSession` leaves the tasks running as
`strays` of the old manager. **TaskLedger** is what `persist.ts` says of a record:
one terminal status that stays, a notice owed only after it, confirmed only when
the conversation has it; the refinement maps the two publishing modes and the
strays.

**EventStream** (`session-service.ts:318-420, 655-739`, `broadcast.ts`,
`publisher.ts`, the ids of `http-server.ts`). A durable event is its position in
the log. `owed` is an appended record that is not emitted yet, `wire` what is
published over Redis, `sub` a SUBSCRIBE that takes effect later. The watcher's
`cursor`, `pageEnd` and `short` are the backfill, `seen` its set of ids, `items`
the EventQueue; `hand` is an event whose waiter has been resolved and whose loop
has not run, `orphans` the waiters of races that an idle tick has won. `lost` is a
history variable: what no delivery is coming for, recorded where it is dropped
(a full queue, an orphaned waiter, an emit before SUBSCRIBE took effect or after
the connection broke, a worker that died between append and emit, an input that
only the log gets).

**DiskLog** (`store/disk-store.ts`). A file is a sequence of pieces, what each
`appendFile` left: a piece may lack its newline or the end of its record, and what
comes next continues the same line. `hs[h]` is what a `DiskSessionStore` holds in
memory and the await its append is at: version check, the rewrite of an old log
(read, rename, repoint the index, stamp), metadata, size, sequence, write, index.
The repository opens a store per `open()`, so that a worker's and a service's may
be open on one directory; `Stores` has one or two.

**WorkflowRun** (`workflow/runtime.ts`, `journal.ts`, `tool.ts`). The script is
`pipeline(items, stage, ...)`: with one stage it is `parallel`, with one item a
sequence, and a nested script asks through `workflow(name)` with a semaphore, a
count and a budget of its own: `mem` has these per frame, a frame being one call of
`runWorkflow`. `mem` is what the process holds and the hooks are
functions of it (`agent`, `acquire`, `dispatch`, `release`, `workflowHook`); `journal`
is what a crash leaves. A journal key, a hash chained over the prompts, is the
sequence of these prompts. The pipeline calls the first stage of every item in one
go; the model takes these calls one at a time from the queue of continuations
(`ready`), so an abort waits until all have been made.

**PeerMail** (`network.ts`, `mailbox.ts`, `directory.ts`, the inbox op and
`steerTo`). `ledger`, `roster`, `paused`, `appended` and `answered` are on disk; sessions,
their runs and queues, and the calls under way die with the process. A send, or the
redelivery of a message, is at one of its awaits (`sending`): `dispatch`, `enqueue`,
`openSession` (which waits for a session that is closing), `steerTo`, `settleRefused`. A
member is a root agent with a session of its own, or a frame of another agent's
(`scene.subagents`): `Accepts` is what the recipient's side says of it, and a handle that
was closed in between refuses too (`stale`). `inbox[r]` is an inbox call, what it read and
what of that it has not settled yet: `settleRead` settles one message, `drainThrows` is a
settle that throws, `abortInbox` the grace time after which the loop records a synthetic
error while the drain goes on (`abandoned`), `inboxResult` the recorded result. `reconcile`
finds the recipients once and visits them one after the other. `dropped`, `refused` and
`cut` are history variables: the ways a message leaves the ledger unseen.

The operators called `Bug...` are plausible mistakes in the operator that
follows them; the project's checks substitute each and expect the property it is
listed with to fail. Every module has a type invariant; it is proved, or an
invariant that TLC was given while the module was written, and not repeated in
each configuration.

## 3. Runs

Scenes: most modules have a variable `scene` (in WorkflowRun `script`), chosen in
the initial state from a constant and never changed. It says which of the
environment's doings may happen and bounds how often. One run so covers several
combinations and its state spaces add up instead of multiplying.

| run | instance | states | shows |
|---|---|---|---|
| `work_all` | 1 session, 2 processes, 2 lease objects, TTL 1, 2 takes, 1 fault | 187 thousand | `OneHolder`; `HoldersOwnTheirRows` (a holder owns its row, fences tell takes apart); `ImplementsGrants`; `WakeIsHandedOn`; `LeasesMoveOn` (abandoned sessions are taken, superseded holders learn) |
| `worker_safety` | 9 scenes, 1-2 workers, 1-2 leases, 2 messages, 1 control, 2 faults | 2.22 million | `OneDriverPerTurn` (one object per process, an open turn is somebody's); `CursorPassesOnlyDealtWith`; `NothingForgotten`; `TakenOncePerObject`; `CancelledNeverReturns` |
| `worker_live` | 5 scenes, 1-2 leases, 1 fault | 166 thousand | `TurnsAreClosed`, `AcceptedIsDealtWith`, `LeasesComeBack` |
| `runs_all` | 10 scenes, 2 runs, 2 messages, 2 turns, 2 steps | 493 thousand | `QuietMeansQuiet`, `WakeBringsInput`, `FlagAgreesWithStore`, `TurnsEnd`, `DrainsKeepTheConversation`, `QueuedIsTaken`, `RunsEnd` |
| `tools_batch` | 10 scenes, up to 4 calls | 40 thousand | `NoRace`, `StartsInOrder`, `OnceEach`, `DoneAndRefusedStaySo`, `SuspendedCallsAreServed`, `HeldBatchIsIdle`, `BatchComesToAnEnd` |
| `bg_all` | 6 scenes, 2 tasks, cap of 1 | 226 thousand | `ImplementsLedger`, `NoticesAreInOrder`, `NobodyWaitsForTheEnded`, `EveryEndIsTold` |
| `stream_all` | both broadcasters, 4 records, 2 live events, pages and a queue of 2, 1 idle tick, 1 fault | 431 thousand | `NothingSlipsThrough`, `SeamIsInOrder`, `EveryEventArrives` |
| `disk_all` | 4 scenes, 3 appends, up to 2 crashes | 329 thousand | `LogSurvivesRestarts`, `CheckpointReadIsSuffix` |
| `workflow_all` | 4 scripts, a run and a resume, 1 fault, cap of 4 agents | 64 thousand | `JournalIsThePast`, `SlotsAndBudgetHold`, `EveryRunEnds` |
| `peers_all` | 6 scenes, 1 member, up to 2 messages, 1 crash, 1 fault | 2.64 million | `NothingIsLost` |
| `stream_found_idle`, `disk_found_torn` | one case each | — | [section 6](#6-where-the-code-and-its-comments-part) |

**Bounds of the work table.** One session: rows do not interact. Two processes
and two lease objects give a holder and a successor, which may be the same
process, while a statement of the first is still in flight; what the invariants
say for more takes is proved. TTL 1 separates "renewed now" from "renewed a tick ago" and
"lapsed". One fault is a crash or a failed query at any moment.

**Scenes of the worker.** `Feeding`: two messages and a cancel or an answer to a
pause, with wakes arriving at any moment. `Tasks`: a background task that
outlives its turn, with nudges. `Errors`: queries, opens and resumes that fail, up to twice.
`Crashes`, `CrashesCancelled`: the process dies anywhere, three takes, with two
messages and heartbeats, or a cancel among them and none. `Takeovers`: a run that takes over
from a dead one fails in turn, which takes two faults. `Stops`: two workers, one of
which is stopped. `Overlaps`: one worker loses its lease and takes the session
again while its earlier turn goes on writing (two lease objects, one process).
`Pages`: a page of two records, and a turn that writes others between the messages.
Two messages are needed for order and for a cancel with something on both sides;
one control record for each question asked of it. In the other scenes the page limit
is 16, above any log. The liveness properties have scenes of their own: a pause and a
cancel; a crash and a cancel; a background task; failing queries, opens and resumes; and
a lease that lapses, with two lease objects and failures, in which the run that took the
session again waits for the earlier one.

**Scenes of the runs.** `Talking`: a prompt, two messages and a cancel at any
moment, with handoffs. `Queueing`: two prompts and a wake queue for the lock.
`Pausing`: pauses and two resumes next to prompts. `Approving`: a live approver
twice in the same turn, and a pause. `Holding`, `HoldingAgain`: a coordinator holds
the session, once with a resume or twice, while messages and prompts arrive and the
session closes. `Failing`: two failures anywhere, a guardrail, a failing flush.
`Breaking`: pauses and approvals cut short by a failure or a cancel. `Blocking`: a
guardrail and a failing flush around pauses and two resumes. `Claiming`: a hook claims
a failure of the tools while messages wait. Two runs at
once suffice: a third is one more in the queue of the lock or at the gate. Two
turns and two steps reach both caps, and each drain before and after the first of
each.

**Scenes of the batch.** `Declarations`: three calls, each with one of seven kinds of
declaration (none, a file, another spelling read, a tree written, a tree searched, two
files, everything), so every pair and every order of three. `Queue`: four calls and an
abort while two of them may hang. `Approvals`, `Inputs`, `Failing`: calls that are asked
about, denied or suspend, over up to three resumes with partial answers, with and
without a live approver, an error or a crash at any point between rounds. `Stopped`: an
abort while the approver is asked. `Changing`: policies that say something else of a
call in a later round, and a guardrail that blocks a call. `MaxSuspends` is 2: one
suspension, an answer, and another one, which is what one-shot answers are about.

**Scenes of the background tasks.** `Dying`: everything that can be done to one
task (attach, stop, wait, a task that ends by itself), with a crash and another
one during recovery, in both publishing modes; without them no second reconcile
meets the leavings of a first. `Sharing`: two tasks whose writes and notices share
one queue each, with the cap on running tasks reached. `Closing`: the session is
closed and reopened in one process while its task runs on.

**Bounds of the stream.** Pages of two and a queue of two over four records: a
backfill of a full and a short page, a page while another record lands, and a queue
that overflows with one event in the loop's hand. One idle tick is one orphaned
waiter. One fault is a worker that dies or a connection that drops. `stopSubscription`
has no bound: the client may reconnect at every point.

**Scenes of the disk.** `Alone2`: one store, two addresses, two crashes. `Legacy`:
a log of an older wire version with an index, a checkpoint in the middle and a torn
tail, which the first append rewrites and a crash may cut short. `Shared`: the
worker's store and the service's in one process. `LegacyShared`: both open on the old
log, which each of them may rewrite. Three records make a checkpoint with something
before and after it.

**Scripts of the workflow.** A fan-out of three over two slots under a budget of one,
a sequence of five, which meets the cap of four agents, a pipeline of two items and
two stages, whose second stages are asked in an order that depends on the answers,
and two nested workflows. Two results tell a replayed value from another one.

**Scenes of the mail.** `Full`: two messages for a mailbox that holds one: one is on its
way while the other is refused, and its team may be disbanded. `Batch`: two messages
that one inbox call of a subagent may read, with closes, and with a settle that throws
or a session that does not open. `Restart`: one message to a teammate or to a subagent,
a crash, after which a reconcile runs, a failure, closes and a disbanded team. One
message suffices for what a crash, a refusal or a close does to it; two are needed for
the capacity and for a drain that stops midway.

`CHECK_DEADLOCK FALSE` in all runs but the work table's: a session with nothing to
do, a batch, a task or a workflow that has ended, a log that is full by its bound
are at rest. The work table never is.

**Properties worth reading first.** `NothingForgotten` (an unread message on a row that
is quiet and free has one of the named causes), `CursorPassesOnlyDealtWith`,
`TakenOncePerObject`, `WakeIsHandedOn`, `LeasesComeBack`, `DoneAndRefusedStaySo` (a
crash after a pause never repeats a tool that was done), `SuspendedCallsAreServed`,
`QueuedIsTaken`, `DrainsKeepTheConversation`, `EveryEndIsTold`, `NothingSlipsThrough`,
`CheckpointReadIsSuffix`, `JournalIsThePast`, `NothingIsLost`.

## 4. Fairness

*Work table* (`TableFairness`). The heartbeat is a timer; the pool settles what
it was sent; the claim loop of some worker asks again and again
(`session-worker.ts:183-192`); the clock runs. Appends, faults and acquires are
the environment's.

*Worker* (`Fairness`). Each run goes on from its await, since nothing in it waits
for anything but the store, its object and its wake; a turn that is running takes
from the bus and ends (the loop has a turn limit and models answer or fail); a
background task settles; the statements of the pool commit and are answered; the
heartbeat fires; some worker claims a row that can be claimed; an API call that
has checked appends. Pauses, cancels, stops, crashes, errors, nudges and lapses
have no fairness: nothing may depend on them. `InTime` is the assumption that a
heartbeat is in time unless the scene lets the lease lapse.

*Runs* (`Fairness`). The event loop runs on, so every run leaves the await it is at
(a model, a tool, a hook and the store answer or fail) and the wake's microtask
runs; a coordinator releases what it holds, in a `finally` (`harness.ts:859-866`);
the close goes on once the runs have settled. An approver need not answer
(`LiveAnswers` has no fairness), and no message, prompt, resume, hold or cancel has
to come. Failures and guardrails are counted: a wake run that is blocked each time
before it drains would be started again without end, which is a hazard listed in
`PROJECT.json`, not something the properties forbid.

*Batch* (`Fairness`). The event loop runs on (`Schedule`, `BatchEnds`), a tool
that is not one of the scene's hanging ones settles, the grace timer fires once
armed. Nobody has to answer, abort or fail. Pauses, resumes and journal writes
have no fairness; `BatchComesToAnEnd` needs none of them.

*Background tasks* (`Fairness`). What the process does by itself once begun:
continuations of writes, the queue of appends, the walks of reconcile, a run that
drains the bus, and the session is opened again after a crash or a close. A task
may run for ever, and nobody has to stop it, detach it or wait for it; so
`EveryEndIsTold` speaks of tasks whose work is over.

*Stream* (`FairSpec`). The publisher's queue, the wire and the watcher's loop go
on; the client reconnects, as EventSource and the managed client do. Records and
faults need not come.

*Workflow* (`FairSpec`). Continuations run, appends settle, a nested script is read,
and an agent ends, by its own timeout at the latest
(`WORKFLOW_AGENT_TIMEOUT_MS`). Aborts, crashes and resumes have no fairness.

DiskLog and PeerMail state no liveness and have none.

## 5. What is proved

All theorems hold for every value of the constants that satisfies the named assumptions
of the modules (`TTL` a natural number, `NoOwner` no owner, `Fold` a function on names,
scenes within the tasks, and the like). Two hypotheses are left, and named where they
stand: that no lease lapses under a live holder, which is what a worker that renews in
time has, and that a log of an older version is opened by one store, which the other
proof of DiskLog does without. For every inductive invariant TLC was asked first, on the
instances of section 3 and some larger ones.

**SessionWorkerProofs**, the table (its invariants, and those of the worker below, are
defined in SessionWorkerInvariants). `TableTypeCorrect`, `SessionHasOneHolder` (`OneHolder`),
`HoldersAreFenced` (`HoldersOwnTheirRows`), `TableImplementsGrants`
(`ImplementsGrants`), `WakesAreHandedOn` (`WakeIsHandedOn`). `OneHolder` is not
inductive: a take may not look at other leases, only at the row. The induction is
`IInv == TableTypeOK /\ LeasesConsistent /\ HolderOwnsRow /\ FenceTellsTakesApart`:
a current lease owns its row for at least as long as it is sure of, so a row that
can be taken has no current lease; and two leases with the row's fence are one,
so a commit that arrives late finds another fence (`Mine`) and changes nothing.
`OneHolder` follows. Each statement has a lemma; `SameTakes` names what all but
the takes have in common. The refinement maps a take to `Grant`, a renew that
commits after a lapse to `Regain`, and everything that makes leases end to
`End`. That a wake is handed on is an action property from the same invariant: of
all statements only a take and a renewal of the row's own lease clear the flag.

**SessionTurnsProofs**, the gate. `HeldSessionsAreQuiet` (`QuietMeansQuiet`): once the runs a
hold or a close waits for have settled, no run is in flight until the gate opens
again, but those that had passed it before it fell. By itself it is not inductive, since
it says nothing while somebody is still waited for. The induction is `RunsAreWaitedFor`:
while the gate is held or the session is not open, every run in flight is waited for or
slipped through, and whoever stands past the gate is among the slipped; a run begins only
from there (`BeginningsKeepInv`), one that ends leaves both sets
(`EndingsKeepInv`), a hold and a close take the runs, and those at the door, as they are
(`FacadeKeepsInv`), and the steps between only move a run that is in flight
already (`WithinMoves`).

The turns. `SessionTypeCorrect`, `RunsTakeTurns`, `WakesBringInput`,
`ConversationStaysWhole` (`DrainsKeepTheConversation`), `TurnsAreTold`
(`TurnsEnd`) and `FlagTellsTheStore` (`FlagAgreesWithStore`). The types are not
inductive without the lock: `loop` is one record, and a second run inside would
count turns in it. So `Inv` has the chain as a queue without repetition whose head
alone is inside (`Lock`), one resume whose interruption stays stored (`Resumes`),
what the locals of the run inside say at each await (`LoopOf`), how the
conversation ends there (`TailOf`), what a wake run has on the bus or has taken
(`InputOf`), and how the conversation ends when nobody is inside (`Between`).
`DoesKeepsInv` is the lemma every step of a run inside is brought under. The last
two rest on `Story`, which follows what the event stream was
told and what flag and store hold from await to await; `EndOf` is what a run that
is about to settle leaves, `parted` among it, which stands for the blocked resume and
the failed flush. The theorems are about every scene.

**SessionWorkerProofs**, the worker. `TypeCorrect`, `CursorIsSafe`
(`CursorPassesOnlyDealtWith`) and `TakenOncePerObjectHolds` (`TakenOncePerObject`) hold
in every scene, lapses included. Their induction is `WInv`: the table's `IInv`; where a
run and its object can be (`Placed`); the cursor of a session has only passed what was
dealt with (`PrefixDealt`); and what each run holds of its log (`Holds`), as a predicate
on the values (`Held`), so that what a step of one run does is stated without the other.
It says that what is on the bus is an input of the log (`Given`); that the outstanding
items and those just read are one stretch of the inbox after the run's cursor with
nothing left out (`Lined`), each consumed one of them dealt with (`Seen`); and that an
accepted message is on the bus once, outstanding, and not heard of as taken (`Once`).
The run's own cursor need not be the stored one: after a lapse two runs of one session
put theirs in any order, which is why every run carries that its prefix is dealt with.
`Ranked`, `Selected` and `Consumed` are the lemmas on the model's operators:
`InLogOrder` lists a set in ascending order, the searches of `processInbox` find the
last cancel and the first answer, `ConsumedPrefix` is the longest consumed prefix.

`OneDriverInTime` (`OneDriverPerTurn`) and `CancelledInTime` (`CancelledNeverReturns`)
are about the scenes without `lapse`. Where leases may lapse the first is false from
three lease objects on (the hazard at `session-worker.ts:234`), so it has to be a
hypothesis. `LInv` is inductive then: there is a run under a lease exactly while it is
not gone, and it has not lapsed (`Alive`), so two runs past their start under one
session are one (`HoldsAlone`) and what a run and its object keep to is disturbed by
nobody (`Keeps`): its cursor is the stored one, what is on its bus lies beyond
every cancel that cursor has passed, an object that runs or is paused agrees with the
stored interruption, and an open turn is its own. A turn that is open when the row
goes back (`Back`) belongs to a run that failed before it could close it (`Turned`).

`NothingForgottenInTime` (`NothingForgotten`) is about the same scenes, with pages of any
size: a record behind the page is one of the named losses (§6), and `ReadAll` says that a
read misses nothing else. It is far from inductive, since it says nothing while somebody
holds the row. `TInv` says who minds an unread record (`Minded`): the row or a wake on its
way to a run (`Told`); a run that will look again (`Carried`); the answer of a paused session
that no run is about to leave (`Asking`); or the clock, when the holder is dead and has
not given the row back (`Abandoned`). A run looks again (`Carries`) if it stands before
a read, if its wake is raised, if what it feeds is still on the bus of its object, which
tells it on being drained, or if all that is unread is in its hands (`Knows`); a run on
its way out with none of these has nothing unread behind it, or gives up by stopping,
which is one of the named losses. For that an object has to be kept up with
(`Tended`): each outstanding item is consumed, or being answered, or on the bus; an
idle object has an empty bus; an object is closed only with nothing going on in it.
Each action has its lemma (`FeedTends`, `WakesTends`, `FinishTends`, ...), most of them by
`ActorTends`, which says what a step of one run has to show.

**ToolBatchProofs**, the scheduler. `SchedulerTypeCorrect`, `SchedulerHasNoRace` (`NoRace`),
`NothingIsForgotten` (`QueuedIsBlocked`), `ConflictsKeepOrder` (`StartsInOrder`),
for any number of tasks and any declarations. `MeetingAccessesConflict` is the
lemma about `access.ts`: two accesses that reach a common file, one of them
writing, conflict; two prefixes of one path are prefixes of one another
(`PrefixesNest`) is all it needs of paths. The induction is `SchedulerInv`: what
runs agrees (`ActiveAgree`), what waits has an earlier conflicting task to wait
for (`QueuedIsBlocked`), and no waiting task has been overtaken
(`NotOvertaken`), without which neither the sweep nor an add preserves the
others.

The batch. `BatchImplementsScheduler`: each step of the batch, pauses,
aborts, resumes and crashes included, is a step of the scheduler or leaves it
alone. So `BatchHasNoRace`, `NoCallIsForgotten` and `CallsKeepOrder` hold of the
batch. Across rounds: `BatchTypeCorrect`, `CallsAreServedOnce` (`OnceEach`),
`HeldRoundsRunNothing` (`HeldBatchIsIdle`), `DoneAndRefusedStay`
(`DoneAndRefusedStaySo`). Their induction is `BatchInv`. That a settled call never
runs again needs that what was complete when a frame was published is on disk
(`SettledOK`), that a crash keeps the flushed prefix, and that a round prepares
only calls without a result (`RoundOK`); that a rejection is honoured needs that the
run's answers are what the user decided (`DecisionsOK`); that each state of an
interruption is resumed once, that no client's copy is newer than the store's
and those that were resumed are older (`CopiesOK`, `TakenOK`). The results of a
round are logged in the order of the calls: `Enumerated` is the lemma that a finite
set of numbers has one increasing enumeration. `AnswersReachTheirCalls`
(`SuspendedCallsAreServed`) holds whatever the policies say in each round. Its `ServedInv`
follows an accepted answer from the store through the frame to the call it is prepared for,
or to the pause that passes over it (`OwedOK`, `heldOver`), and says that a round with a
suspended call has no call left to ask about (`StoredOK`).

**BackgroundTasksProofs.** `TypeCorrect` and `NobodyIsLeftWaiting`
(`NobodyWaitsForTheEnded`). A task's end is decided in one step and its effects
come after a queued write; `WaitInv` follows the obligation through `chain` and
`ready`: whoever carries it is a task that has settled, and no wait is added to one
that has. `RecordsKeepTheirLedger` (`ImplementsLedger`) is the refinement: every step
of the managers, crashes and reopenings included, is a step of TaskLedger or leaves
its variables alone. What is on disk lags behind what a manager holds, so `LedgerInv`
speaks of the whole queue: the writes of a task that wait in `chain` lead, each by one
step of the ledger, from the record on disk to the manager's latest (`InLine`), a
record says delivered only when the conversation has the notice or the publisher's
mode trusts (`Knowing`), and a notice is under way only for a task whose record owes
it (`Noticed`). `Down` and `Apart` say that nothing of a process outlives it and that
a task of this process is no ghost. `NoticesStayInOrder`
(`NoticesAreInOrder`): along the queue of writes an end and a delivery are never taken
back (`Climbing`), and a notice is queued only once the end it tells of is recorded, or
by a second kill (`Entered`); one walk tells of each lost task (`Walking`), and `sent`
is bounded by what the manager has fired, mourned and resent (`Metered`).

**EventStreamProofs.** `NothingSlips` (`NothingSlipsThrough`). `StreamInv` says where
every event past the backfill is (`Covered`): had, dropped, owed, or in transit; that
what is in transit ascends from the watcher's hand over its queue to the wire
(`InOrder`) and lies below what is owed (`BelowOwed`); and that in memory nothing is
between a publish and its callback (`Direct`). So the event that is followed next has
nothing undelivered below it. `TheSeamIsInOrder` (`SeamIsInOrder`) needs the other
side: what a connection has delivered past its backfill lies below all that is in
transit or owed (`Passed`), so a first sight comes after all earlier ones and only what
the backfill covered can come twice.

**DiskLogProofs.** `TypeCorrect`, `CheckpointsHold` (`CheckpointReadIsSuffix`) and
`LogIsKept` (`LogSurvivesRestarts`), for whatever logs earlier processes left
(`ScenesAssumption`: in each the sequences ascend, no two shards share one, and an index
points to a complete checkpoint; the last write of any may be torn). `parseLogLines` is
written without recursion, each line at the place that is its rank, so that what it
computes can be proved for every length: `Ranked` and `Parsed` say that it lists the
lines in order, `SuffixParses` that a text which begins at a line gives the end of that
list.

An index may be behind its log, and after a rewrite it speaks of bytes that have moved.
`CInv` says why it is harmless all the same: nothing torn at its offset can be taken for
a checkpoint, and nothing comes to be, since the offset lies inside a file that only
grows (`Held`) — or the log is still old, and then nothing is appended before every
shard has been rewritten (`Phase`). That a rewrite leaves each index inside its shorter
file is where one store is needed (`Single`): it repoints what it has read, and nobody
writes in between. `LInv` is about one store: a sequence it draws is past every line of
every shard (`Sequences`), and an acknowledged record stays in a file; while the log is
old it is on a line of its own, because a rewrite copies lines and nothing else
(`Kept`).

**PeerMailProofs.** `NoMailIsLost` (`NothingIsLost`). `MailInv` adds that a message on
its way through `deliver`, a refused one included, is already accounted for (`Safe`), that
a settle `observe` started is for one the conversation holds, and that what an inbox call
has yet to settle it has read. What such a call took stays in hand until its result is
recorded, or is counted as cut short (`InboxKeepsMail`).

**WorkflowRunProofs.** `TypeCorrect`, `SlotsHold` (`SlotsAndBudgetHold`) and
`JournalHolds` (`JournalIsThePast`), for any scripts, caps, results, resumes, faults and
crashes. The hooks are functions of `mem`, so each has a lemma that says what it makes
of any process state (`AcquireIs`, `ReleaseIs`, `AgentIs`: refused, replayed or called),
and the steps only apply them. `WInv` counts the slots of every frame over the set of
items that hold one (`SlotsF`): the queue is those that wait, without repetition, they
wait only while all slots are taken, and what is spent plus the calls still running
stays below the budget plus the width, which is why a refusal is looked for again once
the slot is held. For the journal it says that every call has a key of its own length
(`Apart`), so a record that lands is never one another item was answered with, and what
was seen stays on record (`Seen`). The bounds are those of a frame; for the frames of a
run together they do not hold (§6).

That no call with a record is paid again is not inductive from there: it speaks of
prompts, the journal of keys, and a prompt may occur in keys of several orders.
`PInv` adds what the journal of a script that asks in one order looks like. In a
sequence it has one key of each length up to its longest, each made of the one
before it and of the value recorded under that (`Straight`): so the next key of a run
is on record if any key with that prompt is, and a call that missed is longer than all
there is, which keeps a late record in line (`LineAt`). In a fan-out every key lists
the items from the first on (`FanJournal`): the first stages are called in
the order of the items, and none is skipped before the cap is reached, for until
all have been called nothing is spent and nothing aborted (`Lined`).

**Only model-checked.** Liveness (`LeasesMoveOn`, all of `worker_live`, `QueuedIsTaken`,
`RunsEnd`, `BatchComesToAnEnd`, `EveryEndIsTold`, `EveryEventArrives`,
`EveryRunEnds`), since the prover has no rule for fairness and `ENABLED`. Every
invariant of the runs is stated by a theorem, some under a hypothesis the text above names
(heartbeats in time, one store on an old log). What is left of
them to the runs alone: `NothingForgotten` where leases lapse, in the `Overlaps` scene, and
`CheckpointReadIsSuffix` for an old log opened by several stores (`LegacyShared`): the
rewrites of two stores interleave, and which of the two indexes is left needs an invariant of
its own.

## 6. Where the code and its comments part

Two runs are expected to fail; `PROJECT.json` quotes the lines.

| run | what happens |
|---|---|
| `stream_found_idle` | after an idle tick the pending `next` of that round is abandoned but stays in the queue's list of waiters: the next event goes to it and is read by nobody. The comment at `session-service.ts:716` says it resolves in the following race |
| `disk_found_torn` | a line half written at a crash is tolerated by readers (`disk-store.ts:490`) and left in place: the next append continues it, the text then ends in a newline, and every full read of the shard throws |

Other disagreements were met while modelling. The property that says what a comment
promises stays in the module, with the instance that refutes it; to see one, put
the two in a configuration.

| module, property | instance | what happens |
|---|---|---|
| SessionWorker, `EmptyReadMeansEmptyInbox` | `Pages` | `readInbox` reads one page and filters it: a page full of the turn's own records hides the messages behind it, and the run gives the row back, quiet, with a message unread |
| SessionWorker, `WakeSurvivesRelease` | `Feeding` | a heartbeat takes the wake off the row and answers a run that has made its last pass; the release leaves the row quiet |
| SessionWorker, `SkippedWereTaken` | `Feeding` | a message that no turn took is skipped when the answer behind it is read |
| SessionWorker, `TakenOnce` | `Tasks` | the notice of a background task is taken from the bus and again from the inbox |
| SessionWorker, `CancelDiscardsQueued` | `Feeding` | after a cancel the end of the aborted run wakes the object, which takes what the cancel discarded |
| SessionRuns, `FlagAgreesWithStore`, `TurnsEnd` without `parted` | `Blocking` | a guardrail that trips in a resumed run leaves the interruption stored and the session saying it is idle: every prompt is refused, and a queued message starts refused runs without end. Likewise a resumed run that finishes and whose flush fails leaves the flag set and the store clear |
| SessionRuns, `HeldSessionsTakeNoRun` | `Holds` | `parkAtGate` checks the gate and its caller begins the run in a later microtask without looking again (`harness.ts:896-898`, `994-1000`, `1043-1044`): a hold set in between finds no run, is quiescent, and the run begins under it, where `harness.ts:868-871` says new runs are refused and `785` that the gate is checked again for such a hold. A close in the gap is passed likewise |
| SessionRuns, `DrainsKeepTheConversation` without `claimed` | `Claiming` | a hook that claims a failure of the tools sends the loop round with calls that have no results; the drain puts messages behind them |
| ToolBatch, `AnswerAlwaysDelivered` | `VerdictChanges` | the policies, asked again in the resumed round, want an approval for this call or another: the pause lists the approvals and no longer the answered call (`tool-call.ts:105-112`), and the next round runs the tool anew, without `resumed`. `tool/types.ts:42-43` says the answer is "Always delivered" |
| EventStream, `SeamHasNoDuplicates` | the instance of `stream_found_idle`, no idle tick | "Duplicates across the seam are removed by event id" (`session-service.ts:331`), but a live-only event queued ahead of the overlap clears `seen` (399-402), and what the backfill has read is yielded again |
| WorkflowRun, `BudgetHoldsForTheWorkflow`, `WidthHoldsForTheWorkflow` | `NestedOnly` | a nested `workflow()` is a `runWorkflow` of its own, with its own tally and semaphore (`runtime.ts:94-99`, `359-370`): three children spend three units of a budget of one, and run three agents at a width of two, against `prompt.ts:46` ("overshoot is bounded by concurrency") and 56 |
| PeerMail, `WhatWasLostIsOnTheLedger` | `RestartOnly` | the README of agents-peers (172-173) says an entry clears only when its message entered the conversation, "So whatever is still on the ledger after a restart is exactly what was lost". `drainInbox` settles what it read before its call returns (`network.ts:686-689`): a crash, an abort past the grace time or a settle that throws midway loses it; so does a delivery that a closing session or an ended frame turns away (`network.ts:633`), a redelivery among them |
| BackgroundTasks, `NoEndIsForgotten` | `Dying` | a crash between the write of the end and the write of the stamp: the end is never told, where `manager.ts:1236-1238` says it costs a duplicate settle only |
| BackgroundTasks, `NobodyIsStranded` | `Dying` | a task that ends while it is moved to the background is never settled |
| BackgroundTasks, `LostMeansGone` | `Closing` | a session reopened in the process that closed it calls a task lost that runs on |
| DiskLog, `NothingIsPassedOver` | `SharedOnly` | two stores on one directory number records from their own counters: the cursor passes one it has not read |
| WorkflowRun, `ReplayIsFree` | `Pipeline` | in a pipeline of several items the order of the second stages depends on timing: on a resume the chain of keys differs and calls with a result on record are paid again |

Where the code is known to part from what it promises, the properties of the passing
runs name the exception, so that they say that there is no other: `NothingForgotten` and
`AcceptedIsDealtWith` the four ways in which a message is left behind (`dropped`: a page
that ends before the inbox does, the late answer of a heartbeat, a worker that stops
between taking a row and processing its inbox, against `session-worker.ts:170-172`, and
a run that fails outside a turn); `OneDriverPerTurn` the turn of a dead holder whose
takeover failed in that way ("No turn was ever opened", `session-worker.ts:251`, is said
of the turn of the run that fails), which `TurnsAreClosed` is spared, because no scene
of `worker_live` has both a crash and a failing query; `CursorPassesOnlyDealtWith`
counts a message ahead of an answer as dealt with; `QuietMeansQuiet` the runs past the
gate when it fell (`slipped`); `FlagAgreesWithStore` and `TurnsEnd` the blocked resume
and the failed flush (`parted`); `DrainsKeepTheConversation` a claimed failure of the
tools (`claimed`); `AnswerIsDelivered` an answer passed over by a pause (`heldOver`);
`SlotsAndBudgetHold` is said of each frame; `SeamIsInOrder` says how far repeats go;
`TurnsEnd` the exits that leave a turn open in the event stream (`told = "left"`: an
abort while a live approver is asked, a failure in `pauseRun` or before a resumed
iteration, against `runner.ts:992-995`); `EveryEndIsTold` the three ways in which an end
stays untold (`Unstamped`, `ConfirmedUntold`, `Stranded`); `NothingSlipsThrough` and
`EveryEventArrives` the drops in `lost`; `AckedIsKept` the records glued to a torn line;
`PrefixIsReplayed` the scripts that ask in one order; `NothingIsLost` what is `dropped`
with its recipient, `refused` by its session or `cut` with an inbox call.

## 7. Abstractions and what is not modelled

- A message is the position of its record in the log; texts, models and tool
  results are left out. A verdict of the policies is any of allow, deny, ask, block
  (`prepareToolExecution` makes a result of the call, approved or not); it may be
  another one in each round.
- Draining the bus and journaling what was drained are one step in SessionWorker;
  stored appends are ordered by the store, as `context.ts` relies on.
- In ToolBatch the finalize hook is part of the step in which a tool settles. A
  tool given up after an abort is no longer counted as running by the scheduler,
  so `NoRace` does not speak of it: the code accepts that overlap.
- When a run fails, the decisions a live approver gave since the last pause are
  gone: `decided` falls back to what the store holds, which is all the code
  promises.
- The tree of child frames (`suspensions`) and nested calls (`dispatch`) are not
  part of the batch; handoffs and `stopTurn` are ways in which it ends in
  SessionRuns.
- In SessionRuns the flush, the stop of the capabilities, the release of the lock
  and the end of the run are one step (`Settles`): no call of the session can tell
  them apart. `close` waits for its runs; going on without one after the deadline
  is left out. What a hook, a model or a guardrail answers is nondeterministic.
- Paths are sequences of names; `.` and `..` are taken to be resolved by the tools
  before they declare a path.
- In SessionWorker queries fail while a run passes, reads or opens. Failures of the
  store inside `processInbox` (`session-worker.ts:427`, `433`, `302`) end in the same
  catch and are left out.
- `DrainsKeepTheConversation` says where drained messages land, not that none is
  dropped; `QueuedIsTaken` says that what is on the bus is taken.
- A worker that goes on with a turn after another process took its row is left to
  a model with two writers to one log; here only the same process overlaps itself.
- In BackgroundTasks completed, failed, paused and timed out are one status, record
  writes do not fail, and output windows, paging, revision numbers, the stall
  watchdog and the warning of `isStranded` are left out.
- In EventStream an append and its number become visible together, and one client
  watches one session. Stores over Postgres draw the number before they commit; a
  hazard in `PROJECT.json` says what may follow. A subscription that stops takes what
  is on the wire with it; in code the next listener may still see it, which the event
  ids sort out.
- In DiskLog a write is whole, short of its newline, or short of its record; a
  rename is atomic and an fsync holds. Blobs, forks and the catalogue are left out.
- In WorkflowRun an agent costs one unit and answers one of two values; the sandbox
  of the script, phases and logs are left out, and so is a resume of a run that
  still goes on. Loading the journal succeeds; a read that fails or stops short, which
  `journal.ts:189-191` swallows, makes a resume pay again for what it did not get.
- In PeerMail a conversation and a queue are sets, so that a message that comes twice
  is not told from one that comes once; who may write to whom is decided before.
  A settle that `observe` starts and a drain that was given up go on to their end or die
  with the process.
- Not modelled: front ends, providers, sandboxes, code mode, tracing, plugins,
  configuration, which are input and output or external programs, and the event
  projection, which is a fold. The Postgres and Redis stores, the store lock, MCP,
  cron, extensions, idempotency, metadata and the in-memory work table are postponed;
  `PROJECT.json` says so of each.

## 8. Plan

Done so far, in the order of what carries accepted work: the leases and the worker,
one session's runs, the tool batch, the event stream, the log on disk, background
tasks, workflows, peers. What is left:

1. **Interruption tree** (`interruption.ts`, `subagent-tools.ts`, nested dispatch):
   frames of children, answers routed by approval id, anchors; extends ToolBatch.
2. **SessionRuns**, the rest: the retry loop of a step, repair of calls without
   results after a crash, sub-agents' own loops, the deadline of `close`. That its turn
   implements the turn of SessionWorker.
3. **MemorySessionWork** (`work-memory.ts`), to implement LeaseGrants; the stores whose
   sequence is drawn before the commit, under SessionWorker's cursor and EventStream's
   backfill.
4. **McpConnection** (attempts that overlap), **SessionFrames** (attach and detach of
   frames, the store lease that keeps two nodes apart), **Idempotency** and
   **Metadata** (creation and crash), **Extensions** (start barrier, services),
   **Cron** (ticks across restarts), **Goal** and **Assembler**, **Permission** as a
   pure module against a reference.
5. **Proofs**: the index of an old log that two stores rewrite; `NothingForgotten` where
   leases lapse.

Abstract specifications worth stating besides LeaseGrants, the scheduler and
TaskLedger: an inbox that delivers each accepted message at most once per object and
in order, and a resource created once per key.
