-------------------------- MODULE BackgroundTasks --------------------------
(***************************************************************************)
(* The background tasks of one session: BackgroundManager                  *)
(* (agents-core/src/capabilities/background/manager.ts) with its tasks,    *)
(* its record store and the notice by which the model learns how a task    *)
(* ended.                                                                  *)
(*                                                                         *)
(* Tasks run, settle and are stopped in a process; what the process keeps  *)
(* is lost when it dies, the records and the conversation are not.  A      *)
(* record is written through one queue per manager (persistenceChain); the *)
(* code after an await of such a write is an action of its own.  Statuses  *)
(* completed, failed, paused and timed_out are treated alike everywhere    *)
(* and are one here, "ended".  The publisher's queue of appends is outbox: *)
(* in its immediate mode a message is announced before it is appended, in  *)
(* the committed mode after (events/publisher.ts).                         *)
(***************************************************************************)
EXTENDS Naturals, Sequences, FiniteSets

CONSTANTS
    Tasks,          \* ids of tasks, each used once
    Scenes,         \* what the environment does in a behaviour: how often,
                    \* with which tasks, and whether it attaches, stops, waits
    MaxRunningTasks

ASSUME CapAssumption == MaxRunningTasks \in Nat \ {0}
ASSUME ScenesAssumption ==
    \A s \in Scenes :
        /\ s.crashes \in Nat /\ s.closes \in Nat /\ s.prompts \in Nat
        /\ s.mode \in {"immediate", "committed"}
        /\ s.tasks \subseteq Tasks /\ s.may \subseteq {"attach", "stop", "wait"}

VARIABLES
    scene,     \* the bounds of this behaviour
    spent,     \* how many crashes, closes and prompts there have been
    up,        \* a process has the session open
    live,      \* entries of the manager's map `tasks`
    work,      \* what each task itself is doing
    aborted,   \* tasks whose AbortController has fired
    stopping,  \* tasks for which a stop() waits
    waiters,   \* tasks for which a wait() waits
    ghosts,    \* records loaded when the session was opened
    resent,    \* `redelivered`
    walk,      \* the walks of reconcile() over the ghosts: open's and a run's
    chain,     \* persistenceChain: writes that have not landed
    ready,     \* writes that have landed and whose continuation has not run
    bus,       \* notices queued on the SteerBus
    outbox,    \* notices on their way to the log
    run,       \* the run that drains the bus
    strays,    \* tasks of a closed session that run on in this process
    disk,      \* durable record of each task
    told,      \* notices of each task in the durable conversation
    born,      \* history: tasks ever started
    quieted,   \* history: tasks whose notice BackgroundStop has suppressed
    sent       \* history: notices queued in this process, per task

managerVars == <<live, work, aborted, stopping, waiters>>
ledgerVars == <<ghosts, resent, walk>>
storeVars == <<chain, ready, disk>>
talkVars == <<bus, outbox, run, told, sent>>
boundVars == <<scene, spent>>
vars == <<boundVars, up, managerVars, ledgerVars, storeVars, talkVars, strays,
          born, quieted>>

TERMINAL == {"ended", "killed", "lost"}
Statuses == {"none", "running"} \union TERMINAL
NoRecord == [st |-> "none", q |-> FALSE, n |-> FALSE]
NoEntry == [st |-> "none", q |-> FALSE, n |-> FALSE, fired |-> FALSE, quiet |-> FALSE]
NoWalk == [on |-> FALSE, todo |-> {}, at |-> {}]
Callers == {"open", "run"}
Records == [st : Statuses, q : BOOLEAN, n : BOOLEAN]
Doings == {"crashes", "closes", "prompts"}

TypeOK ==
    /\ scene \in Scenes /\ spent \in [Doings -> Nat]
    /\ up \in BOOLEAN
    /\ live \in [Tasks -> [st : Statuses \ {"lost"}, q : BOOLEAN, n : BOOLEAN,
                           fired : BOOLEAN, quiet : BOOLEAN]]
    /\ work \in [Tasks -> {"none", "attached", "draining", "returned", "starting",
                           "running", "over"}]
    /\ aborted \subseteq Tasks /\ stopping \subseteq Tasks /\ waiters \subseteq Tasks
    /\ ghosts \in [Tasks -> Records]
    /\ resent \subseteq Tasks
    /\ walk \in [Callers -> [on : BOOLEAN, todo : SUBSET Tasks, at : SUBSET Tasks]]
    /\ chain \in Seq([task : Tasks, rec : Records, then : {"start", "fire", "lost", "none"}])
    /\ ready \subseteq [task : Tasks, then : {"start", "fire", "lost"}]
    /\ bus \in Seq(Tasks) /\ outbox \in Seq(Tasks)
    /\ run \in {"idle", "reconciling", "draining"}
    /\ strays \in [Tasks -> {"none", "running", "settled", "landed", "gone"}]
    /\ disk \in [Tasks -> Records]
    /\ told \in [Tasks -> Nat] /\ sent \in [Tasks -> Nat]
    /\ born \subseteq Tasks /\ quieted \subseteq Tasks

---------------------------------------------------------------------------
(* What several operations share.                                          *)

Each(x) == [t \in Tasks |-> x]

Init ==
    /\ scene \in Scenes
    /\ spent = [d \in Doings |-> 0]
    /\ up = TRUE
    /\ live = Each(NoEntry) /\ work = Each("none")
    /\ aborted = {} /\ stopping = {} /\ waiters = {}
    /\ ghosts = Each(NoRecord) /\ resent = {}
    /\ walk = [c \in Callers |-> NoWalk]
    /\ chain = <<>> /\ ready = {}
    /\ bus = <<>> /\ outbox = <<>> /\ run = "idle"
    /\ strays = Each("none")
    /\ disk = Each(NoRecord) /\ told = Each(0) /\ sent = Each(0)
    /\ born = {} /\ quieted = {}

toPersisted(e) == [st |-> e.st, q |-> e.q, n |-> e.n]

\* A write is queued behind all earlier ones with the record as it is now.
Queued(t, rec, then) == Append(chain, [task |-> t, rec |-> rec, then |-> then])

Active == {t \in Tasks : live[t].st = "running"}

Adds(t, then) ==
    LET entry == [NoEntry EXCEPT !.st = "running"]
    IN  /\ live' = [live EXCEPT ![t] = entry]
        /\ chain' = Queued(t, toPersisted(entry), then)

---------------------------------------------------------------------------
(* Tasks.                                                                  *)

\* A task is recorded before its work starts.
registerTask(t) ==
    /\ up /\ t \in scene.tasks \ born
    /\ Cardinality(Active) < MaxRunningTasks
    /\ Adds(t, "start")
    /\ work' = [work EXCEPT ![t] = "starting"]
    /\ born' = born \union {t}
    /\ UNCHANGED <<boundVars, up, aborted, stopping, waiters, ledgerVars, ready, disk,
                   talkVars, strays, quieted>>

Starts(t) ==
    /\ [task |-> t, then |-> "start"] \in ready
    /\ ready' = ready \ {[task |-> t, then |-> "start"]}
    /\ work' = [work EXCEPT ![t] = "running"]
    /\ UNCHANGED <<boundVars, up, live, aborted, stopping, waiters, ledgerVars, chain, disk,
                   talkVars, strays, born, quieted>>

\* A command runs in front of the user, not yet in the manager's map.
runAttached(t) ==
    /\ "attach" \in scene.may
    /\ up /\ t \in scene.tasks \ born
    /\ work' = [work EXCEPT ![t] = "attached"]
    /\ born' = born \union {t}
    /\ UNCHANGED <<boundVars, up, live, aborted, stopping, waiters, ledgerVars, storeVars,
                   talkVars, strays, quieted>>

\* An interrupt of the turn or the command's timeout.
ForegroundKill(t) ==
    /\ work[t] = "attached" /\ t \notin aborted
    /\ aborted' = aborted \union {t}
    /\ UNCHANGED <<boundVars, up, live, work, stopping, waiters, ledgerVars, storeVars,
                   talkVars, strays, born, quieted>>

\* The command has ended; its settlement goes where the sink points now, and
\* the rest of its output is read before the foreground call gets it.
AttachedEnds(t) ==
    /\ work[t] = "attached"
    /\ work' = [work EXCEPT ![t] = "draining"]
    /\ UNCHANGED <<boundVars, up, live, aborted, stopping, waiters, ledgerVars, storeVars,
                   talkVars, strays, born, quieted>>

Drained(t) ==
    /\ work[t] = "draining"
    /\ work' = [work EXCEPT ![t] = IF live[t].st = "none" THEN "returned" ELSE "over"]
    /\ UNCHANGED <<boundVars, up, live, aborted, stopping, waiters, ledgerVars, storeVars,
                   talkVars, strays, born, quieted>>

\* "Move to background": the task enters the map whatever the cap, the
\* foreground call returns, and a settlement to come goes to the manager.
detach(t) ==
    /\ work[t] \in {"attached", "draining"} /\ live[t].st = "none"
    /\ Adds(t, "none")
    /\ work' = [work EXCEPT ![t] = IF @ = "attached" THEN "running" ELSE @]
    /\ UNCHANGED <<boundVars, up, aborted, stopping, waiters, ledgerVars, ready, disk,
                   talkVars, strays, born, quieted>>

\* The effects of the end of a task: its notice, once, and the waiters.
fireTerminalEffects(t) ==
    LET entry == [live[t] EXCEPT !.fired = TRUE, !.q = @ \/ ~live[t].quiet]
    IN  IF live[t].fired THEN UNCHANGED <<live, bus, sent, chain>>
        ELSE /\ live' = [live EXCEPT ![t] = entry]
             /\ IF live[t].quiet THEN UNCHANGED <<bus, sent, chain>>
                ELSE /\ bus' = Append(bus, t)
                     /\ sent' = [sent EXCEPT ![t] = @ + 1]
                     /\ chain' = Queued(t, toPersisted(entry), "none")

\* Mutant: the effects do not wait for the write.
BugSettleTaskFiresFirst(t, status) ==
    LET entry == [live[t] EXCEPT !.st = status, !.fired = TRUE, !.q = TRUE]
    IN  IF live[t].st # "running" THEN UNCHANGED <<live, bus, sent, chain, waiters>>
        ELSE /\ live' = [live EXCEPT ![t] = entry]
             /\ chain' = Queued(t, toPersisted(entry), "none")
             /\ bus' = Append(bus, t)
             /\ sent' = [sent EXCEPT ![t] = @ + 1]
             /\ waiters' = waiters \ {t}

\* A second "killed" of a killed task fires its effects without waiting for
\* the write of the first; any other settlement of a settled task is ignored.
settleTask(t, status) ==
    IF live[t].st = "running"
    THEN LET entry == [live[t] EXCEPT !.st = status]
         IN  /\ live' = [live EXCEPT ![t] = entry]
             /\ chain' = Queued(t, toPersisted(entry), "fire")
             /\ UNCHANGED <<bus, sent, waiters>>
    ELSE IF live[t].st = "killed" /\ status = "killed"
    THEN fireTerminalEffects(t) /\ waiters' = waiters \ {t}
    ELSE UNCHANGED <<live, bus, sent, chain, waiters>>

\* The work itself ends: by itself, at its timeout or because of an abort.
TaskEnds(t) ==
    /\ work[t] = "running"
    /\ work' = [work EXCEPT ![t] = "over"]
    /\ \E status \in {"ended", "killed"} : settleTask(t, status)
    /\ UNCHANGED <<boundVars, up, aborted, stopping, ledgerVars, ready, disk, outbox, run,
                   told, strays, born, quieted>>

Fires(t) ==
    /\ [task |-> t, then |-> "fire"] \in ready
    /\ ready' = ready \ {[task |-> t, then |-> "fire"]}
    /\ fireTerminalEffects(t)
    /\ waiters' = waiters \ {t}
    /\ UNCHANGED <<boundVars, up, work, aborted, stopping, ledgerVars, disk, outbox, run,
                   told, strays, born, quieted>>

\* By the host, or by the tool BackgroundStop, which does not want to be told.
stop(t) ==
    /\ "stop" \in scene.may
    /\ live[t].st = "running" /\ t \notin stopping
    /\ \E quiet \in BOOLEAN :
        /\ live' = [live EXCEPT ![t].quiet = @ \/ quiet]
        /\ quieted' = IF quiet THEN quieted \union {t} ELSE quieted
    /\ aborted' = aborted \union {t}
    /\ stopping' = stopping \union {t}
    /\ UNCHANGED <<boundVars, up, work, waiters, ledgerVars, storeVars, talkVars, strays, born>>

\* The task's lifecycle is over, or the five seconds are.
StopReturns(t) ==
    /\ t \in stopping
    /\ stopping' = stopping \ {t}
    /\ IF live[t].st = "running" THEN settleTask(t, "killed")
       ELSE UNCHANGED <<live, bus, sent, chain, waiters>>
    /\ UNCHANGED <<boundVars, up, work, aborted, ledgerVars, ready, disk, outbox, run, told,
                   strays, born, quieted>>

\* Mutant: the status is not looked at before the waiter is pushed.
BugWaitUnchecked(t) ==
    /\ live[t].st # "none" /\ t \notin waiters /\ "wait" \in scene.may
    /\ waiters' = waiters \union {t}
    /\ UNCHANGED <<boundVars, up, live, work, aborted, stopping, ledgerVars, storeVars,
                   talkVars, strays, born, quieted>>

wait(t) ==
    /\ "wait" \in scene.may
    /\ live[t].st = "running" /\ t \notin waiters
    /\ waiters' = waiters \union {t}
    /\ UNCHANGED <<boundVars, up, live, work, aborted, stopping, ledgerVars, storeVars,
                   talkVars, strays, born, quieted>>

WaitGivesUp(t) ==
    /\ t \in waiters
    /\ waiters' = waiters \ {t}
    /\ UNCHANGED <<boundVars, up, live, work, aborted, stopping, ledgerVars, storeVars,
                   talkVars, strays, born, quieted>>

---------------------------------------------------------------------------
(* Records and notices.                                                    *)

\* Mutant: writes are not serialised, any of them may land first.
BugWriteTaskUnordered ==
    \E i \in DOMAIN chain :
        /\ disk' = [disk EXCEPT ![chain[i].task] = chain[i].rec]
        /\ ready' = IF chain[i].then = "none" THEN ready
                    ELSE ready \union {[task |-> chain[i].task, then |-> chain[i].then]}
        /\ chain' = SubSeq(chain, 1, i - 1) \o SubSeq(chain, i + 1, Len(chain))
        /\ UNCHANGED <<boundVars, up, managerVars, ledgerVars, talkVars, strays, born, quieted>>

writeTask ==
    /\ chain # <<>>
    /\ LET w == Head(chain)
       IN  /\ disk' = [disk EXCEPT ![w.task] = w.rec]
           /\ ready' = IF w.then = "none" THEN ready
                       ELSE ready \union {[task |-> w.task, then |-> w.then]}
    /\ chain' = Tail(chain)
    /\ UNCHANGED <<boundVars, up, managerVars, ledgerVars, talkVars, strays, born, quieted>>

\* The notice is in the conversation: the manager hears of it and closes the
\* ledger, for a task of its own or for a ghost, once.
stampNotified(t) ==
    IF live[t].st # "none"
    THEN /\ UNCHANGED ghosts
         /\ IF live[t].n THEN UNCHANGED <<live, chain>>
            ELSE /\ live' = [live EXCEPT ![t].n = TRUE]
                 /\ chain' = Queued(t, toPersisted([live[t] EXCEPT !.n = TRUE]), "none")
    ELSE /\ UNCHANGED live
         /\ IF ghosts[t].st = "none" \/ ghosts[t].n THEN UNCHANGED <<ghosts, chain>>
            ELSE /\ ghosts' = [ghosts EXCEPT ![t].n = TRUE]
                 /\ chain' = Queued(t, [ghosts[t] EXCEPT !.n = TRUE], "none")

\* A run starts because of a notice on the bus or a prompt.
RunBegins ==
    /\ up /\ run = "idle"
    /\ IF bus # <<>> THEN UNCHANGED spent
       ELSE /\ spent["prompts"] < scene.prompts
            /\ spent' = [spent EXCEPT !["prompts"] = @ + 1]
    /\ run' = "reconciling"
    /\ walk' = [walk EXCEPT !["run"] = [on |-> TRUE, at |-> {},
                                        todo |-> {t \in Tasks : ghosts[t].st # "none"}]]
    /\ UNCHANGED <<scene, up, managerVars, ghosts, resent, storeVars, bus, outbox, told, sent,
                   strays, born, quieted>>

\* At a turn boundary the run takes a notice into the conversation.
DrainNotice ==
    /\ run = "draining" /\ bus # <<>>
    /\ bus' = Tail(bus)
    /\ outbox' = Append(outbox, Head(bus))
    /\ IF scene.mode = "immediate" THEN stampNotified(Head(bus))
       ELSE UNCHANGED <<live, ghosts, chain>>
    /\ UNCHANGED <<boundVars, up, work, aborted, stopping, waiters, resent, walk, ready, disk,
                   run, told, sent, strays, born, quieted>>

RunEnds ==
    /\ run = "draining" /\ bus = <<>>
    /\ run' = "idle"
    /\ UNCHANGED <<boundVars, up, managerVars, ledgerVars, storeVars, bus, outbox, told, sent,
                   strays, born, quieted>>

AppendLands ==
    /\ outbox # <<>>
    /\ outbox' = Tail(outbox)
    /\ told' = [told EXCEPT ![Head(outbox)] = @ + 1]
    /\ IF scene.mode = "committed" THEN stampNotified(Head(outbox))
       ELSE UNCHANGED <<live, ghosts, chain>>
    /\ UNCHANGED <<boundVars, up, work, aborted, stopping, waiters, resent, walk, ready, disk,
                   bus, run, sent, strays, born, quieted>>

---------------------------------------------------------------------------
(* reconcile(), called when a session is reopened and when a run starts.   *)

\* A notice for a ghost is queued on the bus and the record says so.
Steers(t, ghost) ==
    LET owed == [ghost EXCEPT !.q = TRUE]
    IN  /\ ghosts' = [ghosts EXCEPT ![t] = owed]
        /\ bus' = Append(bus, t)
        /\ sent' = [sent EXCEPT ![t] = @ + 1]
        /\ chain' = Queued(t, owed, "none")

\* Mutants: what was resent is forgotten, what was confirmed is not looked at,
\* only lost tasks are looked at.
BugUnconfirmedForgets(t) == ghosts[t].q /\ ~ghosts[t].n
BugUnconfirmedConfirmed(t) == ghosts[t].q /\ t \notin resent
BugUnconfirmedLostOnly(t) ==
    ghosts[t].st = "lost" /\ ghosts[t].q /\ ~ghosts[t].n /\ t \notin resent

Unconfirmed(t) == ghosts[t].q /\ ~ghosts[t].n /\ t \notin resent

\* A record that is still running is of a task that died with its process.
ReconcileLost(c, t) ==
    /\ walk[c].at = {} /\ t \in walk[c].todo
    /\ ghosts[t].st = "running"
    /\ LET lost == [ghosts[t] EXCEPT !.st = "lost"]
       IN  /\ ghosts' = [ghosts EXCEPT ![t] = lost]
           /\ chain' = Queued(t, lost, "lost")
    /\ walk' = [walk EXCEPT ![c].at = {t}, ![c].todo = @ \ {t}]
    /\ UNCHANGED <<boundVars, up, managerVars, resent, ready, disk, talkVars, strays, born,
                   quieted>>

TellsLost(c, t) ==
    /\ walk[c].at = {t} /\ [task |-> t, then |-> "lost"] \in ready
    /\ ready' = ready \ {[task |-> t, then |-> "lost"]}
    /\ walk' = [walk EXCEPT ![c].at = {}]
    /\ Steers(t, ghosts[t])
    /\ UNCHANGED <<boundVars, up, managerVars, resent, disk, outbox, run, told, strays, born,
                   quieted>>

\* Settled records: a notice that was queued and never confirmed is sent
\* again, once in a process.
ReconcileSettled(c, t) ==
    /\ walk[c].at = {} /\ t \in walk[c].todo
    /\ ghosts[t].st \in TERMINAL
    /\ walk' = [walk EXCEPT ![c].todo = @ \ {t}]
    /\ IF Unconfirmed(t) THEN resent' = resent \union {t} /\ Steers(t, ghosts[t])
       ELSE UNCHANGED <<resent, ghosts, bus, sent, chain>>
    /\ UNCHANGED <<boundVars, up, managerVars, ready, disk, outbox, run, told, strays, born,
                   quieted>>

Reconciled(c) ==
    /\ walk[c].on /\ walk[c].at = {} /\ walk[c].todo = {}
    /\ walk' = [walk EXCEPT ![c] = NoWalk]
    /\ run' = IF c = "run" THEN "draining" ELSE run
    /\ UNCHANGED <<boundVars, up, managerVars, ghosts, resent, storeVars, bus, outbox, told,
                   sent, strays, born, quieted>>

---------------------------------------------------------------------------
(* Processes.                                                              *)

Clears ==
    /\ up' = FALSE
    /\ live' = Each(NoEntry) /\ work' = Each("none")
    /\ aborted' = {} /\ stopping' = {} /\ waiters' = {}
    /\ ghosts' = Each(NoRecord) /\ resent' = {}
    /\ walk' = [c \in Callers |-> NoWalk]
    /\ chain' = <<>> /\ ready' = {}
    /\ bus' = <<>> /\ outbox' = <<>> /\ run' = "idle" /\ sent' = Each(0)

crash ==
    /\ up /\ spent["crashes"] < scene.crashes
    /\ spent' = [spent EXCEPT !["crashes"] = @ + 1]
    /\ Clears
    /\ strays' = [t \in Tasks |-> IF strays[t] = "none" THEN "none" ELSE "gone"]
    /\ UNCHANGED <<scene, disk, told, born, quieted>>

\* The session object goes; its tasks are not stopped.
\* Bound: at a moment when nothing is on its way to the disk or the log.
closeSession ==
    /\ up /\ spent["closes"] < scene.closes
    /\ chain = <<>> /\ ready = {} /\ outbox = <<>> /\ run = "idle"
    /\ walk = [c \in Callers |-> NoWalk]
    /\ spent' = [spent EXCEPT !["closes"] = @ + 1]
    /\ strays' = [t \in Tasks |-> IF work[t] = "running" /\ live[t].st = "running"
                                  THEN "running" ELSE strays[t]]
    /\ Clears
    /\ UNCHANGED <<scene, disk, told, born, quieted>>

\* The old manager still writes: the end of the task, then that its notice
\* was queued, on a bus that no run drains any more.
StrayEnds(t) ==
    \/ /\ strays[t] = "running"
       /\ strays' = [strays EXCEPT ![t] = "settled"]
       /\ UNCHANGED disk
    \/ /\ strays[t] = "settled"
       /\ strays' = [strays EXCEPT ![t] = "landed"]
       /\ disk' = [disk EXCEPT ![t] = [st |-> "ended", q |-> FALSE, n |-> FALSE]]
    \/ /\ strays[t] = "landed"
       /\ strays' = [strays EXCEPT ![t] = "gone"]
       /\ disk' = [disk EXCEPT ![t] = [st |-> "ended", q |-> TRUE, n |-> FALSE]]

Strays(t) ==
    /\ StrayEnds(t)
    /\ UNCHANGED <<boundVars, up, managerVars, ledgerVars, chain, ready, talkVars, born, quieted>>

\* The session is opened: the records are loaded, then reconciled.
Reopen ==
    /\ ~up
    /\ up' = TRUE
    /\ ghosts' = disk
    /\ walk' = [walk EXCEPT !["open"] = [on |-> TRUE, at |-> {},
                                         todo |-> {t \in Tasks : disk[t].st # "none"}]]
    /\ UNCHANGED <<boundVars, managerVars, resent, storeVars, talkVars, strays, born, quieted>>

---------------------------------------------------------------------------
Reconciles(c) ==
    \/ Reconciled(c)
    \/ \E t \in Tasks : ReconcileLost(c, t) \/ TellsLost(c, t) \/ ReconcileSettled(c, t)

TaskSteps(t) ==
    \/ registerTask(t) \/ Starts(t)
    \/ runAttached(t) \/ ForegroundKill(t) \/ AttachedEnds(t) \/ Drained(t) \/ detach(t)
    \/ TaskEnds(t) \/ Fires(t)
    \/ stop(t) \/ StopReturns(t)
    \/ wait(t) \/ WaitGivesUp(t)
    \/ Strays(t)

Next ==
    \/ \E t \in Tasks : TaskSteps(t)
    \/ \E c \in Callers : Reconciles(c)
    \/ writeTask
    \/ RunBegins \/ DrainNotice \/ RunEnds \/ AppendLands
    \/ crash \/ closeSession \/ Reopen

Spec == Init /\ [][Next]_vars

\* What the process does by itself once begun.  A task may run for ever, and
\* nobody has to stop, detach or wait for it.
Fairness ==
    /\ \A t \in Tasks : WF_vars(Starts(t)) /\ WF_vars(Drained(t)) /\ WF_vars(Fires(t))
                        /\ WF_vars(StopReturns(t)) /\ WF_vars(Strays(t))
    /\ \A c \in Callers : WF_vars(Reconciles(c))
    /\ WF_vars(writeTask) /\ WF_vars(RunBegins) /\ WF_vars(DrainNotice) /\ WF_vars(RunEnds)
    /\ WF_vars(AppendLands) /\ WF_vars(Reopen)

FairSpec == Spec /\ Fairness

---------------------------------------------------------------------------
(* Properties.                                                             *)

\* The records, over all processes, keep what persist.ts:16-38 says of them:
\* one terminal status, never taken back by a slower write, a notice owed
\* only then, and confirmed only when the conversation has it.
Ledger == INSTANCE TaskLedger
    WITH trusting <- scene.mode = "immediate", shared <- {t \in Tasks : strays[t] # "none"}
ImplementsLedger == Ledger!Spec

\* Whoever hears that a task is over can read it in its record, or will as
\* soon as the writes before it have landed: the second of two kills does
\* not wait (manager.ts:1165-1186).
RecordedBeforeTold ==
    \A t \in Tasks : live[t].fired =>
        \/ disk[t].st = live[t].st
        \/ live[t].st = "killed" /\ \E i \in DOMAIN chain :
               chain[i].task = t /\ chain[i].rec.st = "killed"

\* One process queues one notice of a task, however it was stopped, settled
\* or reconciled; of a lost one a second, since `redelivered` does not count
\* the first (manager.ts:376-380, 451-478).
ToldOncePerProcess ==
    \A t \in Tasks : sent[t] <= IF ghosts[t].st = "lost" THEN 2 ELSE 1

\* No wait() is left behind by the end of its task: the check and the push
\* are one step, and the effects of the end come after both
\* (manager.ts:1128-1163, 1182-1190).
NobodyWaitsForTheEnded == \A t \in Tasks : live[t].fired => t \notin waiters

\* A notice that the store knows to be delivered is not sent again, by any
\* later process (persist.ts:28-30, manager.ts:469-475).
ConfirmedIsFinal ==
    \A t \in Tasks : sent'[t] > sent[t] => ~disk[t].n \/ strays[t] # "none"

\* A notice is sent when it can be looked up, and not again by the process that
\* sent it nor by a later one that knows it delivered.
NoticesAreInOrder ==
    [][RecordedBeforeTold' /\ ToldOncePerProcess' /\ ConfirmedIsFinal]_vars

\* What keeps a notice away for good, where the code is known to:
\* the process died between the write of the end and the write of the stamp,
Unstamped(t) ==
    ghosts[t].st \in TERMINAL /\ ~ghosts[t].q /\ \A c \in Callers : t \notin walk[c].at
\* the stamp of delivery landed and the message did not,
ConfirmedUntold(t) == ghosts[t].n /\ told[t] = 0
\* and the task ended while it was being moved to the background.
Stranded(t) == live[t].st = "running" /\ work[t] = "over"

\* The model learns how every recorded task ended, in this process or after
\* a crash in a later one, unless it asked not to (tools.ts:89,
\* manager.ts:412-420, persist.ts:22-36).
EveryEndIsTold ==
    \A t \in Tasks :
        (disk[t].st # "none" /\ work[t] \in {"over", "none"})
            ~> \/ told[t] > 0
               \/ t \in quieted \/ strays[t] # "none"
               \/ Unstamped(t) \/ ConfirmedUntold(t) \/ Stranded(t)

\* For what the code does not keep.
\* "A crash between the two only costs a duplicate settle" (manager.ts:1236-1238).
NoEndIsForgotten == \A t \in Tasks : Unstamped(t) => t \in quieted \/ told[t] > 0
\* "Every background task notifies on its own when it settles" (tools.ts:89).
NobodyIsStranded == \A t \in Tasks : ~Stranded(t)
\* "The process that spawned it exited" (manager.ts:446-447).
LostMeansGone == \A t \in Tasks : disk[t].st = "lost" => strays[t] # "running"
=============================================================================
