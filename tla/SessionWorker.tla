--------------------------- MODULE SessionWorker ---------------------------
(***************************************************************************)
(* The execution half of the managed server: the API node that accepts     *)
(* into a session's log (session-service.ts), the inbox that is a read of  *)
(* that log (inbox.ts), the worker that claims a session, feeds its inbox  *)
(* to a session object and advances the cursor (session-worker.ts), and    *)
(* the session object as far as the worker can see it: a bus of queued     *)
(* messages, one run at a time, pauses, background tasks (harness.ts).     *)
(* Composed with the work table, whose variables and statements it uses.   *)
(*                                                                         *)
(* An action is what the code does between two awaits that matter: reading *)
(* the inbox, feeding what was read, settling, closing.  The session's     *)
(* run is a process of its own, and so are the API nodes, the heartbeats   *)
(* and the other workers.                                                  *)
(*                                                                         *)
(* A message's identity is the position of its record in the log.  A run   *)
(* drains the bus and journals what it drained; the two are one step here. *)
(***************************************************************************)
EXTENDS SessionWork, SequencesExt

CONSTANTS
    PageLimit,    \* records in one page of the log (128)
    ShortPage,    \* the same in scenes whose logs outgrow a page
    Concurrency,  \* runs the claim loop keeps going
    Scenes        \* what may happen, and how much of it: a behaviour has one

(* Each scene says which processes and lease objects there are, what the   *)
(* environment does, and bounds how often: takes of the row, messages,     *)
(* cancels and answers, other records a turn writes.                       *)
Happenings ==
    {"beat", "pause", "cancel", "task", "nudge", "stop", "lapse", "crash", "error", "short"}
Scene == [owners : SUBSET Owners, leases : SUBSET Leases, features : SUBSET Happenings,
          takes : Nat, inputs : Nat, controls : Nat, other : Nat]

ASSUME WorkerBounds ==
    PageLimit \in Nat \ {0} /\ ShortPage \in Nat \ {0} /\ Concurrency \in Nat \ {0}
ASSUME ScenesAssumption == Scenes \subseteq Scene

VARIABLES
    log,       \* per session: the records of its main frame
    cursor,    \* per session: where processing stopped (inbox:cursor)
    intr,      \* per session: an interruption state is persisted
    turnOpen,  \* per session: the last lifecycle record is turn.started
    pending,   \* per session: an API call between its state check and its append
    nudged,    \* sessions whose append has not nudged the local worker yet
    stopping,  \* worker processes whose stop() was called
    run,       \* per lease object: the worker's run under that lease
    obj,       \* per lease object: the session object that run opened
    dropped,   \* history, per session: how the wake of its row was last lost
    scene      \* the scene

vars == <<tableVars, log, cursor, intr, turnOpen, pending, nudged, stopping,
          run, obj, dropped>>
logVars == <<log, cursor, intr, turnOpen>>
apiVars == <<pending, nudged, stopping>>

InboxKinds == {"input", "cancel", "resume"}

(* An input's record is its steer.queued, "of" itself when it is journaled *)
(* by the session object and not by an API node; "taken" is the            *)
(* message.appended that carries its steerId; "other" is anything else a   *)
(* turn journals.                                                          *)
Record(k, p) == [kind |-> k, of |-> p]

NoRun == [pc |-> "none", wake |-> FALSE, listed |-> FALSE, looped |-> FALSE,
          behind |-> {}, seen |-> {}, out |-> <<>>, items |-> <<>>, cur |-> 0,
          resuming |-> FALSE, cancelled |-> FALSE, settled |-> FALSE]

NoObject == [state |-> "none", closing |-> FALSE, aborted |-> FALSE,
             again |-> FALSE, bus |-> <<>>, answering |-> 0, task |-> FALSE]

Init ==
    /\ TableInit
    /\ log = [s \in Sessions |-> <<>>]
    /\ cursor = [s \in Sessions |-> 0]
    /\ intr = [s \in Sessions |-> FALSE]
    /\ turnOpen = [s \in Sessions |-> FALSE]
    /\ pending = [s \in Sessions |-> "none"]
    /\ nudged = {}
    /\ stopping = {}
    /\ run = [h \in Leases |-> NoRun]
    /\ obj = [h \in Leases |-> NoObject]
    /\ dropped = [s \in Sessions |-> "no"]
    /\ scene \in Scenes

May(feature) == feature \in scene.features

Host(h) == lease[h].owner
Session(h) == lease[h].session
Halted(h) == lease[h].gone \/ Host(h) \in stopping
Running(h) == obj[h].state = "running"

(* processInbox is subscribed to the session's events.                     *)
Listening(h) == run[h].pc \in {"step", "feed", "sleep", "put", "hold", "cancel"}

Kind(s, p) == log[s][p].kind
Count(s, kinds) == Cardinality({p \in DOMAIN log[s] : Kind(s, p) \in kinds})

-----------------------------------------------------------------------------
(* Reading the inbox.                                                      *)

(* Positions of the log as they are read: the i-th of a set is the one     *)
(* that has i of them up to itself.                                        *)
InLogOrder(S) ==
    [i \in 1..Cardinality(S) |-> CHOOSE p \in S : Cardinality({q \in S : q <= p}) = i]

(* One page of a session's log after a position.                           *)
PageSize == IF May("short") THEN ShortPage ELSE PageLimit
PageAfter(s, from) == {p \in DOMAIN log[s] : from < p /\ p <= from + PageSize}

(* Bug: items already on the bus are handed out again.                     *)
BugReadInboxNoExclude(s, from, exclude) ==
    InLogOrder({p \in PageAfter(s, from) : Kind(s, p) \in InboxKinds})

(* Inbox records after a cursor, in log order: one page, less what is      *)
(* excluded.                                                               *)
readInbox(s, from, exclude) ==
    InLogOrder({p \in PageAfter(s, from) : Kind(s, p) \in InboxKinds /\ p \notin exclude})

LastCancel(s, items) == SelectLastInSeq(items, LAMBDA p : Kind(s, p) = "cancel")
FirstResume(s, items) == SelectInSeq(items, LAMBDA p : Kind(s, p) = "resume")

(* Bug: the cursor follows the last consumed item, whatever is before it.  *)
BugConsumedPrefix(out, seen) ==
    Max({0} \union {k \in DOMAIN out : out[k] \in seen})

(* How many of the outstanding items, from the first on, are consumed.     *)
ConsumedPrefix(out, seen) ==
    Max({0} \union {k \in DOMAIN out : \A i \in 1..k : out[i] \in seen})

(* The advance of processInbox: its effect on the run and on the cursor.   *)
Advanced(r) ==
    LET k == ConsumedPrefix(r.out, r.seen) IN
    [r EXCEPT !.out = SubSeq(@, k + 1, Len(@)),
              !.cur = IF k = 0 THEN @ ELSE r.out[k]]
Moved(h) == ConsumedPrefix(run[h].out, run[h].seen) > 0
CursorPut(h) ==
    cursor' = IF Moved(h) THEN [cursor EXCEPT ![Session(h)] = Advanced(run[h]).cur]
              ELSE cursor

-----------------------------------------------------------------------------
(* The session object.                                                     *)

(* Idle, open and not paused, with something queued: the idle wake starts  *)
(* a run whose prompt is the queue.                                        *)
Woken(x) ==
    IF x.state = "idle" /\ ~x.closing /\ x.bus # <<>>
    THEN [x EXCEPT !.state = "running", !.again = TRUE]
    ELSE x

(* endRun: the run is over, and whatever was queued during it wakes anew.  *)
EndedRun(x, state) == Woken([x EXCEPT !.state = state, !.aborted = FALSE, !.answering = 0])

Aborted(x) == [x EXCEPT !.aborted = x.state = "running"]

(* What the end of a run means to the worker: the resume it answered is    *)
(* settled, either way.                                                    *)
Settled(h) ==
    [run EXCEPT ![h].seen = IF Listening(h) /\ obj[h].answering # 0
                            THEN @ \union {obj[h].answering} ELSE @]

-----------------------------------------------------------------------------
(* The run in flight, as the worker and the log see it.                    *)

(* A boundary drains the bus: what was queued is in the conversation, and  *)
(* a subscribed worker hears it.  The two channels drain at different      *)
(* boundaries, so an item may overtake one of the other channel.           *)
TurnTakes(h) ==
    /\ Running(h) /\ ~obj[h].aborted
    /\ \E i \in DOMAIN obj[h].bus :
          LET p == obj[h].bus[i] IN
          /\ log' = [log EXCEPT ![Session(h)] = Append(@, Record("taken", p))]
          /\ obj' = [obj EXCEPT ![h].bus = RemoveAt(@, i)]
          /\ run' = IF Listening(h)
                    THEN [run EXCEPT ![h] = [@ EXCEPT !.seen = run[h].seen \union {p}, !.wake = TRUE]]
                    ELSE run
    /\ UNCHANGED <<tableVars, cursor, intr, turnOpen, apiVars, dropped>>

TurnWrites(h) ==
    /\ Running(h) /\ ~obj[h].aborted
    /\ Count(Session(h), {"other"}) < scene.other
    /\ log' = [log EXCEPT ![Session(h)] = Append(@, Record("other", 0))]
    /\ UNCHANGED <<tableVars, cursor, intr, turnOpen, apiVars, run, obj, dropped>>

(* The run returns "interrupted": its state is persisted, the facade       *)
(* refuses to start another.                                               *)
TurnPauses(h) ==
    /\ May("pause")
    /\ Running(h) /\ ~obj[h].aborted
    /\ intr' = [intr EXCEPT ![Session(h)] = TRUE]
    /\ turnOpen' = [turnOpen EXCEPT ![Session(h)] = FALSE]
    /\ obj' = [obj EXCEPT ![h] = EndedRun(@, "paused")]
    /\ run' = Settled(h)
    /\ UNCHANGED <<tableVars, log, cursor, apiVars, dropped>>

(* The run returns anything else, an abort included, or throws; a resumed  *)
(* run deletes the interruption state.                                     *)
TurnEnds(h) ==
    /\ Running(h)
    /\ obj' = [obj EXCEPT ![h] = EndedRun(@, "idle")]
    /\ turnOpen' = [turnOpen EXCEPT ![Session(h)] = obj'[h].state = "running"]
    /\ intr' = [intr EXCEPT ![Session(h)] = @ /\ obj[h].answering = 0]
    /\ run' = Settled(h)
    /\ UNCHANGED <<tableVars, log, cursor, apiVars, dropped>>

(* A resume that throws leaves the interruption state, to be tried again.  *)
ResumeThrows(h) ==
    /\ May("error") /\ faults < MaxFaults
    /\ Running(h) /\ obj[h].answering # 0
    /\ faults' = faults + 1
    /\ obj' = [obj EXCEPT ![h] = EndedRun(@, "paused")]
    /\ run' = Settled(h)
    /\ UNCHANGED <<row, lease, calls, logVars, apiVars, dropped>>

TaskSpawns(h) ==
    /\ May("task")
    /\ Running(h) /\ ~obj[h].task
    /\ Count(Session(h), {"input"}) < scene.inputs
    /\ obj' = [obj EXCEPT ![h].task = TRUE]
    /\ UNCHANGED <<tableVars, logVars, apiVars, run, dropped>>

(* A background task settles: its notice is journaled like any other       *)
(* message and queued on this object's bus.  No row is woken.              *)
TaskSettles(h) ==
    /\ obj[h].task /\ ~obj[h].closing
    /\ LET s == Session(h)
           x == Woken([obj[h] EXCEPT !.task = FALSE,
                                     !.bus = Append(@, Len(log[s]) + 1)])
       IN /\ log' = [log EXCEPT ![s] = Append(@, Record("input", Len(log[s]) + 1))]
          /\ obj' = [obj EXCEPT ![h] = x]
          /\ turnOpen' = [turnOpen EXCEPT ![s] = @ \/ obj[h].state # x.state]
    /\ run' = [run EXCEPT ![h].settled = Listening(h)]
    /\ UNCHANGED <<tableVars, cursor, intr, apiVars, dropped>>

-----------------------------------------------------------------------------
(* The API nodes.                                                          *)

(* acceptEvent refuses an input while the session is interrupted, and      *)
(* answerInterruption an answer while it is not; the state is read well    *)
(* before the record is appended.                                          *)
CheckState(s, kind) ==
    /\ pending[s] = "none"
    /\ \/ kind = "input" /\ ~intr[s] /\ Count(s, {"input"}) < scene.inputs
       \/ kind = "resume" /\ intr[s] /\ Count(s, {"cancel", "resume"}) < scene.controls
    /\ pending' = [pending EXCEPT ![s] = kind]
    /\ UNCHANGED <<tableVars, logVars, nudged, stopping, run, obj, dropped>>

(* The append and the wake are one transaction; the nudge follows.         *)
Accept(s, kind) ==
    /\ AppendRecord(s)
    /\ log' = [log EXCEPT ![s] = Append(@, Record(kind, 0))]
    /\ nudged' = IF May("nudge") THEN nudged \union {s} ELSE nudged
    /\ UNCHANGED <<cursor, intr, turnOpen, stopping, run, obj, dropped>>

AppendChecked(s) ==
    /\ pending[s] # "none"
    /\ pending' = [pending EXCEPT ![s] = "none"]
    /\ Accept(s, pending[s])

RequestCancel(s) ==
    /\ May("cancel")
    /\ Count(s, {"cancel", "resume"}) < scene.controls
    /\ Accept(s, "cancel")
    /\ UNCHANGED pending

-----------------------------------------------------------------------------
(* Claiming, nudging, heartbeats, stopping.                                *)

Listed(o, s) == {h \in Leases : run[h].listed /\ Host(h) = o /\ Session(h) = s}

(* The lease is granted; the answer is still on its way to run().          *)
Started(h, o, s, looped) ==
    /\ h \in scene.leases /\ o \in scene.owners /\ row[s].fence < scene.takes
    /\ run[h].pc = "none"
    /\ run' = [run EXCEPT ![h] = [NoRun EXCEPT !.pc = "start", !.looped = looped]]
    /\ dropped' = [dropped EXCEPT ![s] = "no"]

ClaimRun(h, o, s) ==
    /\ o \notin stopping
    /\ Cardinality({g \in Leases : run[g].looped /\ Host(g) = o}) < Concurrency
    /\ Claim(h, o, s)
    /\ Started(h, o, s, TRUE)
    /\ UNCHANGED <<logVars, apiVars, obj>>

(* drain: raise the wake of the run that is here, or take the lease.       *)
NudgeRaises(h) ==
    /\ run[h].listed /\ Session(h) \in nudged
    /\ nudged' = nudged \ {Session(h)}
    /\ run' = [run EXCEPT ![h].wake = TRUE]
    /\ UNCHANGED <<tableVars, logVars, pending, stopping, obj, dropped>>

NudgeTakes(h, o, s) ==
    /\ s \in nudged /\ Listed(o, s) = {}
    /\ nudged' = nudged \ {s}
    /\ Acquire(h, o, s)
    /\ Started(h, o, s, FALSE)
    /\ UNCHANGED <<logVars, pending, stopping, obj>>

(* No worker here, or another node holds the session: it costs nothing.    *)
NudgeLost(s) ==
    /\ s \in nudged
    /\ nudged' = nudged \ {s}
    /\ UNCHANGED <<tableVars, logVars, pending, stopping, run, obj, dropped>>

(* A run may well be over before its first heartbeat.                      *)
Heartbeat(h) ==
    /\ May("beat")
    /\ run[h].pc \notin {"none", "release"}
    /\ RenewSend(h)
    /\ UNCHANGED <<logVars, apiVars, run, obj, dropped>>

(* "woken" raises the run's wake, which a run past its last look at it     *)
(* will not take.                                                          *)
BeatAnswered(h, beat) ==
    /\ RenewAnswer(h, beat)
    /\ run' = [run EXCEPT ![h].wake = @ \/ beat = "woken"]
    /\ dropped' = IF beat = "woken" /\ run[h].pc \in {"finish", "release", "none"}
                  THEN [dropped EXCEPT ![Session(h)] = "late"] ELSE dropped
    /\ UNCHANGED <<logVars, apiVars, obj>>

(* A heartbeat or a release that failed is not noticed by anyone.          *)
CallFails(h) ==
    /\ May("error")
    /\ QueryFails(h)
    /\ dropped' = IF "woken" \in calls[h] \ calls'[h]
                  THEN [dropped EXCEPT ![Session(h)] = "error"] ELSE dropped
    /\ UNCHANGED <<logVars, apiVars, run, obj>>

(* stop(): no more claims, every run is woken to find itself halted, every *)
(* session object is closed and its run aborted.                           *)
Stop(o) ==
    /\ May("stop") /\ o \in scene.owners \ stopping
    /\ stopping' = stopping \union {o}
    /\ run' = [h \in Leases |-> IF run[h].listed /\ Host(h) = o
                                THEN [run[h] EXCEPT !.wake = TRUE] ELSE run[h]]
    /\ obj' = [h \in Leases |-> IF obj[h].state # "none" /\ Host(h) = o
                                THEN [Aborted(obj[h]) EXCEPT !.closing = TRUE] ELSE obj[h]]
    /\ UNCHANGED <<tableVars, logVars, pending, nudged, dropped>>

(* A worker process dies, with every run and session object in it.         *)
WorkerCrash(o) ==
    /\ May("crash")
    /\ Crash(o)
    /\ run' = [h \in Leases |-> IF Host(h) = o THEN NoRun ELSE run[h]]
    /\ obj' = [h \in Leases |-> IF Host(h) = o THEN NoObject ELSE obj[h]]
    /\ stopping' = stopping \ {o}
    /\ dropped' = [s \in Sessions |->
          IF \E h \in Leases : /\ Host(h) = o /\ Session(h) = s
                               /\ "woken" \in calls[h]
                               /\ run[h].pc \in {"release", "none"}
          THEN "late" ELSE dropped[s]]
    /\ UNCHANGED <<logVars, pending, nudged>>

(* Heartbeats keep up with the clock, unless holders may be that slow.     *)
InTime == May("lapse") \/ \A h \in Leases : lease[h].gone \/ lease[h].sure > 0

TableStep ==
    /\ \/ \E h \in Leases : RenewCommit(h) \/ ReleaseCommit(h)
       \/ InTime /\ Tick
    /\ UNCHANGED <<logVars, apiVars, run, obj, dropped>>

-----------------------------------------------------------------------------
(* The run: everything that happens under one lease.                       *)

Goto(h, pc) == run' = [run EXCEPT ![h].pc = pc]

(* Bug: the session's earlier run in this process is not waited for.       *)
BugEnterAtOnce(h) ==
    /\ run[h].pc = "start"
    /\ run' = [run EXCEPT ![h] = [@ EXCEPT !.pc = "pass", !.listed = TRUE]]
    /\ UNCHANGED <<tableVars, logVars, apiVars, obj, dropped>>

(* run(): with no run of this session listed in this process it lists      *)
(* itself; otherwise it first waits for the one that is.                   *)
Enter(h) ==
    LET before == Listed(Host(h), Session(h)) IN
    /\ run[h].pc = "start"
    /\ run' = [run EXCEPT ![h] =
         IF before = {} THEN [@ EXCEPT !.pc = "pass", !.listed = TRUE]
                        ELSE [@ EXCEPT !.pc = "wait", !.behind = before]]
    /\ UNCHANGED <<tableVars, logVars, apiVars, obj, dropped>>

(* Bug: the turn a dead holder left open is not closed.                    *)
BugPassKeepsTurn(h) ==
    /\ run[h].pc = "pass"
    /\ run' = [run EXCEPT ![h] = [@ EXCEPT !.pc = "read", !.wake = FALSE]]
    /\ UNCHANGED <<tableVars, logVars, apiVars, obj, dropped>>

(* Each pass forgets the wakes raised so far, and closes the turn a dead   *)
(* holder left open; one that is paused is left alone.                     *)
Pass(h) ==
    /\ run[h].pc = "pass"
    /\ run' = [run EXCEPT ![h] = [@ EXCEPT !.pc = "read", !.wake = FALSE]]
    /\ turnOpen' = [turnOpen EXCEPT ![Session(h)] = @ /\ intr[Session(h)]]
    /\ UNCHANGED <<tableVars, log, cursor, intr, apiVars, obj, dropped>>

Unread(h) == readInbox(Session(h), cursor[Session(h)], {})
OnlyCancels(h) == \A i \in DOMAIN Unread(h) : Kind(Session(h), Unread(h)[i]) = "cancel"

(* What a read of one page does not see: inbox records behind the page.    *)
(* The run takes what it got for all there is; dropped remembers that.     *)
Overlooks(s, from) ==
    \E p \in DOMAIN log[s] : from + PageSize < p /\ Kind(s, p) \in InboxKinds
PageRead(h, from) ==
    dropped' = IF ~Halted(h) /\ Overlooks(Session(h), from)
               THEN [dropped EXCEPT ![Session(h)] = "page"] ELSE dropped

ReadNothing(h) ==
    /\ run[h].pc = "read"
    /\ Halted(h) \/ Unread(h) = <<>>
    /\ Goto(h, "after")
    /\ PageRead(h, cursor[Session(h)])
    /\ UNCHANGED <<tableVars, logVars, apiVars, obj>>

(* Cancels with nothing ahead of them to cancel.                           *)
StepOverCancels(h) ==
    /\ run[h].pc = "read" /\ ~Halted(h)
    /\ Unread(h) # <<>> /\ OnlyCancels(h)
    /\ cursor' = [cursor EXCEPT ![Session(h)] = Last(Unread(h))]
    /\ UNCHANGED <<tableVars, log, intr, turnOpen, apiVars, run, obj, dropped>>

ReadWork(h) ==
    /\ run[h].pc = "read" /\ ~Halted(h)
    /\ Unread(h) # <<>> /\ ~OnlyCancels(h)
    /\ Goto(h, "open")
    /\ UNCHANGED <<tableVars, logVars, apiVars, obj, dropped>>

(* The object is built from what is durable: paused if an interruption is  *)
(* persisted, with an empty bus.                                           *)
Open(h) ==
    /\ run[h].pc = "open" /\ Host(h) \notin stopping
    /\ LET s == Session(h) IN
       /\ obj' = [obj EXCEPT ![h] =
                    [NoObject EXCEPT !.state = IF intr[s] THEN "paused" ELSE "idle"]]
       /\ run' = [run EXCEPT ![h] =
                    [@ EXCEPT !.pc = "step", !.seen = {}, !.out = <<>>, !.items = <<>>,
                              !.cur = cursor[s], !.resuming = FALSE,
                              !.cancelled = FALSE, !.settled = FALSE]]
       /\ turnOpen' = [turnOpen EXCEPT ![s] = @ /\ intr[s]]
    /\ UNCHANGED <<tableVars, log, cursor, intr, apiVars, dropped>>

(* The store is unreachable, the environment does not resolve, or the      *)
(* harness is closed: the run is over, and says so.                        *)
Fails(h) ==
    /\ \/ /\ run[h].pc = "open" /\ Host(h) \in stopping
          /\ UNCHANGED faults
       \/ /\ May("error") /\ faults < MaxFaults
          /\ run[h].pc \in {"pass", "read", "open"}
          /\ faults' = faults + 1
    /\ Goto(h, "finish")
    /\ dropped' = [dropped EXCEPT ![Session(h)] = "error"]
    /\ UNCHANGED <<row, lease, calls, logVars, apiVars, obj>>

(* The top of the feed loop: what is on the bus already is not read again. *)
Step(h) ==
    /\ run[h].pc = "step"
    /\ run' = [run EXCEPT ![h] =
         IF Halted(h) THEN [@ EXCEPT !.pc = "close"]
         ELSE [@ EXCEPT !.pc = "feed", !.wake = FALSE,
                        !.items = readInbox(Session(h), run[h].cur, ToSet(run[h].out))]]
    /\ PageRead(h, run[h].cur)
    /\ UNCHANGED <<tableVars, logVars, apiVars, obj>>

(* A cancel discards everything that precedes it: the run in flight, what  *)
(* is on the bus, and what was read with it.                               *)
FeedCancel(h) ==
    LET items == run[h].items
        c == LastCancel(Session(h), items) IN
    /\ run[h].pc = "feed" /\ c # 0
    /\ run' = [run EXCEPT ![h] =
         [@ EXCEPT !.pc = "cancel",
                   !.out = run[h].out \o SubSeq(items, 1, c),
                   !.seen = run[h].seen \union ToSet(run[h].out)
                               \union ToSet(SubSeq(items, 1, c))]]
    /\ obj' = [obj EXCEPT ![h] = [Aborted(@) EXCEPT !.again = FALSE]]
    /\ UNCHANGED <<tableVars, logVars, apiVars, dropped>>

AwaitsAnswer(h) == obj[h].state = "paused" /\ ~obj[h].closing /\ ~run[h].resuming

(* holdOpen up to its await: a run in flight is a reason to go around, a   *)
(* live background task one to wait.                                       *)
HoldOrClose(h) ==
    CASE Running(h) /\ ~Halted(h) -> "step"
      [] ~Running(h) /\ obj[h].task -> "hold"
      [] OTHER -> "close"

(* Bug: a paused session is waited for under its lease.                    *)
BugFeedPausedHolds(h) ==
    /\ run[h].pc = "feed" /\ LastCancel(Session(h), run[h].items) = 0
    /\ AwaitsAnswer(h) /\ FirstResume(Session(h), run[h].items) = 0
    /\ run' = [run EXCEPT ![h] = [@ EXCEPT !.pc = "hold", !.settled = FALSE]]
    /\ UNCHANGED <<tableVars, logVars, apiVars, obj, dropped>>

(* Paused, and the answer is not there: nothing is dispatched.             *)
FeedPaused(h) ==
    /\ run[h].pc = "feed" /\ LastCancel(Session(h), run[h].items) = 0
    /\ AwaitsAnswer(h) /\ FirstResume(Session(h), run[h].items) = 0
    /\ run' = [run EXCEPT ![h] = [@ EXCEPT !.pc = HoldOrClose(h), !.settled = FALSE]]
    /\ UNCHANGED <<tableVars, logVars, apiVars, obj, dropped>>

(* Requeue the inputs and start the resume.  What precedes the answer of a *)
(* paused session counts as taken.  A resume that finds a run in flight,   *)
(* or nothing paused, is refused, and counts as consumed too.              *)
Feed(h) ==
    LET s == Session(h)
        items == run[h].items
        r == IF AwaitsAnswer(h) THEN FirstResume(s, items) ELSE 1
        skipped == SubSeq(items, 1, r - 1)
        rest == SubSeq(items, r, Len(items))
        fed == IF Halted(h) THEN <<>> ELSE rest
        inputs == InLogOrder({p \in ToSet(fed) : Kind(s, p) = "input"})
        resumes == InLogOrder({p \in ToSet(fed) : Kind(s, p) = "resume"})
        starts == IF obj[h].state = "paused" /\ resumes # <<>> THEN Head(resumes) ELSE 0
        queued == [obj[h] EXCEPT !.bus = @ \o inputs]
        x == IF starts # 0 THEN [queued EXCEPT !.state = "running", !.answering = starts]
             ELSE Woken(queued)
    IN
    /\ run[h].pc = "feed" /\ LastCancel(s, items) = 0
    /\ r # 0
    /\ obj' = [obj EXCEPT ![h] = [x EXCEPT !.again = FALSE]]
    /\ turnOpen' = [turnOpen EXCEPT ![s] = @ \/ (obj[h].state = "idle" /\ x.state = "running")]
    /\ run' = [run EXCEPT ![h] =
         [@ EXCEPT !.pc = "sleep", !.items = rest,
                   !.out = run[h].out \o skipped \o fed,
                   !.seen = run[h].seen \union ToSet(skipped)
                               \union (ToSet(resumes) \ {starts}),
                   !.resuming = run[h].resuming \/ resumes # <<>>]]
    /\ UNCHANGED <<tableVars, log, cursor, intr, apiVars, dropped>>

(* whenIdle: the run there was at the time is over.                        *)
WasIdle(h) == ~Running(h) \/ obj[h].again

(* The race of whenIdle and the wake is decided; the cursor advances.      *)
(* Idle with nothing new, the loop ends if nothing holds the object open,  *)
(* which it looks at once the cursor is stored.                            *)
Wakes(h, settled) ==
    /\ run[h].pc = "sleep"
    /\ \/ settled = "idle" /\ WasIdle(h)
       \/ settled = "woken" /\ run[h].wake
    /\ LET idle == settled = "idle"
           done == idle /\ run[h].items = <<>>
       IN run' = [run EXCEPT ![h] =
            [Advanced(@) EXCEPT !.pc = IF ~done THEN "step"
                                       ELSE IF Moved(h) THEN "put"
                                       ELSE HoldOrClose(h),
                                !.resuming = run[h].resuming /\ ~idle,
                                !.settled = run[h].settled /\ ~done]]
    /\ CursorPut(h)
    /\ UNCHANGED <<tableVars, log, intr, turnOpen, apiVars, obj, dropped>>

CursorStored(h) ==
    /\ run[h].pc = "put"
    /\ run' = [run EXCEPT ![h] = [@ EXCEPT !.pc = HoldOrClose(h), !.settled = FALSE]]
    /\ UNCHANGED <<tableVars, logVars, apiVars, obj, dropped>>

(* A task settled, or something new arrived.                               *)
HoldEnds(h) ==
    /\ run[h].pc = "hold"
    /\ run[h].settled \/ run[h].wake
    /\ Goto(h, IF Halted(h) THEN "close" ELSE "step")
    /\ UNCHANGED <<tableVars, logVars, apiVars, obj, dropped>>

(* Bug: after a cancel the same object is fed on.                          *)
BugCancelKeepsObject(h) ==
    /\ run[h].pc = "cancel" /\ WasIdle(h)
    /\ run' = [run EXCEPT ![h] = [Advanced(@) EXCEPT !.pc = "step"]]
    /\ CursorPut(h)
    /\ UNCHANGED <<tableVars, log, intr, turnOpen, apiVars, obj, dropped>>

(* After a cancel the object is thrown away: its queues may still hold     *)
(* what was discarded.                                                     *)
CancelSettles(h) ==
    /\ run[h].pc = "cancel" /\ WasIdle(h)
    /\ run' = [run EXCEPT ![h] =
                  [Advanced(@) EXCEPT !.pc = "close", !.cancelled = TRUE]]
    /\ CursorPut(h)
    /\ UNCHANGED <<tableVars, log, intr, turnOpen, apiVars, obj, dropped>>

(* close: no more runs, the one in flight is aborted and waited for.       *)
Close(h) ==
    /\ run[h].pc = "close"
    /\ obj' = [obj EXCEPT ![h] = [Aborted(@) EXCEPT !.closing = TRUE]]
    /\ Goto(h, "closing")
    /\ UNCHANGED <<tableVars, logVars, apiVars, dropped>>

Closed(h) ==
    /\ run[h].pc = "closing" /\ ~Running(h)
    /\ obj' = [obj EXCEPT ![h] = NoObject]
    /\ Goto(h, IF run[h].cancelled THEN "read" ELSE "after")
    /\ UNCHANGED <<tableVars, logVars, apiVars, dropped>>

(* Bug: a wake that came during the pass is not looked at.                 *)
BugAfterFinishes(h) ==
    /\ run[h].pc = "after"
    /\ run' = [run EXCEPT ![h] = [@ EXCEPT !.wake = FALSE, !.pc = "finish"]]
    /\ UNCHANGED <<tableVars, logVars, apiVars, obj, dropped>>

(* A wake raised after the last read means go around.                      *)
After(h) ==
    /\ run[h].pc = "after"
    /\ run' = [run EXCEPT ![h] =
         [@ EXCEPT !.wake = FALSE,
                   !.pc = IF run[h].wake /\ ~Halted(h) THEN "pass" ELSE "finish"]]
    /\ UNCHANGED <<tableVars, logVars, apiVars, obj, dropped>>

(* The heartbeat stops, the run is delisted, the lease goes back.          *)
Finish(h) ==
    /\ run[h].pc = "finish"
    /\ run' = [run EXCEPT ![h] = [@ EXCEPT !.pc = "release", !.listed = FALSE]]
    /\ IF lease[h].gone THEN UNCHANGED tableVars ELSE ReleaseSend(h)
    /\ dropped' = IF Host(h) \in stopping
                  THEN [dropped EXCEPT ![Session(h)] = "stop"] ELSE dropped
    /\ UNCHANGED <<logVars, apiVars, obj>>

(* Bug: the promise that later runs of the session wait for is not settled *)
(* when the run had lost its lease.                                        *)
BugDoneKeepsWaiters(h) ==
    /\ run[h].pc = "release" /\ "release" \notin calls[h]
    /\ run' = [run EXCEPT ![h] = NoRun]
    /\ UNCHANGED <<tableVars, logVars, apiVars, obj, dropped>>

(* The run is over; runs that waited for it list themselves at once, each  *)
(* in place of whichever run is listed.                                    *)
Done(h) ==
    LET waiting == {g \in Leases : h \in run[g].behind}
        others == Listed(Host(h), Session(h)) IN
    /\ run[h].pc = "release" /\ "release" \notin calls[h]
    /\ \E last \in IF waiting = {} THEN {h} ELSE waiting :
          run' = [g \in Leases |->
             IF g = h THEN NoRun
             ELSE IF g \in waiting
             THEN [run[g] EXCEPT !.pc = "pass", !.behind = {}, !.listed = g = last]
             ELSE IF g \in others /\ waiting # {}
             THEN [run[g] EXCEPT !.listed = FALSE]
             ELSE run[g]]
    /\ UNCHANGED <<tableVars, logVars, apiVars, obj, dropped>>

-----------------------------------------------------------------------------
TurnStep(h) ==
    \/ TurnTakes(h) \/ TurnWrites(h) \/ TurnPauses(h) \/ TurnEnds(h)
    \/ ResumeThrows(h) \/ TaskSpawns(h) \/ TaskSettles(h)

RunStep(h) ==
    \/ Enter(h) \/ Pass(h) \/ ReadNothing(h) \/ StepOverCancels(h) \/ ReadWork(h)
    \/ Open(h) \/ Fails(h) \/ Step(h) \/ FeedCancel(h) \/ FeedPaused(h) \/ Feed(h)
    \/ (\E settled \in {"idle", "woken"} : Wakes(h, settled))
    \/ CursorStored(h) \/ HoldEnds(h) \/ CancelSettles(h) \/ Close(h) \/ Closed(h)
    \/ After(h) \/ Finish(h) \/ Done(h)

ServiceStep(s) ==
    \/ \E kind \in {"input", "resume"} : CheckState(s, kind)
    \/ AppendChecked(s)
    \/ RequestCancel(s)

Next ==
    \/ \E h \in Leases : TurnStep(h) \/ RunStep(h) \/ Heartbeat(h) \/ CallFails(h)
    \/ \E h \in Leases, beat \in Beats : BeatAnswered(h, beat)
    \/ \E s \in Sessions : ServiceStep(s) \/ NudgeLost(s)
    \/ \E h \in Leases, o \in Owners, s \in Sessions :
          ClaimRun(h, o, s) \/ NudgeTakes(h, o, s)
    \/ \E h \in Leases : NudgeRaises(h)
    \/ \E o \in Owners : Stop(o) \/ WorkerCrash(o)
    \/ TableStep

Spec == Init /\ [][Next /\ UNCHANGED scene]_<<vars, scene>>

(* Everything that is not the environment's whim goes on: workers run,     *)
(* statements commit, a turn drains its bus, and comes to an end.          *)
Fairness ==
    /\ \A h \in Leases :
          /\ WF_vars(RunStep(h))
          /\ WF_vars(TurnTakes(h))
          /\ WF_vars(TurnEnds(h))
          /\ WF_vars(TaskSettles(h))
          /\ WF_vars(RenewCommit(h) /\ TableStep)
          /\ WF_vars(ReleaseCommit(h) /\ TableStep)
          /\ \A beat \in Beats : WF_vars(BeatAnswered(h, beat))
          /\ WF_vars(Heartbeat(h))
    /\ \A s \in Sessions :
          /\ WF_vars(AppendChecked(s))
          /\ WF_vars(\E h \in Leases, o \in Owners : ClaimRun(h, o, s))
    /\ WF_vars(InTime /\ Tick /\ TableStep)

FairSpec == Spec /\ Fairness

-----------------------------------------------------------------------------
Places == {"none", "start", "wait", "pass", "read", "open", "step", "feed", "sleep",
           "put", "hold", "cancel", "close", "closing", "after", "finish", "release"}

TypeOK ==
    /\ TableTypeOK
    /\ \A s \in Sessions : \A p \in DOMAIN log[s] :
          /\ Kind(s, p) \in InboxKinds \union {"taken", "other"}
          /\ Kind(s, p) = "taken" => log[s][p].of \in 1..(p - 1)
    /\ \A s \in Sessions : cursor[s] \in 0..Len(log[s])
    /\ intr \in [Sessions -> BOOLEAN] /\ turnOpen \in [Sessions -> BOOLEAN]
    /\ pending \in [Sessions -> {"none", "input", "resume"}]
    /\ nudged \subseteq Sessions /\ stopping \subseteq Owners
    /\ \A h \in Leases :
          /\ run[h].pc \in Places
          /\ obj[h].state \in {"none", "idle", "running", "paused"}
          /\ (obj[h].state # "none") <=> (Listening(h) \/ run[h].pc \in {"close", "closing"})
          /\ run[h].pc # "none" => Session(h) \in Sessions
    /\ dropped \in [Sessions -> {"no", "late", "stop", "error", "page"}]

Taken(s, p) == \E t \in DOMAIN log[s] : log[s][t] = Record("taken", p)
Precedes(s, p, last, kind) == \E q \in (p + 1)..last : Kind(s, q) = kind
Discarded(s, p) == Precedes(s, p, cursor[s], "cancel")
Answered(s, p) == Precedes(s, p, Len(log[s]), "resume")

(* An accepted message the cursor has passed is in the conversation, or a  *)
(* cancel accepted after it was passed too, or it precedes an answer:      *)
(* crashes, takeovers and out-of-order draining never let the cursor jump  *)
(* an input nobody took.                                                   *)
CursorPassesOnlyDealtWith ==
    \A s \in Sessions : \A p \in 1..cursor[s] :
        Kind(s, p) = "input" =>
            Taken(s, p) \/ Discarded(s, p) \/ Answered(s, p)

UnreadInbox(s) == \E p \in (cursor[s] + 1)..Len(log[s]) : Kind(s, p) \in InboxKinds

Forgotten(s) == UnreadInbox(s) /\ ~row[s].woken /\ row[s].owner = NoOwner

(* Accepted work is always somebody's: its row is woken or held, or the    *)
(* session is waiting for an answer, or its wake is lost, or about to be,  *)
(* in one of the four ways the code has of losing one: answered to a run   *)
(* that had made its last pass, taken by a process that was stopping,      *)
(* taken by a run that failed outside a turn, or by one that read a page   *)
(* of the log that did not reach its last inbox record (inbox.ts:80).      *)
NothingForgotten ==
    \A s \in Sessions : Forgotten(s) =>
        \/ intr[s]
        \/ dropped[s] # "no"
        \/ \E h \in Leases : Session(h) = s /\ "woken" \in calls[h]

(* The message a step of h's run put into the conversation.                *)
TakenBy(h) ==
    IF Running(h) /\ Len(log'[Session(h)]) > Len(log[Session(h)])
    THEN {p \in DOMAIN log[Session(h)] :
             /\ Last(log'[Session(h)]) = Record("taken", p)
             /\ Len(obj'[h].bus) < Len(obj[h].bus)}
    ELSE {}

(* One session object, while it is fed, never puts an accepted message     *)
(* into its conversation twice, however often the inbox is read again.     *)
TakenOncePerObject ==
    [][\A h \in Leases : \A p \in TakenBy(h) :
          (Listening(h) /\ run[h].pc # "cancel" /\ log[Session(h)][p].of = 0)
             => p \notin run[h].seen]_vars

(* An accepted message enters the conversation at most once.               *)
TakenOnce ==
    \A s \in Sessions : \A t, u \in DOMAIN log[s] :
        log[s][t] = log[s][u] /\ Kind(s, t) = "taken" => t = u

(* A process never drives two session objects of one session at a time,    *)
(* though it may hold its row twice: the run that lost the lease is waited *)
(* for.                                                                    *)
OneObjectPerProcess ==
    \A g, h \in Leases :
        (/\ obj[g].state # "none" /\ obj[h].state # "none"
         /\ Session(g) = Session(h) /\ Host(g) = Host(h)) => g = h

(* A turn that the log shows as open has a run that will close it, or its  *)
(* row is one that a claim will take: no reader waits for a turn that      *)
(* nobody will ever end.  Except one: a dead holder's turn stays open when *)
(* the run that took over failed before it closed it; such a run gives the *)
(* row back unwoken.                                                       *)
OpenTurnIsSomebodys ==
    \A s \in Sessions : turnOpen[s] =>
        \/ \E h \in Leases : Session(h) = s /\ Running(h)
        \/ row[s].woken \/ row[s].owner # NoOwner
        \/ dropped[s] # "no"

(* An open turn has one driver in a process and is never left without one: *)
(* neither run twice side by side nor orphaned (session-worker.ts:233-283).*)
OneDriverPerTurn == OneObjectPerProcess /\ OpenTurnIsSomebodys

(* What a cancel discarded is never taken by a session object opened after *)
(* the worker stepped over that cancel.                                    *)
CancelledNeverReturns ==
    [][\A h \in Leases : \A p \in TakenBy(h) :
          Discarded(Session(h), p) => run[h].cancelled]_vars

(* An accepted message is taken, or discarded by a cancel, or waits for    *)
(* the answer of a pause or precedes one, or its wake is lost in one of    *)
(* the ways above.                                                         *)
MaxAccepted == 3
AcceptedIsDealtWith ==
    \A s \in Sessions : \A p \in 1..MaxAccepted :
        (p \in DOMAIN log[s] /\ Kind(s, p) = "input") ~>
            \/ Taken(s, p)
            \/ Precedes(s, p, Len(log[s]), "cancel")
            \/ intr[s] \/ Answered(s, p)
            \/ dropped[s] # "no"

(* A reader that waits for a turn learns that it is over, also when the    *)
(* worker that ran it is dead.                                             *)
TurnsAreClosed == \A s \in Sessions : turnOpen[s] ~> ~turnOpen[s]

(* No run keeps its session for ever: not waiting for an earlier run of it *)
(* in the same process, not asleep with nothing in flight, not going       *)
(* around its inbox, not after a failing query or open.                    *)
LeasesComeBack == \A h \in Leases : (run[h].pc # "none") ~> (run[h].pc = "none")

-----------------------------------------------------------------------------
(* What the comments of the code promise, and the code does not keep.      *)

(* inbox.ts: the inbox is every record after the cursor, impossible to     *)
(* lose.  So a read that finds nothing finds that there is nothing.        *)
EmptyReadMeansEmptyInbox ==
    \A h \in Leases :
        run[h].pc = "read" /\ Unread(h) = <<>> => ~UnreadInbox(Session(h))

(* work.ts on release: a wake that arrived meanwhile stays on the row.     *)
WakeSurvivesRelease ==
    \A s \in Sessions : Forgotten(s) => dropped[s] # "late"

(* processInbox: what is ahead of the answer is what the paused turn took. *)
SkippedWereTaken ==
    \A s \in Sessions : \A p \in 1..cursor[s] :
        Kind(s, p) = "input" => Taken(s, p) \/ Discarded(s, p)

(* processInbox: a cancel discards what is requeued but not yet taken.     *)
CancelDiscardsQueued ==
    [][\A h \in Leases : run[h].pc = "cancel" => TakenBy(h) = {}]_vars
=============================================================================
