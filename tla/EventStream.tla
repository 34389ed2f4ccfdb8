----------------------------- MODULE EventStream -----------------------------
(***************************************************************************)
(* The event stream of a managed session: how what a worker writes down    *)
(* and says reaches a client that watches over HTTP.                       *)
(*                                                                         *)
(*   worker     the committed publisher (events/publisher.ts) appends a    *)
(*              record, then emits it; token deltas and warnings are only  *)
(*              emitted.  Each emitted event goes to the broadcaster.      *)
(*   broadcast  best effort: in memory it is a call, over Redis a PUBLISH  *)
(*              to whoever is subscribed at that moment (broadcast.ts).    *)
(*   watcher    watchEvents subscribes, reads the log from the client's    *)
(*              cursor (watchStore), then follows its EventQueue.          *)
(*   client     reconnects with the id of the last durable event it got    *)
(*              (http-server.ts stamps `id:' on those only).               *)
(*                                                                         *)
(* A durable event is its position in the log; every live-only event is    *)
(* Live.  `lost' is a history variable: the durable events the watcher     *)
(* cannot deliver any more, recorded where the code or the wire drops      *)
(* them.                                                                   *)
(***************************************************************************)
EXTENDS Integers, FiniteSets, Sequences

CONSTANTS
    Wires,         \* the broadcasters to run with: "memory", "redis"
    MaxLog,        \* records appended to the log
    MaxLive,       \* live-only events emitted
    PageSize,      \* records of a backfill page (256 in the code)
    Capacity,      \* events an EventQueue holds (1024 in the code)
    MaxIdle,       \* idle ticks of one connection
    MaxFaults      \* crashes of the worker, lost connections

ASSUME StreamAssumption ==
    /\ Wires \subseteq {"memory", "redis"} /\ Wires # {}
    /\ {MaxLog, MaxLive, MaxIdle, MaxFaults} \subseteq Nat
    /\ {PageSize, Capacity} \subseteq Nat \ {0}

Live == 0
Durable == 1 .. MaxLog

VARIABLES
    wireKind,      \* the broadcaster in use
    log,           \* how many records the log holds
    owed,          \* the appended record the publisher still has to emit, or 0
    lives,         \* live-only events emitted
    wire,          \* published and on its way (Redis only)
    sub,           \* the subscription: "no", "asked" (SUBSCRIBE under way), "on"
    phase,         \* the watcher: "off", "backfill", "live"
    resumed,       \* the position this connection resumed from
    cursor,        \* the position the backfill has yielded up to
    pageEnd,       \* the last position of the page being yielded
    short,         \* that page was not a full one
    seen,          \* watchEvents' `seen'
    items,         \* EventQueue.items
    hand,          \* an event a waiter was given and the loop has not handled
    waiting,       \* the loop races a `next' against the idle timer
    orphans,       \* waiters of races an idle tick has won
    idles,         \* idle ticks of this connection
    faults,        \* crashes and lost connections so far
    have,          \* durable events the client got, ever
    got,           \* durable events this connection delivered
    twice,         \* durable events this connection delivered again
    lastId,        \* the client's Last-Event-ID
    lost           \* durable events no delivery is coming for

pubVars == <<wireKind, log, owed, lives>>
netVars == <<wire, sub>>
readVars == <<phase, resumed, cursor, pageEnd, short>>
queueVars == <<items, hand, waiting, orphans>>
clientVars == <<have, got, twice, lastId>>
vars == <<pubVars, netVars, readVars, queueVars, seen, idles, faults, clientVars, lost>>

(***************************************************************************)
(* Beyond the backfill: the short page that ends it has been read, and e   *)
(* was not on it, so e can come only through the queue.                    *)
(***************************************************************************)
OnlyLive(e) == e # Live /\ phase # "off" /\ short /\ e > pageEnd

Losing(S) == lost' = lost \cup {e \in S : OnlyLive(e)}

Init ==
    /\ wireKind \in Wires
    /\ log = 0 /\ owed = 0 /\ lives = 0
    /\ wire = <<>> /\ sub = "no"
    /\ phase = "off" /\ resumed = 0 /\ cursor = 0 /\ pageEnd = 0 /\ short = FALSE
    /\ seen = {} /\ items = <<>> /\ hand = <<>> /\ waiting = FALSE /\ orphans = 0
    /\ idles = 0 /\ faults = 0
    /\ have = {} /\ got = {} /\ twice = {} /\ lastId = 0 /\ lost = {}

-----------------------------------------------------------------------------
(* The queue between the broadcaster's callback and the watcher's loop.    *)

(* Bug: a new event is put at the head of the queue. *)
BugPushJumpsTheQueue(e) ==
    \/ /\ orphans > 0
       /\ orphans' = orphans - 1
       /\ Losing({e})
       /\ UNCHANGED <<items, hand, waiting>>
    \/ /\ orphans = 0 /\ waiting
       /\ hand' = <<e>> /\ waiting' = FALSE
       /\ UNCHANGED <<items, orphans, lost>>
    \/ /\ orphans = 0 /\ ~waiting
       /\ items' = <<e>> \o (IF Len(items) >= Capacity THEN Tail(items) ELSE items)
       /\ Losing(IF Len(items) >= Capacity THEN {Head(items)} ELSE {})
       /\ UNCHANGED <<hand, waiting, orphans>>

(* Bug: a full queue refuses what comes. *)
BugPushDropsNewest(e) ==
    \/ /\ orphans > 0
       /\ orphans' = orphans - 1
       /\ Losing({e})
       /\ UNCHANGED <<items, hand, waiting>>
    \/ /\ orphans = 0 /\ waiting
       /\ hand' = <<e>> /\ waiting' = FALSE
       /\ UNCHANGED <<items, orphans, lost>>
    \/ /\ orphans = 0 /\ ~waiting
       /\ items' = IF Len(items) >= Capacity THEN items ELSE Append(items, e)
       /\ UNCHANGED <<hand, waiting, orphans, lost>>

(***************************************************************************)
(* EventQueue.push: the first waiter gets the event - one left behind by   *)
(* an idle tick before the one the loop waits on - or it is buffered, the  *)
(* oldest making room.                                                     *)
(***************************************************************************)
push(e) ==
    \/ /\ orphans > 0
       /\ orphans' = orphans - 1
       /\ Losing({e})
       /\ UNCHANGED <<items, hand, waiting>>
    \/ /\ orphans = 0 /\ waiting
       /\ hand' = <<e>> /\ waiting' = FALSE
       /\ UNCHANGED <<items, orphans, lost>>
    \/ /\ orphans = 0 /\ ~waiting
       /\ items' = Append(IF Len(items) >= Capacity THEN Tail(items) ELSE items, e)
       /\ Losing(IF Len(items) >= Capacity THEN {Head(items)} ELSE {})
       /\ UNCHANGED <<hand, waiting, orphans>>

(***************************************************************************)
(* EventBroadcaster.publish.  In memory the subscribed callback runs in    *)
(* the call.  Redis passes the message on to the connections subscribed    *)
(* when it arrives, and to nobody else.                                    *)
(***************************************************************************)
publish(e) ==
    \/ /\ wireKind = "memory" /\ sub = "on"
       /\ push(e)
       /\ UNCHANGED wire
    \/ /\ wireKind = "redis" /\ sub = "on"
       /\ wire' = Append(wire, e)
       /\ UNCHANGED <<queueVars, lost>>
    \/ /\ sub # "on"
       /\ Losing(IF wireKind = "redis" THEN {e} ELSE {})
       /\ UNCHANGED <<wire, queueVars>>

-----------------------------------------------------------------------------
(* The worker.                                                             *)

(* SessionEventPublisher.appendRecord, committed: the store first.         *)
appendRecord ==
    /\ owed = 0 /\ log < MaxLog
    /\ log' = log + 1 /\ owed' = log + 1
    /\ UNCHANGED <<wireKind, lives, netVars, readVars, queueVars, seen, idles, faults, clientVars, lost>>

(* ... then, in the same turn of the publisher's queue, the event.         *)
emitCommitted ==
    /\ owed # 0
    /\ publish(owed)
    /\ owed' = 0
    /\ UNCHANGED <<wireKind, log, lives, sub, readVars, seen, idles, faults, clientVars>>

(* The worker dies between the two: the record stays, nobody says so.      *)
workerDies ==
    /\ owed # 0 /\ faults < MaxFaults
    /\ owed' = 0 /\ faults' = faults + 1
    /\ Losing({owed})
    /\ UNCHANGED <<wireKind, log, lives, netVars, readVars, queueVars, seen, idles, clientVars>>

(* A delta or a warning waits its turn in the same queue.                  *)
emit ==
    /\ owed = 0 /\ lives < MaxLive
    /\ lives' = lives + 1
    /\ publish(Live)
    /\ UNCHANGED <<wireKind, log, owed, sub, readVars, seen, idles, faults, clientVars>>

(***************************************************************************)
(* An input: the API process appends its steer.queued record through a     *)
(* store of its own, and requeue on the worker's bus emits nothing, so no  *)
(* process ever broadcasts it.                                             *)
(***************************************************************************)
acceptEvent ==
    /\ log < MaxLog
    /\ log' = log + 1
    /\ Losing({log + 1})
    /\ UNCHANGED <<wireKind, owed, lives, netVars, readVars, queueVars, seen, idles, faults, clientVars>>

-----------------------------------------------------------------------------
(* The broadcaster's wire.                                                 *)

(* SUBSCRIBE takes effect some time after subscribe() has returned.        *)
subscriptionLands ==
    /\ sub = "asked"
    /\ sub' = "on"
    /\ UNCHANGED <<pubVars, wire, readVars, queueVars, seen, idles, faults, clientVars, lost>>

messageArrives ==
    /\ wire # <<>> /\ sub # "no"
    /\ wire' = Tail(wire)
    /\ push(Head(wire))
    /\ UNCHANGED <<pubVars, sub, readVars, seen, idles, faults, clientVars>>

(* The subscriber's connection drops and is set up anew.                   *)
connectionDrops ==
    /\ wireKind = "redis" /\ sub = "on" /\ faults < MaxFaults
    /\ sub' = "asked" /\ wire' = <<>> /\ faults' = faults + 1
    /\ Losing({wire[i] : i \in 1 .. Len(wire)})
    /\ UNCHANGED <<pubVars, readVars, queueVars, seen, idles, clientVars>>

-----------------------------------------------------------------------------
(* The watcher.                                                            *)

(* yield: the frame is written; a durable one moves the client's cursor.   *)
Yielding(e) ==
    IF e = Live
    THEN UNCHANGED clientVars
    ELSE /\ have' = have \cup {e} /\ got' = got \cup {e}
         /\ twice' = IF e \in got THEN twice \cup {e} ELSE twice
         /\ lastId' = e

(* Bug: the stream starts at the end of the log. *)
BugWatchEventsFromNow ==
    /\ phase = "off"
    /\ phase' = "backfill"
    /\ sub' = IF wireKind = "redis" THEN "asked" ELSE "on"
    /\ resumed' = log /\ cursor' = log /\ pageEnd' = log /\ short' = FALSE
    /\ seen' = {} /\ got' = {} /\ twice' = {} /\ idles' = 0
    /\ items' = <<>> /\ hand' = <<>> /\ waiting' = FALSE /\ orphans' = 0
    /\ UNCHANGED <<pubVars, wire, faults, have, lastId, lost>>

(* Bug: the stream does not subscribe. *)
BugWatchEventsUnsubscribed ==
    /\ phase = "off"
    /\ phase' = "backfill"
    /\ sub' = "no"
    /\ resumed' = lastId /\ cursor' = lastId /\ pageEnd' = lastId /\ short' = FALSE
    /\ seen' = {} /\ got' = {} /\ twice' = {} /\ idles' = 0
    /\ items' = <<>> /\ hand' = <<>> /\ waiting' = FALSE /\ orphans' = 0
    /\ UNCHANGED <<pubVars, wire, faults, have, lastId, lost>>

(* watchEvents up to its first await: subscribe, then translate `after'.   *)
watchEvents ==
    /\ phase = "off"
    /\ phase' = "backfill"
    /\ sub' = IF wireKind = "redis" THEN "asked" ELSE "on"
    /\ resumed' = lastId /\ cursor' = lastId /\ pageEnd' = lastId /\ short' = FALSE
    /\ seen' = {} /\ got' = {} /\ twice' = {} /\ idles' = 0
    /\ items' = <<>> /\ hand' = <<>> /\ waiting' = FALSE /\ orphans' = 0
    /\ UNCHANGED <<pubVars, wire, faults, have, lastId, lost>>

(* Bug: the backfill stops after one page. *)
BugReadRecordPageOnce ==
    /\ phase = "backfill" /\ cursor = pageEnd /\ ~short
    /\ pageEnd' = IF cursor + PageSize <= log THEN cursor + PageSize ELSE log
    /\ short' = TRUE
    /\ UNCHANGED <<pubVars, netVars, phase, resumed, cursor, queueVars, seen, idles, faults, clientVars, lost>>

(* watchStore, untilCaughtUp: the next page; one that is not full is last. *)
readRecordPage ==
    /\ phase = "backfill" /\ cursor = pageEnd /\ ~short
    /\ pageEnd' = IF cursor + PageSize <= log THEN cursor + PageSize ELSE log
    /\ short' = (cursor + PageSize > log)
    /\ UNCHANGED <<pubVars, netVars, phase, resumed, cursor, queueVars, seen, idles, faults, clientVars, lost>>

watchStore ==
    /\ phase = "backfill" /\ cursor < pageEnd
    /\ cursor' = cursor + 1
    /\ seen' = seen \cup {cursor + 1}
    /\ Yielding(cursor + 1)
    /\ UNCHANGED <<pubVars, netVars, phase, resumed, pageEnd, short, queueVars, idles, faults, lost>>

handOver ==
    /\ phase = "backfill" /\ cursor = pageEnd /\ short
    /\ phase' = "live"
    /\ UNCHANGED <<pubVars, netVars, resumed, cursor, pageEnd, short, queueVars, seen, idles, faults, clientVars, lost>>

(* Bug: the overlap with the backfill is not looked for. *)
BugFollowUnchecked(e) == UNCHANGED seen /\ Yielding(e)

(***************************************************************************)
(* The loop's body for an event: one the backfill has yielded is skipped;  *)
(* the first that is not forgets what the backfill has yielded.            *)
(***************************************************************************)
Follow(e) ==
    IF seen # {} /\ e \in seen
    THEN UNCHANGED <<seen, clientVars>>
    ELSE seen' = {} /\ Yielding(e)

(* withIdleTicks' next(): a buffered event, or a waiter that races.        *)
next ==
    /\ phase = "live" /\ ~waiting
    /\ \/ /\ hand # <<>>
          /\ hand' = Tail(hand) /\ Follow(Head(hand))
          /\ UNCHANGED <<items, waiting>>
       \/ /\ hand = <<>> /\ items # <<>>
          /\ items' = Tail(items) /\ Follow(Head(items))
          /\ UNCHANGED <<hand, waiting>>
       \/ /\ hand = <<>> /\ items = <<>>
          /\ waiting' = TRUE
          /\ UNCHANGED <<items, hand, seen, clientVars>>
    /\ UNCHANGED <<pubVars, netVars, readVars, orphans, idles, faults, lost>>

(* Nothing came for stallCheckMs: IDLE wins, and its `next' stays behind.  *)
idleTick ==
    /\ waiting /\ idles < MaxIdle
    /\ waiting' = FALSE /\ orphans' = orphans + 1 /\ idles' = idles + 1
    /\ UNCHANGED <<pubVars, netVars, readVars, items, hand, seen, faults, clientVars, lost>>

(* The client goes away, or its transport's buffer is full: abort.         *)
stopSubscription ==
    /\ phase # "off" /\ faults < MaxFaults
    /\ phase' = "off" /\ sub' = "no" /\ wire' = <<>> /\ faults' = faults + 1
    /\ items' = <<>> /\ hand' = <<>> /\ waiting' = FALSE /\ orphans' = 0
    /\ UNCHANGED <<pubVars, resumed, cursor, pageEnd, short, seen, idles, clientVars, lost>>

-----------------------------------------------------------------------------
Worker == appendRecord \/ emitCommitted \/ emit
Network == subscriptionLands \/ messageArrives
Watcher == readRecordPage \/ watchStore \/ handOver \/ next
Faults == workerDies \/ connectionDrops \/ idleTick \/ stopSubscription

Next == Worker \/ acceptEvent \/ Network \/ watchEvents \/ Watcher \/ Faults

Spec == Init /\ [][Next]_vars

(***************************************************************************)
(* What is under way goes on: the publisher's queue, the wire, the         *)
(* watcher's loop; and the client reconnects, as EventSource and the       *)
(* managed client do.  No fairness of faults, nor of new events.           *)
(***************************************************************************)
FairSpec ==
    /\ Spec
    /\ WF_vars(emitCommitted) /\ WF_vars(subscriptionLands) /\ WF_vars(messageArrives)
    /\ WF_vars(watchEvents) /\ WF_vars(Watcher)

-----------------------------------------------------------------------------
(* Properties.                                                             *)

Ascending(s) ==
    \A i, j \in 1 .. Len(s) : i < j /\ s[i] # Live /\ s[j] # Live => s[i] < s[j]

(***************************************************************************)
(* Types, and what the order of append and emit makes of the buffers:      *)
(* durable events wait in log order, the backfill behind the log, and      *)
(* nothing waits in a queue whose loop is waiting for it.                  *)
(***************************************************************************)
StreamTypeOK ==
    /\ wireKind \in Wires
    /\ log \in 0 .. MaxLog /\ owed \in 0 .. log /\ lives \in 0 .. MaxLive
    /\ sub \in {"no", "asked", "on"} /\ phase \in {"off", "backfill", "live"}
    /\ resumed <= cursor /\ cursor <= pageEnd /\ pageEnd <= log /\ short \in BOOLEAN
    /\ seen \subseteq 1 .. log /\ have \subseteq 1 .. log
    /\ got \subseteq have /\ twice \subseteq got /\ lastId \in have \cup {0}
    /\ Len(items) <= Capacity /\ Len(hand) <= 1
    /\ waiting => hand = <<>> /\ items = <<>> /\ phase = "live"
    /\ Ascending(hand \o items \o wire)

(***************************************************************************)
(* A client that resumes from the last id it got has every event up to     *)
(* that id, but those the code or the wire is known to drop: an event that *)
(* arrives while the log is read is neither missed nor passed over by the  *)
(* resume cursor (session-service.ts: reading first and subscribing after  *)
(* leaves "a window in which events land in neither").                     *)
(***************************************************************************)
NothingSlipsThrough == 1 .. lastId \subseteq have \cup lost

(***************************************************************************)
(* One connection delivers the durable events past its resume cursor in    *)
(* log order the first time it delivers them: backfill, overlap and live   *)
(* tail are one sequence (broadcast.ts: one channel carries all of it,     *)
(* because two would reorder).  Events from before the cursor are let      *)
(* through when their broadcast comes late: the cursor bounds the          *)
(* backfill, not the live side.                                            *)
(***************************************************************************)
FirstSightsAscend ==
    \A e \in got' \ got : got \subseteq got' /\ e > resumed => \A d \in got : d < e

(***************************************************************************)
(* How far repeats go.  An event is delivered a second time only once the  *)
(* overlap window has been closed by an event the backfill did not yield,  *)
(* and only events the backfill has read can come twice.  The comment at   *)
(* session-service.ts:331 claims more: see SeamHasNoDuplicates.            *)
(***************************************************************************)
TwiceOnlyPastTheWindow ==
    /\ twice # {} => seen = {} /\ phase # "backfill"
    /\ twice \subseteq 1 .. pageEnd

(***************************************************************************)
(* A watcher sees the log in order across the seam, and what comes a       *)
(* second time is overlap that was queued behind an event of the live side *)
(* alone (session-service.ts:396-403: that event clears `seen').           *)
(***************************************************************************)
SeamIsInOrder == [][FirstSightsAscend /\ TwiceOnlyPastTheWindow']_vars

(***************************************************************************)
(* session-service.ts:331: "Duplicates across the seam are removed by      *)
(* event id".  No durable event is delivered twice over one connection.    *)
(* The code does not keep this: the first live event that the backfill did *)
(* not yield clears `seen', also when overlap is still queued behind it.   *)
(***************************************************************************)
SeamHasNoDuplicates == twice = {}

(***************************************************************************)
(* Every record of the log reaches the client that keeps watching, unless  *)
(* one of the known drops takes it.                                        *)
(***************************************************************************)
EveryEventArrives ==
    \A e \in Durable : (log >= e) ~> (e \in have \cup lost)

(***************************************************************************)
(* EventQueue.withIdleTicks: "The pending `next` stays pending and         *)
(* resolves on the following loop's race."  So an idle tick costs no       *)
(* event: with a broadcaster that drops nothing, no crash and a queue that *)
(* never fills, only an unbroadcast input can be missed, and nothing else  *)
(* at all is appended by anybody here.                                     *)
(***************************************************************************)
IdleTicksLoseNothing ==
    [][orphans' < orphans /\ phase' = "live" => lost' = lost]_vars
=============================================================================
