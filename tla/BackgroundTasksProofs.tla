------------------------ MODULE BackgroundTasksProofs ------------------------
(***************************************************************************)
(* Type correctness of the background tasks, that no wait() is left behind *)
(* by the end of its task, that the records keep what TaskLedger promises  *)
(* of them, and that notices stay in order, for any tasks, scenes and cap. *)
(*                                                                         *)
(* NobodyWaitsForTheEnded alone is not inductive: the effects of an end    *)
(* come after a queued write, and a wait() may be pushed meanwhile.  The   *)
(* invariant follows the obligation to fire from the queue of writes to    *)
(* the continuation: whoever carries it is a task that has settled, to     *)
(* which no wait() is added any more.                                      *)
(*                                                                         *)
(* The refinement needs the whole queue of writes: the records of a task   *)
(* that wait in it lead, each from the one before, from the record on disk *)
(* to what the manager holds (InLine), so that whichever is written, it is *)
(* one that may follow what it replaces.                                   *)
(*                                                                         *)
(* The order of the notices needs in addition that along that line an end  *)
(* and a delivery are never taken back (Climbing), and how often a notice  *)
(* has been queued, by how far its ghost has come: one that a walk is just *)
(* recording as lost has been told of by nobody (TellInv).                 *)
(***************************************************************************)
EXTENDS BackgroundTasks, TLAPS

Entries == [st : Statuses \ {"lost"}, q : BOOLEAN, n : BOOLEAN, fired : BOOLEAN,
            quiet : BOOLEAN]
Thens == {"start", "fire", "lost", "none"}
Writes == [task : Tasks, rec : Records, then : Thens]

Foreground == {"attached", "draining"}
Settled == {t \in Tasks : live[t].st \notin {"none", "running"}}

\* The inductive invariant.
WaitInv ==
    /\ \A t \in Tasks : live[t].fired => t \in Settled /\ t \notin waiters
    /\ \A t \in Tasks : work[t] \in Foreground \/ live[t].st # "none" => t \in born
    /\ \A i \in 1..Len(chain) : chain[i].then = "fire" => chain[i].task \in Settled
    /\ \A t \in Tasks : [task |-> t, then |-> "fire"] \in ready => t \in Settled

(* An entry changes by fields that keep its type, and its record has the type
   of a record. *)
LEMMA EntryTypes ==
    ASSUME NEW e \in Entries, NEW st \in {"ended", "killed"}, NEW q \in BOOLEAN
    PROVE  /\ [e EXCEPT !.st = st] \in Entries
           /\ [e EXCEPT !.n = TRUE] \in Entries
           /\ [e EXCEPT !.fired = TRUE, !.q = q] \in Entries
           /\ [e EXCEPT !.quiet = q] \in Entries
           /\ toPersisted(e) \in Records
  BY DEF Entries, Statuses, TERMINAL, Records, toPersisted

(* The entry of a new task. *)
LEMMA NewEntryTypes ==
    /\ NoEntry \in Entries /\ [NoEntry EXCEPT !.st = "running"] \in Entries
    /\ NoRecord \in Records
  BY DEF NoEntry, NoRecord, Entries, Statuses, TERMINAL, Records

(* A ghost changes by fields that keep its type. *)
LEMMA RecordTypes ==
    ASSUME NEW r \in Records
    PROVE  /\ [r EXCEPT !.st = "lost"] \in Records
           /\ [r EXCEPT !.q = TRUE] \in Records
           /\ [r EXCEPT !.n = TRUE] \in Records
  BY DEF Records, Statuses, TERMINAL

(* What a queue of writes is after one more, and after its first has landed. *)
LEMMA QueueTypes ==
    ASSUME chain \in Seq(Writes), NEW t \in Tasks, NEW rec \in Records, NEW then \in Thens
    PROVE  /\ Queued(t, rec, then) \in Seq(Writes)
           /\ Len(Queued(t, rec, then)) = Len(chain) + 1
           /\ \A i \in 1..Len(chain) : Queued(t, rec, then)[i] = chain[i]
           /\ Queued(t, rec, then)[Len(chain) + 1] = [task |-> t, rec |-> rec, then |-> then]
  <1>1. [task |-> t, rec |-> rec, then |-> then] \in Writes
    BY DEF Writes
  <1>. QED
    BY <1>1 DEF Queued

---------------------------------------------------------------------------
(* Type correctness.                                                       *)

(* The parts of TypeOK, by what changes together. *)
ManagerTypes ==
    /\ live \in [Tasks -> Entries]
    /\ work \in [Tasks -> {"none", "attached", "draining", "returned", "starting",
                           "running", "over"}]
    /\ aborted \subseteq Tasks /\ stopping \subseteq Tasks /\ waiters \subseteq Tasks
Walks == [on : BOOLEAN, todo : SUBSET Tasks, at : SUBSET Tasks]
LedgerTypes ==
    /\ ghosts \in [Tasks -> Records]
    /\ resent \subseteq Tasks
    /\ walk \in [Callers -> Walks]
StoreTypes ==
    /\ chain \in Seq(Writes)
    /\ ready \subseteq [task : Tasks, then : {"start", "fire", "lost"}]
    /\ disk \in [Tasks -> Records]
TalkTypes ==
    /\ bus \in Seq(Tasks) /\ outbox \in Seq(Tasks)
    /\ run \in {"idle", "reconciling", "draining"}
    /\ told \in [Tasks -> Nat] /\ sent \in [Tasks -> Nat]
SessionTypes ==
    /\ scene \in Scenes /\ spent \in [Doings -> Nat]
    /\ up \in BOOLEAN
    /\ strays \in [Tasks -> {"none", "running", "settled", "landed", "gone"}]
    /\ born \subseteq Tasks /\ quieted \subseteq Tasks
Parts == ManagerTypes /\ LedgerTypes /\ StoreTypes /\ TalkTypes /\ SessionTypes

(* TypeOK is its parts. *)
LEMMA TypedParts == TypeOK <=> Parts
  BY DEF TypeOK, Parts, ManagerTypes, LedgerTypes, StoreTypes, TalkTypes, SessionTypes,
         Walks, Entries, Writes, Thens

(* A part whose variables stay keeps its types. *)
LEMMA PartsStay ==
    /\ ManagerTypes /\ UNCHANGED managerVars => ManagerTypes'
    /\ LedgerTypes /\ UNCHANGED ledgerVars => LedgerTypes'
    /\ StoreTypes /\ UNCHANGED storeVars => StoreTypes'
    /\ TalkTypes /\ UNCHANGED talkVars => TalkTypes'
  BY DEF ManagerTypes, LedgerTypes, StoreTypes, TalkTypes, managerVars, ledgerVars,
         storeVars, talkVars

(* The parts, after a step, are TypeOK after it. *)
LEMMA TypedAgain == Parts' => TypeOK'
  BY DEF TypeOK, Parts, ManagerTypes, LedgerTypes, StoreTypes, TalkTypes, SessionTypes,
         Walks, Entries, Writes, Thens

(* All is typed in the initial state. *)
LEMMA InitTypes == Init => TypeOK
  <1>. SUFFICES ASSUME Init PROVE TypeOK
    OBVIOUS
  <1>1. 0 \in Nat /\ <<>> \in Seq(Writes) /\ <<>> \in Seq(Tasks)
    OBVIOUS
  <1>2. NoWalk \in [on : BOOLEAN, todo : SUBSET Tasks, at : SUBSET Tasks]
    BY DEF NoWalk
  <1>. QED
    BY <1>1, <1>2, NewEntryTypes, TypedParts
    DEF Init, Each, Parts, ManagerTypes, LedgerTypes, StoreTypes, TalkTypes, SessionTypes, Walks

(* The effects of an end and a settlement keep the types of what they change. *)
LEMMA FireTypes ==
    ASSUME TypeOK, NEW t \in Tasks, fireTerminalEffects(t)
    PROVE  /\ live' \in [Tasks -> Entries]
           /\ bus' \in Seq(Tasks) /\ sent' \in [Tasks -> Nat] /\ chain' \in Seq(Writes)
  <1>. DEFINE entry == [live[t] EXCEPT !.fired = TRUE, !.q = @ \/ ~live[t].quiet]
  <1>1. /\ live \in [Tasks -> Entries] /\ live[t] \in Entries /\ bus \in Seq(Tasks)
        /\ sent \in [Tasks -> Nat] /\ chain \in Seq(Writes)
    BY TypedParts DEF Parts, ManagerTypes, LedgerTypes, StoreTypes, TalkTypes
  <1>2. (live[t].q \/ ~live[t].quiet) \in BOOLEAN
    OBVIOUS
  <1>3. entry \in Entries /\ toPersisted(entry) \in Records
    <2>1. entry \in Entries
      BY <1>1, <1>2, EntryTypes
    <2>. QED
      BY <2>1, EntryTypes
  <1>4. /\ live' = live \/ live' = [live EXCEPT ![t] = entry]
        /\ bus' = bus \/ bus' = Append(bus, t)
        /\ sent' = sent \/ sent' = [sent EXCEPT ![t] = @ + 1]
        /\ chain' = chain \/ chain' = Queued(t, toPersisted(entry), "none")
    BY DEF fireTerminalEffects
  <1>5. Queued(t, toPersisted(entry), "none") \in Seq(Writes)
    BY <1>1, <1>3, QueueTypes DEF Thens
  <1>. HIDE DEF entry
  <1>6. live' \in [Tasks -> Entries]
    BY <1>1, <1>3, <1>4
  <1>7. bus' \in Seq(Tasks)
    <2>1. bus \in Seq(Tasks) /\ (bus' = bus \/ bus' = Append(bus, t))
      BY <1>1, <1>4
    <2>2. Append(bus, t) \in Seq(Tasks)
      BY <2>1
    <2>. QED
      BY <2>1, <2>2
  <1>8. sent' \in [Tasks -> Nat]
    BY <1>1, <1>4
  <1>. QED
    BY <1>1, <1>4, <1>5, <1>6, <1>7, <1>8

(* A settlement keeps the types of what it changes. *)
LEMMA SettleTypes ==
    ASSUME TypeOK, NEW t \in Tasks, NEW status \in {"ended", "killed"}, settleTask(t, status)
    PROVE  /\ live' \in [Tasks -> Entries] /\ waiters' \subseteq Tasks
           /\ bus' \in Seq(Tasks) /\ sent' \in [Tasks -> Nat] /\ chain' \in Seq(Writes)
  <1>1. /\ live \in [Tasks -> Entries] /\ live[t] \in Entries /\ bus \in Seq(Tasks)
        /\ sent \in [Tasks -> Nat] /\ chain \in Seq(Writes) /\ waiters \subseteq Tasks
    BY TypedParts DEF Parts, ManagerTypes, LedgerTypes, StoreTypes, TalkTypes
  <1>2. CASE live[t].st = "running"
    <2>. DEFINE entry == [live[t] EXCEPT !.st = status]
    <2>1. entry \in Entries /\ toPersisted(entry) \in Records
      BY <1>1, EntryTypes
    <2>2. /\ live' = [live EXCEPT ![t] = entry]
          /\ chain' = Queued(t, toPersisted(entry), "fire")
          /\ bus' = bus /\ sent' = sent /\ waiters' = waiters
      BY <1>2 DEF settleTask
    <2>3. chain' \in Seq(Writes)
      BY <1>1, <2>1, <2>2, QueueTypes DEF Thens
    <2>. HIDE DEF entry
    <2>. QED
      BY <1>1, <2>1, <2>2, <2>3
  <1>3. CASE live[t].st # "running" /\ live[t].st = "killed" /\ status = "killed"
    BY <1>1, <1>3, FireTypes DEF settleTask
  <1>4. CASE live[t].st # "running" /\ ~(live[t].st = "killed" /\ status = "killed")
    BY <1>1, <1>4 DEF settleTask
  <1>. QED
    BY <1>2, <1>3, <1>4

(* So does the stamp of delivery, *)
LEMMA StampTypes ==
    ASSUME TypeOK, NEW t \in Tasks, stampNotified(t)
    PROVE  /\ live' \in [Tasks -> Entries] /\ ghosts' \in [Tasks -> Records]
           /\ chain' \in Seq(Writes)
  <1>. DEFINE entry == [live[t] EXCEPT !.n = TRUE]
              ghost == [ghosts[t] EXCEPT !.n = TRUE]
  <1>1. /\ live \in [Tasks -> Entries] /\ live[t] \in Entries /\ chain \in Seq(Writes)
        /\ ghosts \in [Tasks -> Records] /\ ghosts[t] \in Records
    BY TypedParts DEF Parts, ManagerTypes, LedgerTypes, StoreTypes, TalkTypes
  <1>2. entry \in Entries
    BY <1>1, EntryTypes
  <1>3. toPersisted(entry) \in Records /\ ghost \in Records
    BY <1>1, <1>2, EntryTypes, RecordTypes
  <1>4. /\ Queued(t, toPersisted(entry), "none") \in Seq(Writes)
        /\ Queued(t, ghost, "none") \in Seq(Writes)
    BY <1>1, <1>3, QueueTypes DEF Thens
  <1>5. /\ live' = live \/ live' = [live EXCEPT ![t] = entry]
        /\ ghosts' = ghosts \/ ghosts' = [ghosts EXCEPT ![t] = ghost]
        /\ \/ chain' = chain
           \/ chain' = Queued(t, toPersisted(entry), "none")
           \/ chain' = Queued(t, ghost, "none")
    <2>1. CASE live[t].st # "none"
      <3>1. live' = live \/ live' = [live EXCEPT ![t].n = TRUE]
        BY <2>1 DEF stampNotified
      <3>2. [live EXCEPT ![t].n = TRUE] = [live EXCEPT ![t] = entry]
        BY <1>1
      <3>. QED
        BY <2>1, <3>1, <3>2 DEF stampNotified
    <2>2. CASE live[t].st = "none"
      <3>1. ghosts' = ghosts \/ ghosts' = [ghosts EXCEPT ![t].n = TRUE]
        BY <2>2 DEF stampNotified
      <3>2. [ghosts EXCEPT ![t].n = TRUE] = [ghosts EXCEPT ![t] = ghost]
        BY <1>1
      <3>. QED
        BY <2>2, <3>1, <3>2 DEF stampNotified
    <2>. QED
      BY <2>1, <2>2
  <1>. HIDE DEF entry, ghost
  <1>. QED
    BY <1>1, <1>2, <1>3, <1>4, <1>5

(* and a notice for a ghost. *)
LEMMA SteersTypes ==
    ASSUME TypeOK, NEW t \in Tasks, Steers(t, ghosts[t])
    PROVE  /\ ghosts' \in [Tasks -> Records] /\ bus' \in Seq(Tasks)
           /\ sent' \in [Tasks -> Nat] /\ chain' \in Seq(Writes)
  <1>. DEFINE owed == [ghosts[t] EXCEPT !.q = TRUE]
  <1>1. /\ ghosts \in [Tasks -> Records] /\ ghosts[t] \in Records /\ chain \in Seq(Writes)
        /\ bus \in Seq(Tasks) /\ sent \in [Tasks -> Nat]
    BY TypedParts DEF Parts, ManagerTypes, LedgerTypes, StoreTypes, TalkTypes
  <1>2. owed \in Records
    BY <1>1, RecordTypes
  <1>3. Queued(t, owed, "none") \in Seq(Writes)
    BY <1>1, <1>2, QueueTypes DEF Thens
  <1>4. /\ ghosts' = [ghosts EXCEPT ![t] = owed]
        /\ bus' = Append(bus, t)
        /\ sent' = [sent EXCEPT ![t] = @ + 1]
        /\ chain' = Queued(t, owed, "none")
    BY DEF Steers
  <1>. HIDE DEF owed
  <1>. QED
    BY <1>1, <1>2, <1>3, <1>4

(* A new entry and its first write. *)
LEMMA AddsTypes ==
    ASSUME TypeOK, NEW t \in Tasks, NEW then \in {"start", "none"}, Adds(t, then)
    PROVE  live' \in [Tasks -> Entries] /\ chain' \in Seq(Writes)
  <1>. DEFINE entry == [NoEntry EXCEPT !.st = "running"]
  <1>1. live \in [Tasks -> Entries] /\ chain \in Seq(Writes)
    BY TypedParts DEF Parts, ManagerTypes, LedgerTypes, StoreTypes, TalkTypes
  <1>2. entry \in Entries
    BY NewEntryTypes
  <1>3. toPersisted(entry) \in Records
    BY <1>2, EntryTypes
  <1>4. live' = [live EXCEPT ![t] = entry] /\ chain' = Queued(t, toPersisted(entry), then)
    BY DEF Adds
  <1>5. Queued(t, toPersisted(entry), then) \in Seq(Writes)
    BY <1>1, <1>3, QueueTypes DEF Thens
  <1>. HIDE DEF entry
  <1>. QED
    BY <1>1, <1>2, <1>4, <1>5

(* A command in front of the user. *)
LEMMA ForegroundTypes ==
    ASSUME Parts, NEW t \in Tasks,
           runAttached(t) \/ ForegroundKill(t) \/ AttachedEnds(t) \/ Drained(t)
    PROVE  Parts'
  <1>0. ManagerTypes /\ LedgerTypes /\ StoreTypes /\ TalkTypes /\ SessionTypes
    BY DEF Parts
  <1>1. LedgerTypes' /\ StoreTypes' /\ TalkTypes'
    BY <1>0, PartsStay DEF runAttached, ForegroundKill, AttachedEnds, Drained
  <1>2. SessionTypes'
    BY <1>0
    DEF runAttached, ForegroundKill, AttachedEnds, Drained, SessionTypes, boundVars
  <1>3. ManagerTypes'
    BY <1>0 DEF runAttached, ForegroundKill, AttachedEnds, Drained, ManagerTypes
  <1>. QED
    BY <1>1, <1>2, <1>3 DEF Parts

(* A task enters the manager's map. *)
LEMMA NewTaskTypes ==
    ASSUME Parts, NEW t \in Tasks, registerTask(t) \/ detach(t) \/ Starts(t)
    PROVE  Parts'
  <1>0. ManagerTypes /\ LedgerTypes /\ StoreTypes /\ TalkTypes /\ SessionTypes
    BY DEF Parts
  <1>1. LedgerTypes' /\ TalkTypes'
    BY <1>0, PartsStay DEF registerTask, detach, Starts
  <1>2. SessionTypes'
    BY <1>0 DEF registerTask, detach, Starts, SessionTypes, boundVars
  <1>3. live' \in [Tasks -> Entries] /\ chain' \in Seq(Writes)
    <2>1. CASE registerTask(t) \/ detach(t)
      <3>1. PICK then \in {"start", "none"} : Adds(t, then)
        BY <2>1 DEF registerTask, detach
      <3>. QED
        BY <3>1, AddsTypes, TypedParts
    <2>2. CASE Starts(t)
      BY <1>0, <2>2 DEF Starts, ManagerTypes, StoreTypes
    <2>. QED
      BY <2>1, <2>2
  <1>4. ManagerTypes'
    <2>1. work' \in [Tasks -> {"none", "attached", "draining", "returned", "starting",
                               "running", "over"}]
      BY <1>0 DEF registerTask, detach, Starts, ManagerTypes
    <2>. QED
      BY <1>0, <1>3, <2>1 DEF registerTask, detach, Starts, ManagerTypes
  <1>5. StoreTypes'
    BY <1>0, <1>3 DEF registerTask, detach, Starts, StoreTypes
  <1>. QED
    BY <1>1, <1>2, <1>4, <1>5 DEF Parts

(* The end of a task, by itself, by a stop, and its effects. *)
LEMMA EndTypes ==
    ASSUME Parts, NEW t \in Tasks, TaskEnds(t) \/ StopReturns(t) \/ Fires(t)
    PROVE  Parts'
  <1>0. ManagerTypes /\ LedgerTypes /\ StoreTypes /\ TalkTypes /\ SessionTypes
    BY DEF Parts
  <1>1. LedgerTypes'
    BY <1>0, PartsStay DEF TaskEnds, StopReturns, Fires
  <1>2. SessionTypes'
    BY <1>0 DEF TaskEnds, StopReturns, Fires, SessionTypes, boundVars
  <1>3. /\ live' \in [Tasks -> Entries] /\ waiters' \subseteq Tasks
        /\ bus' \in Seq(Tasks) /\ sent' \in [Tasks -> Nat] /\ chain' \in Seq(Writes)
    <2>1. CASE \E status \in {"ended", "killed"} : settleTask(t, status)
      BY <2>1, SettleTypes, TypedParts
    <2>2. CASE Fires(t)
      <3>1. fireTerminalEffects(t) /\ waiters' \subseteq Tasks
        BY <1>0, <2>2 DEF Fires, ManagerTypes
      <3>. QED
        BY <3>1, FireTypes, TypedParts
    <2>3. CASE UNCHANGED <<live, bus, sent, chain, waiters>>
      BY <1>0, <2>3 DEF ManagerTypes, StoreTypes, TalkTypes
    <2>. QED
      BY <2>1, <2>2, <2>3 DEF TaskEnds, StopReturns
  <1>4. ManagerTypes'
    <2>1. /\ work' \in [Tasks -> {"none", "attached", "draining", "returned", "starting",
                                  "running", "over"}]
          /\ aborted' \subseteq Tasks /\ stopping' \subseteq Tasks
      BY <1>0 DEF TaskEnds, StopReturns, Fires, ManagerTypes
    <2>. QED
      BY <1>3, <2>1 DEF ManagerTypes
  <1>5. StoreTypes'
    <2>1. ready' \subseteq ready /\ disk' = disk
      BY DEF TaskEnds, StopReturns, Fires
    <2>. QED
      BY <1>0, <1>3, <2>1 DEF StoreTypes
  <1>6. TalkTypes'
    <2>1. outbox' = outbox /\ run' = run /\ told' = told
      BY DEF TaskEnds, StopReturns, Fires
    <2>. QED
      BY <1>0, <1>3, <2>1 DEF TalkTypes
  <1>. QED
    BY <1>1, <1>2, <1>4, <1>5, <1>6 DEF Parts

(* Those who stop a task or wait for it, and the tasks of a closed session. *)
LEMMA OthersTypes ==
    ASSUME Parts, NEW t \in Tasks, stop(t) \/ wait(t) \/ WaitGivesUp(t) \/ Strays(t)
    PROVE  Parts'
  <1>0. ManagerTypes /\ LedgerTypes /\ StoreTypes /\ TalkTypes /\ SessionTypes
    BY DEF Parts
  <1>1. CASE stop(t)
    <2>1. PICK quiet \in BOOLEAN :
            /\ live' = [live EXCEPT ![t].quiet = @ \/ quiet]
            /\ quieted' = IF quiet THEN quieted \union {t} ELSE quieted
      BY <1>1 DEF stop
    <2>. DEFINE entry == [live[t] EXCEPT !.quiet = live[t].quiet \/ quiet]
    <2>2. live \in [Tasks -> Entries] /\ live[t] \in Entries
      BY <1>0 DEF ManagerTypes
    <2>3. entry \in Entries
      BY <2>2, EntryTypes
    <2>4. live' = [live EXCEPT ![t] = entry]
      BY <2>1, <2>2
    <2>5. live' \in [Tasks -> Entries]
      BY <2>2, <2>3, <2>4
    <2>6. ManagerTypes'
      BY <1>0, <1>1, <2>5 DEF stop, ManagerTypes
    <2>7. LedgerTypes' /\ StoreTypes' /\ TalkTypes'
      BY <1>0, <1>1, PartsStay DEF stop
    <2>8. SessionTypes'
      BY <1>0, <1>1, <2>1 DEF stop, SessionTypes, boundVars
    <2>. QED
      BY <2>6, <2>7, <2>8 DEF Parts
  <1>2. CASE wait(t) \/ WaitGivesUp(t)
    <2>1. LedgerTypes' /\ StoreTypes' /\ TalkTypes'
      BY <1>0, <1>2, PartsStay DEF wait, WaitGivesUp
    <2>2. SessionTypes'
      BY <1>0, <1>2 DEF wait, WaitGivesUp, SessionTypes, boundVars
    <2>3. ManagerTypes'
      BY <1>0, <1>2 DEF wait, WaitGivesUp, ManagerTypes
    <2>. QED
      BY <2>1, <2>2, <2>3 DEF Parts
  <1>3. CASE Strays(t)
    <2>1. ManagerTypes' /\ LedgerTypes' /\ TalkTypes'
      BY <1>0, <1>3, PartsStay DEF Strays
    <2>2. SessionTypes'
      BY <1>0, <1>3 DEF Strays, StrayEnds, SessionTypes, boundVars
    <2>3. /\ [st |-> "ended", q |-> FALSE, n |-> FALSE] \in Records
          /\ [st |-> "ended", q |-> TRUE, n |-> FALSE] \in Records
      BY DEF Records, Statuses, TERMINAL
    <2>4. disk' \in [Tasks -> Records]
      BY <1>0, <1>3, <2>3 DEF Strays, StrayEnds, StoreTypes
    <2>5. StoreTypes'
      BY <1>0, <1>3, <2>4 DEF Strays, StoreTypes
    <2>. QED
      BY <2>1, <2>2, <2>5 DEF Parts
  <1>. QED
    BY <1>1, <1>2, <1>3

(* The walks of reconcile. *)
LEMMA ReconcileTypes ==
    ASSUME Parts, NEW c \in Callers, Reconciles(c)
    PROVE  Parts'
  <1>0. ManagerTypes /\ LedgerTypes /\ StoreTypes /\ TalkTypes /\ SessionTypes
    BY DEF Parts
  <1>1. /\ walk \in [Callers -> Walks] /\ walk[c] \in Walks
        /\ ghosts \in [Tasks -> Records] /\ chain \in Seq(Writes)
    BY <1>0 DEF LedgerTypes, StoreTypes
  <1>2. ManagerTypes'
    BY <1>0, PartsStay DEF Reconciles, Reconciled, ReconcileLost, TellsLost, ReconcileSettled
  <1>3. SessionTypes'
    BY <1>0 DEF Reconciles, Reconciled, ReconcileLost, TellsLost, ReconcileSettled,
                SessionTypes, boundVars
  <1>4. CASE Reconciled(c)
    <2>1. NoWalk \in Walks
      BY DEF NoWalk, Walks
    <2>2. LedgerTypes'
      BY <1>0, <1>1, <1>4, <2>1 DEF Reconciled, LedgerTypes
    <2>3. StoreTypes'
      BY <1>0, <1>4, PartsStay DEF Reconciled
    <2>4. TalkTypes'
      BY <1>0, <1>4 DEF Reconciled, TalkTypes
    <2>. QED
      BY <1>2, <1>3, <2>2, <2>3, <2>4 DEF Parts
  <1>5. ASSUME NEW t \in Tasks, ReconcileLost(c, t) PROVE Parts'
    <2>. DEFINE lost == [ghosts[t] EXCEPT !.st = "lost"]
                w == [walk[c] EXCEPT !.at = {t}, !.todo = @ \ {t}]
    <2>1. lost \in Records
      BY <1>1, RecordTypes
    <2>2. w \in Walks
      BY <1>1 DEF Walks
    <2>3. walk' = [walk EXCEPT ![c] = w]
      BY <1>1, <1>5 DEF ReconcileLost, Walks
    <2>4. ghosts' = [ghosts EXCEPT ![t] = lost] /\ chain' = Queued(t, lost, "lost")
      BY <1>5 DEF ReconcileLost
    <2>5. Queued(t, lost, "lost") \in Seq(Writes)
      BY <1>1, <2>1, QueueTypes DEF Thens
    <2>. HIDE DEF lost, w
    <2>6. LedgerTypes'
      BY <1>0, <1>1, <1>5, <2>1, <2>2, <2>3, <2>4 DEF ReconcileLost, LedgerTypes
    <2>7. StoreTypes'
      BY <1>0, <1>5, <2>4, <2>5 DEF ReconcileLost, StoreTypes
    <2>8. TalkTypes'
      BY <1>0, <1>5, PartsStay DEF ReconcileLost
    <2>. QED
      BY <1>2, <1>3, <2>6, <2>7, <2>8 DEF Parts
  <1>6. ASSUME NEW t \in Tasks, TellsLost(c, t) PROVE Parts'
    <2>. DEFINE w == [walk[c] EXCEPT !.at = {}]
    <2>1. w \in Walks
      BY <1>1 DEF Walks
    <2>2. walk' = [walk EXCEPT ![c] = w]
      BY <1>1, <1>6 DEF TellsLost, Walks
    <2>3. /\ ghosts' \in [Tasks -> Records] /\ bus' \in Seq(Tasks)
          /\ sent' \in [Tasks -> Nat] /\ chain' \in Seq(Writes)
      BY <1>6, SteersTypes, TypedParts DEF TellsLost
    <2>4. ready' \subseteq ready
      BY <1>6 DEF TellsLost
    <2>. HIDE DEF w
    <2>5. LedgerTypes'
      BY <1>0, <1>1, <1>6, <2>1, <2>2, <2>3 DEF TellsLost, LedgerTypes
    <2>6. StoreTypes'
      BY <1>0, <1>6, <2>3, <2>4 DEF TellsLost, StoreTypes
    <2>7. TalkTypes'
      BY <1>0, <1>6, <2>3 DEF TellsLost, TalkTypes
    <2>. QED
      BY <1>2, <1>3, <2>5, <2>6, <2>7 DEF Parts
  <1>7. ASSUME NEW t \in Tasks, ReconcileSettled(c, t) PROVE Parts'
    <2>. DEFINE w == [walk[c] EXCEPT !.todo = @ \ {t}]
    <2>1. w \in Walks
      BY <1>1 DEF Walks
    <2>2. walk' = [walk EXCEPT ![c] = w]
      BY <1>1, <1>7 DEF ReconcileSettled, Walks
    <2>3. /\ ghosts' \in [Tasks -> Records] /\ bus' \in Seq(Tasks)
          /\ sent' \in [Tasks -> Nat] /\ chain' \in Seq(Writes)
      <3>1. CASE Unconfirmed(t)
        BY <1>7, <3>1, SteersTypes, TypedParts DEF ReconcileSettled
      <3>2. CASE ~Unconfirmed(t)
        BY <1>0, <1>7, <3>2 DEF ReconcileSettled, LedgerTypes, TalkTypes, StoreTypes
      <3>. QED
        BY <3>1, <3>2
    <2>4. resent' \subseteq Tasks
      BY <1>0, <1>7 DEF ReconcileSettled, LedgerTypes
    <2>. HIDE DEF w
    <2>5. LedgerTypes'
      BY <1>1, <2>1, <2>2, <2>3, <2>4 DEF LedgerTypes
    <2>6. StoreTypes'
      BY <1>0, <1>7, <2>3 DEF ReconcileSettled, StoreTypes
    <2>7. TalkTypes'
      BY <1>0, <1>7, <2>3 DEF ReconcileSettled, TalkTypes
    <2>. QED
      BY <1>2, <1>3, <2>5, <2>6, <2>7 DEF Parts
  <1>. QED
    BY <1>4, <1>5, <1>6, <1>7 DEF Reconciles

(* Writes that land, and the run that takes notices into the conversation. *)
LEMMA TalkStepTypes ==
    ASSUME Parts, writeTask \/ RunBegins \/ DrainNotice \/ RunEnds \/ AppendLands
    PROVE  Parts'
  <1>0. ManagerTypes /\ LedgerTypes /\ StoreTypes /\ TalkTypes /\ SessionTypes
    BY DEF Parts
  <1>1. CASE writeTask
    <2>1. chain \in Seq(Writes) /\ chain # <<>>
      BY <1>0, <1>1 DEF writeTask, StoreTypes
    <2>2. Head(chain) \in Writes /\ Tail(chain) \in Seq(Writes)
      BY <2>1
    <2>3. disk' \in [Tasks -> Records]
      BY <1>0, <1>1, <2>2 DEF writeTask, StoreTypes, Writes
    <2>4. ready' \subseteq [task : Tasks, then : {"start", "fire", "lost"}]
      BY <1>0, <1>1, <2>2 DEF writeTask, StoreTypes, Writes, Thens
    <2>5. StoreTypes'
      BY <1>1, <2>2, <2>3, <2>4 DEF writeTask, StoreTypes
    <2>6. ManagerTypes' /\ LedgerTypes' /\ TalkTypes'
      BY <1>0, <1>1, PartsStay DEF writeTask
    <2>7. SessionTypes'
      BY <1>0, <1>1 DEF writeTask, SessionTypes, boundVars
    <2>. QED
      BY <2>5, <2>6, <2>7 DEF Parts
  <1>2. CASE RunBegins
    <2>. DEFINE w == [on |-> TRUE, at |-> {}, todo |-> {t \in Tasks : ghosts[t].st # "none"}]
    <2>1. w \in Walks /\ walk' = [walk EXCEPT !["run"] = w]
      BY <1>2 DEF Walks, RunBegins
    <2>. HIDE DEF w
    <2>2. LedgerTypes'
      BY <1>0, <1>2, <2>1 DEF RunBegins, LedgerTypes, Callers
    <2>3. spent' \in [Doings -> Nat]
      BY <1>0, <1>2 DEF RunBegins, SessionTypes, Doings
    <2>4. SessionTypes'
      BY <1>0, <1>2, <2>3 DEF RunBegins, SessionTypes
    <2>5. ManagerTypes' /\ StoreTypes'
      BY <1>0, <1>2, PartsStay DEF RunBegins
    <2>6. TalkTypes'
      BY <1>0, <1>2 DEF RunBegins, TalkTypes
    <2>. QED
      BY <2>2, <2>4, <2>5, <2>6 DEF Parts
  <1>3. CASE RunEnds
    <2>1. ManagerTypes' /\ LedgerTypes' /\ StoreTypes'
      BY <1>0, <1>3, PartsStay DEF RunEnds
    <2>2. TalkTypes'
      BY <1>0, <1>3 DEF RunEnds, TalkTypes
    <2>3. SessionTypes'
      BY <1>0, <1>3 DEF RunEnds, SessionTypes, boundVars
    <2>. QED
      BY <2>1, <2>2, <2>3 DEF Parts
  <1>4. CASE DrainNotice
    <2>1. bus \in Seq(Tasks) /\ bus # <<>> /\ outbox \in Seq(Tasks)
      BY <1>0, <1>4 DEF DrainNotice, TalkTypes
    <2>2. Head(bus) \in Tasks /\ Tail(bus) \in Seq(Tasks)
      BY <2>1
    <2>3. Append(outbox, Head(bus)) \in Seq(Tasks)
      BY <2>1, <2>2
    <2>4. /\ live' \in [Tasks -> Entries] /\ ghosts' \in [Tasks -> Records]
          /\ chain' \in Seq(Writes)
      <3>1. CASE scene.mode = "immediate"
        BY <1>4, <2>2, <3>1, StampTypes, TypedParts DEF DrainNotice
      <3>2. CASE scene.mode # "immediate"
        BY <1>0, <1>4, <3>2 DEF DrainNotice, ManagerTypes, LedgerTypes, StoreTypes
      <3>. QED
        BY <3>1, <3>2
    <2>5. ManagerTypes'
      BY <1>0, <1>4, <2>4 DEF DrainNotice, ManagerTypes
    <2>6. LedgerTypes'
      BY <1>0, <1>4, <2>4 DEF DrainNotice, LedgerTypes
    <2>7. StoreTypes'
      BY <1>0, <1>4, <2>4 DEF DrainNotice, StoreTypes
    <2>8. TalkTypes'
      BY <1>0, <1>4, <2>2, <2>3 DEF DrainNotice, TalkTypes
    <2>9. SessionTypes'
      BY <1>0, <1>4 DEF DrainNotice, SessionTypes, boundVars
    <2>. QED
      BY <2>5, <2>6, <2>7, <2>8, <2>9 DEF Parts
  <1>5. CASE AppendLands
    <2>1. outbox \in Seq(Tasks) /\ outbox # <<>>
      BY <1>0, <1>5 DEF AppendLands, TalkTypes
    <2>2. Head(outbox) \in Tasks /\ Tail(outbox) \in Seq(Tasks)
      BY <2>1
    <2>3. told' \in [Tasks -> Nat]
      BY <1>0, <1>5, <2>2 DEF AppendLands, TalkTypes
    <2>4. /\ live' \in [Tasks -> Entries] /\ ghosts' \in [Tasks -> Records]
          /\ chain' \in Seq(Writes)
      <3>1. CASE scene.mode = "committed"
        BY <1>5, <2>2, <3>1, StampTypes, TypedParts DEF AppendLands
      <3>2. CASE scene.mode # "committed"
        BY <1>0, <1>5, <3>2 DEF AppendLands, ManagerTypes, LedgerTypes, StoreTypes
      <3>. QED
        BY <3>1, <3>2
    <2>5. ManagerTypes'
      BY <1>0, <1>5, <2>4 DEF AppendLands, ManagerTypes
    <2>6. LedgerTypes'
      BY <1>0, <1>5, <2>4 DEF AppendLands, LedgerTypes
    <2>7. StoreTypes'
      BY <1>0, <1>5, <2>4 DEF AppendLands, StoreTypes
    <2>8. TalkTypes'
      BY <1>0, <1>5, <2>2, <2>3 DEF AppendLands, TalkTypes
    <2>9. SessionTypes'
      BY <1>0, <1>5 DEF AppendLands, SessionTypes, boundVars
    <2>. QED
      BY <2>5, <2>6, <2>7, <2>8, <2>9 DEF Parts
  <1>. QED
    BY <1>1, <1>2, <1>3, <1>4, <1>5

(* A process ends, and another opens the session. *)
LEMMA ProcessTypes ==
    ASSUME Parts, crash \/ closeSession \/ Reopen
    PROVE  Parts'
  <1>0. ManagerTypes /\ LedgerTypes /\ StoreTypes /\ TalkTypes /\ SessionTypes
    BY DEF Parts
  <1>1. CASE crash \/ closeSession
    <2>1. Clears /\ disk' = disk /\ told' = told
      BY <1>1 DEF crash, closeSession
    <2>2. NoWalk \in Walks /\ <<>> \in Seq(Writes) /\ <<>> \in Seq(Tasks)
      BY DEF NoWalk, Walks
    <2>3. ManagerTypes' /\ LedgerTypes'
      BY <2>1, <2>2, NewEntryTypes DEF Clears, Each, ManagerTypes, LedgerTypes
    <2>4. StoreTypes'
      BY <1>0, <2>1, <2>2 DEF Clears, StoreTypes
    <2>5. TalkTypes'
      BY <1>0, <2>1, <2>2 DEF Clears, Each, TalkTypes
    <2>6. spent' \in [Doings -> Nat]
      BY <1>0, <1>1 DEF crash, closeSession, SessionTypes, Doings
    <2>7. strays' \in [Tasks -> {"none", "running", "settled", "landed", "gone"}]
      BY <1>0, <1>1 DEF crash, closeSession, SessionTypes
    <2>8. SessionTypes'
      BY <1>0, <1>1, <2>1, <2>6, <2>7 DEF crash, closeSession, Clears, SessionTypes
    <2>. QED
      BY <2>3, <2>4, <2>5, <2>8 DEF Parts
  <1>2. CASE Reopen
    <2>. DEFINE w == [on |-> TRUE, at |-> {}, todo |-> {t \in Tasks : disk[t].st # "none"}]
    <2>1. w \in Walks /\ walk' = [walk EXCEPT !["open"] = w]
      BY <1>2 DEF Walks, Reopen
    <2>. HIDE DEF w
    <2>2. LedgerTypes'
      BY <1>0, <1>2, <2>1 DEF Reopen, LedgerTypes, StoreTypes, Callers
    <2>3. ManagerTypes' /\ StoreTypes' /\ TalkTypes'
      BY <1>0, <1>2, PartsStay DEF Reopen
    <2>4. SessionTypes'
      BY <1>0, <1>2 DEF Reopen, SessionTypes, boundVars
    <2>. QED
      BY <2>2, <2>3, <2>4 DEF Parts
  <1>. QED
    BY <1>1, <1>2

(* Every variable keeps its type: whatever the tasks, the writes, the run and
   the restarts do (manager.ts and persist.ts as a whole). *)
THEOREM TypeCorrect == Spec => []TypeOK
  <1>1. TypeOK /\ [Next]_vars => TypeOK'
    <2>. SUFFICES ASSUME TypeOK, [Next]_vars PROVE Parts'
      BY TypedAgain
    <2>0. Parts
      BY TypedParts
    <2>1. ASSUME NEW t \in Tasks, TaskSteps(t) PROVE Parts'
      BY <2>0, <2>1, ForegroundTypes, NewTaskTypes, EndTypes, OthersTypes DEF TaskSteps
    <2>2. ASSUME NEW c \in Callers, Reconciles(c) PROVE Parts'
      BY <2>0, <2>2, ReconcileTypes
    <2>3. CASE writeTask \/ RunBegins \/ DrainNotice \/ RunEnds \/ AppendLands
      BY <2>0, <2>3, TalkStepTypes
    <2>4. CASE crash \/ closeSession \/ Reopen
      BY <2>0, <2>4, ProcessTypes
    <2>5. CASE UNCHANGED vars
      <3>1. ManagerTypes' /\ LedgerTypes' /\ StoreTypes' /\ TalkTypes'
        BY <2>0, <2>5, PartsStay DEF vars, Parts
      <3>2. SessionTypes'
        BY <2>0, <2>5 DEF vars, Parts, SessionTypes, boundVars
      <3>. QED
        BY <3>1, <3>2 DEF Parts
    <2>. QED
      BY <2>1, <2>2, <2>3, <2>4, <2>5 DEF Next
  <1>. QED
    BY <1>1, InitTypes, PTL DEF Spec

---------------------------------------------------------------------------
(* No wait() is left behind.                                               *)

LEMMA WaitInit == Init => WaitInv
  BY DEF Init, WaitInv, Each, NoEntry, Foreground

(* A queue that got one more write, whose continuation is not the end of a
   task or is that of a task that is over. *)
LEMMA QueueKeepsOver ==
    ASSUME TypeOK, WaitInv, NEW t \in Tasks, NEW rec \in Records, NEW then \in Thens,
           Settled \subseteq Settled',
           then = "fire" => t \in Settled',
           chain' = Queued(t, rec, then)
    PROVE  \A i \in 1..Len(chain') : chain'[i].then = "fire" => chain'[i].task \in Settled'
  <1>. SUFFICES ASSUME NEW i \in 1..Len(chain'), chain'[i].then = "fire"
                PROVE  chain'[i].task \in Settled'
    OBVIOUS
  <1>1. chain \in Seq(Writes)
    BY TypedParts DEF Parts, StoreTypes
  <1>2. /\ Len(chain') = Len(chain) + 1
        /\ \A j \in 1..Len(chain) : chain'[j] = chain[j]
        /\ chain'[Len(chain) + 1] = [task |-> t, rec |-> rec, then |-> then]
    BY <1>1, QueueTypes
  <1>3. CASE i \in 1..Len(chain)
    <2>1. chain[i] \in Writes /\ chain'[i] = chain[i]
      BY <1>1, <1>2, <1>3
    <2>2. chain[i].task \in Settled /\ chain[i].task \in Tasks
      BY <1>3, <2>1 DEF WaitInv, Writes
    <2>. QED
      BY <2>1, <2>2
  <1>4. CASE i = Len(chain) + 1
    BY <1>2, <1>4
  <1>. QED
    BY <1>1, <1>2, <1>3, <1>4

(* What the end of a task, a stamp and a new entry leave of the invariant. *)
LEMMA FireKeepsWaits ==
    ASSUME TypeOK, WaitInv, NEW t \in Tasks, t \in Settled, fireTerminalEffects(t),
           waiters' = waiters \ {t}, ready' \subseteq ready, born' = born,
           \A u \in Tasks : work'[u] \in Foreground => u \in born
    PROVE  WaitInv'
  <1>. DEFINE entry == [live[t] EXCEPT !.fired = TRUE, !.q = @ \/ ~live[t].quiet]
  <1>1. live \in [Tasks -> Entries] /\ live[t] \in Entries
    BY TypedParts DEF Parts, ManagerTypes
  <1>2. /\ live' = live \/ live' = [live EXCEPT ![t] = entry]
        /\ chain' = chain \/ chain' = Queued(t, toPersisted(entry), "none")
    BY DEF fireTerminalEffects
  <1>3. entry \in Entries /\ entry.st = live[t].st
    <2>1. (live[t].q \/ ~live[t].quiet) \in BOOLEAN
      OBVIOUS
    <2>. QED
      BY <1>1, <2>1, EntryTypes DEF Entries
  <1>4. toPersisted(entry) \in Records
    BY <1>3, EntryTypes
  <1>. HIDE DEF entry
  <1>5. \A u \in Tasks : live'[u].st = live[u].st /\ (u # t => live'[u] = live[u])
    BY <1>1, <1>2, <1>3
  <1>6. Settled' = Settled
    BY <1>5 DEF Settled
  <1>7. \A u \in Tasks : live'[u].fired => u \in Settled' /\ u \notin waiters'
    BY <1>5, <1>6 DEF WaitInv
  <1>8. \A i \in 1..Len(chain') : chain'[i].then = "fire" => chain'[i].task \in Settled'
    <2>1. CASE chain' = chain
      BY <1>6, <2>1 DEF WaitInv
    <2>2. CASE chain' = Queued(t, toPersisted(entry), "none")
      <3>1. "none" \in Thens /\ "none" # "fire"
        BY DEF Thens
      <3>. QED
        BY <1>4, <1>6, <2>2, <3>1, QueueKeepsOver
    <2>. QED
      BY <1>2, <2>1, <2>2
  <1>9. \A u \in Tasks : work'[u] \in Foreground \/ live'[u].st # "none" => u \in born'
    BY <1>5 DEF WaitInv
  <1>10. \A u \in Tasks : [task |-> u, then |-> "fire"] \in ready' => u \in Settled'
    BY <1>6 DEF WaitInv
  <1>. QED
    BY <1>7, <1>8, <1>9, <1>10 DEF WaitInv

(* A settlement queues an end only of a task that has settled. *)
LEMMA SettleKeepsWaits ==
    ASSUME TypeOK, WaitInv, NEW t \in Tasks, NEW status \in {"ended", "killed"},
           settleTask(t, status), ready' = ready, born' = born,
           \A u \in Tasks : work'[u] \in Foreground => u \in born
    PROVE  WaitInv'
  <1>1. CASE live[t].st = "running"
    <2>. DEFINE entry == [live[t] EXCEPT !.st = status]
    <2>1. live \in [Tasks -> Entries] /\ live[t] \in Entries
      BY TypedParts DEF Parts, ManagerTypes
    <2>2. entry \in Entries /\ entry.st = status /\ entry.fired = live[t].fired
      BY <2>1, EntryTypes DEF Entries
    <2>3. toPersisted(entry) \in Records
      BY <2>2, EntryTypes
    <2>4. /\ live' = [live EXCEPT ![t] = entry]
          /\ chain' = Queued(t, toPersisted(entry), "fire")
          /\ waiters' = waiters
      BY <1>1 DEF settleTask
    <2>. HIDE DEF entry
    <2>5. /\ \A u \in Tasks : live'[u].fired = live[u].fired
          /\ \A u \in Tasks : u # t => live'[u] = live[u]
          /\ live'[t].st = status
      BY <2>1, <2>2, <2>4
    <2>6. t \in Settled' /\ Settled \subseteq Settled'
      BY <2>5 DEF Settled
    <2>7. \A i \in 1..Len(chain') : chain'[i].then = "fire" => chain'[i].task \in Settled'
      <3>1. "fire" \in Thens
        BY DEF Thens
      <3>. QED
        BY <2>3, <2>4, <2>6, <3>1, QueueKeepsOver
    <2>8. \A u \in Tasks : live'[u].fired => u \in Settled' /\ u \notin waiters'
      BY <2>4, <2>5, <2>6 DEF WaitInv
    <2>9. \A u \in Tasks : work'[u] \in Foreground \/ live'[u].st # "none" => u \in born'
      BY <1>1, <2>5 DEF WaitInv
    <2>10. \A u \in Tasks : [task |-> u, then |-> "fire"] \in ready' => u \in Settled'
      BY <2>6 DEF WaitInv
    <2>. QED
      BY <2>7, <2>8, <2>9, <2>10 DEF WaitInv
  <1>2. CASE live[t].st = "killed" /\ status = "killed"
    <2>1. t \in Settled /\ fireTerminalEffects(t) /\ waiters' = waiters \ {t}
      BY <1>2 DEF Settled, settleTask
    <2>. QED
      BY <2>1, FireKeepsWaits
  <1>3. CASE live[t].st # "running" /\ ~(live[t].st = "killed" /\ status = "killed")
    <2>1. UNCHANGED <<live, chain, waiters, ready, born>>
      BY <1>3 DEF settleTask
    <2>. QED
      BY <2>1 DEF WaitInv, Settled
  <1>. QED
    BY <1>1, <1>2, <1>3

(* A stamp of delivery is no end. *)
LEMMA StampKeepsWaits ==
    ASSUME TypeOK, WaitInv, NEW t \in Tasks, stampNotified(t),
           UNCHANGED <<work, waiters, ready, born>>
    PROVE  WaitInv'
  <1>. DEFINE entry == [live[t] EXCEPT !.n = TRUE]
              ghost == [ghosts[t] EXCEPT !.n = TRUE]
  <1>1. /\ live \in [Tasks -> Entries] /\ live[t] \in Entries
        /\ ghosts[t] \in Records
    BY TypedParts DEF Parts, ManagerTypes, LedgerTypes
  <1>2. entry \in Entries /\ entry.st = live[t].st /\ entry.fired = live[t].fired
    BY <1>1, EntryTypes DEF Entries
  <1>3. toPersisted(entry) \in Records /\ ghost \in Records
    BY <1>1, <1>2, EntryTypes, RecordTypes
  <1>4. live' = live \/ live' = [live EXCEPT ![t] = entry]
    <2>1. live' = live \/ live' = [live EXCEPT ![t].n = TRUE]
      BY DEF stampNotified
    <2>. QED
      BY <1>1, <2>1
  <1>5. \/ chain' = chain
        \/ chain' = Queued(t, toPersisted(entry), "none")
        \/ chain' = Queued(t, ghost, "none")
    BY DEF stampNotified
  <1>. HIDE DEF entry, ghost
  <1>6. \A u \in Tasks : live'[u].st = live[u].st /\ live'[u].fired = live[u].fired
    BY <1>1, <1>2, <1>4
  <1>7. Settled' = Settled
    BY <1>6 DEF Settled
  <1>8. \A i \in 1..Len(chain') : chain'[i].then = "fire" => chain'[i].task \in Settled'
    <2>1. CASE chain' = chain
      BY <1>7, <2>1 DEF WaitInv
    <2>2. CASE chain' = Queued(t, toPersisted(entry), "none") \/ chain' = Queued(t, ghost, "none")
      <3>1. "none" \in Thens /\ "none" # "fire"
        BY DEF Thens
      <3>. QED
        BY <1>3, <1>7, <2>2, <3>1, QueueKeepsOver
    <2>. QED
      BY <1>5, <2>1, <2>2
  <1>. QED
    BY <1>6, <1>7, <1>8 DEF WaitInv

(* A queue that got a write with another continuation, or lost its first. *)
LEMMA OtherWriteKeepsWaits ==
    ASSUME TypeOK, WaitInv, NEW t \in Tasks, NEW rec \in Records,
           NEW then \in {"start", "lost", "none"}, chain' = Queued(t, rec, then),
           UNCHANGED <<live, work, waiters, born>>, ready' \subseteq ready
    PROVE  WaitInv'
  <1>1. then \in Thens /\ then # "fire"
    BY DEF Thens
  <1>2. Settled' = Settled
    BY DEF Settled
  <1>3. \A i \in 1..Len(chain') : chain'[i].then = "fire" => chain'[i].task \in Settled'
    BY <1>1, <1>2, QueueKeepsOver
  <1>. QED
    BY <1>2, <1>3 DEF WaitInv

(* A write that lands hands the end of a settled task on. *)
LEMMA WriteKeepsWaits ==
    ASSUME TypeOK, WaitInv, writeTask
    PROVE  WaitInv'
  <1>1. chain \in Seq(Writes) /\ chain # <<>>
    BY TypedParts DEF Parts, StoreTypes, writeTask
  <1>2. /\ chain' = Tail(chain) /\ UNCHANGED <<live, work, waiters, born>>
        /\ ready' = IF Head(chain).then = "none" THEN ready
                    ELSE ready \union {[task |-> Head(chain).task, then |-> Head(chain).then]}
    BY DEF writeTask, managerVars
  <1>3. /\ Len(chain') = Len(chain) - 1
        /\ \A i \in 1..Len(chain') : chain'[i] = chain[i + 1] /\ i + 1 \in 1..Len(chain)
    BY <1>1, <1>2
  <1>4. 1 \in 1..Len(chain) /\ Head(chain) = chain[1]
    BY <1>1
  <1>5. \A u \in Tasks : [task |-> u, then |-> "fire"] \in ready' => u \in Settled
    BY <1>2, <1>4 DEF WaitInv
  <1>6. \A i \in 1..Len(chain') : chain'[i].then = "fire" => chain'[i].task \in Settled
    BY <1>3 DEF WaitInv
  <1>. QED
    BY <1>2, <1>5, <1>6 DEF WaitInv, Settled

(* What a task, those who stop it and those who wait for it do. *)
LEMMA TaskKeepsWaits ==
    ASSUME TypeOK, WaitInv, NEW t \in Tasks, TaskSteps(t)
    PROVE  WaitInv'
  <1>0. /\ live \in [Tasks -> Entries] /\ live[t] \in Entries
        /\ work \in [Tasks -> {"none", "attached", "draining", "returned", "starting",
                               "running", "over"}]
    BY TypedParts DEF Parts, ManagerTypes
  <1>1. CASE registerTask(t) \/ detach(t)
    <2>. DEFINE entry == [NoEntry EXCEPT !.st = "running"]
    <2>1. PICK then \in {"start", "none"} : Adds(t, then)
      BY <1>1 DEF registerTask, detach
    <2>2. entry \in Entries /\ ~entry.fired /\ entry.st = "running"
      BY NewEntryTypes DEF NoEntry
    <2>3. toPersisted(entry) \in Records
      BY <2>2, EntryTypes
    <2>4. live' = [live EXCEPT ![t] = entry] /\ chain' = Queued(t, toPersisted(entry), then)
      BY <2>1 DEF Adds
    <2>5. live[t].st = "none" /\ t \in born' /\ born \subseteq born'
      BY <1>0, <1>1 DEF Foreground, registerTask, detach, WaitInv
    <2>6. waiters' = waiters /\ ready' = ready
      BY <1>1 DEF registerTask, detach
    <2>7. \A u \in Tasks : u # t => live'[u] = live[u] /\ work'[u] = work[u]
      BY <1>0, <1>1, <2>4 DEF registerTask, detach
    <2>. HIDE DEF entry
    <2>8. live'[t] = entry
      BY <1>0, <2>4
    <2>9. Settled \subseteq Settled' /\ t \notin Settled
      BY <2>5, <2>7 DEF Settled
    <2>10. \A i \in 1..Len(chain') : chain'[i].then = "fire" => chain'[i].task \in Settled'
      <3>1. then \in Thens /\ then # "fire"
        BY DEF Thens
      <3>. QED
        BY <2>3, <2>4, <2>9, <3>1, QueueKeepsOver
    <2>11. \A u \in Tasks : live'[u].fired => u \in Settled' /\ u \notin waiters'
      BY <2>2, <2>6, <2>7, <2>8, <2>9 DEF WaitInv
    <2>12. \A u \in Tasks : work'[u] \in Foreground \/ live'[u].st # "none" => u \in born'
      BY <2>5, <2>7 DEF WaitInv
    <2>13. \A u \in Tasks : [task |-> u, then |-> "fire"] \in ready' => u \in Settled'
      BY <2>6, <2>9 DEF WaitInv
    <2>. QED
      BY <2>10, <2>11, <2>12, <2>13 DEF WaitInv
  <1>2. CASE \/ Starts(t) \/ runAttached(t) \/ ForegroundKill(t) \/ AttachedEnds(t)
             \/ Drained(t) \/ wait(t) \/ WaitGivesUp(t) \/ Strays(t)
    <2>1. live' = live /\ chain' = chain /\ ready' \subseteq ready /\ Settled' = Settled
      BY <1>2 DEF Starts, runAttached, ForegroundKill, AttachedEnds, Drained, wait,
                  WaitGivesUp, Strays, storeVars, managerVars, Settled
    <2>2. \A u \in Tasks : work'[u] \in Foreground \/ live[u].st # "none" => u \in born'
      <3>1. CASE Starts(t) \/ Drained(t) \/ AttachedEnds(t)
        <4>1. /\ \A u \in Tasks : work'[u] \in Foreground => work[u] \in Foreground
              /\ born' = born
          BY <1>0, <3>1 DEF Starts, Drained, AttachedEnds, Foreground
        <4>. QED
          BY <4>1 DEF WaitInv
      <3>2. CASE runAttached(t)
        BY <1>0, <3>2 DEF runAttached, WaitInv
      <3>3. CASE ForegroundKill(t) \/ wait(t) \/ WaitGivesUp(t) \/ Strays(t)
        BY <3>3 DEF ForegroundKill, wait, WaitGivesUp, Strays, managerVars, WaitInv
      <3>. QED
        BY <1>2, <3>1, <3>2, <3>3
    <2>3. \A u \in Tasks : live[u].fired => u \notin waiters'
      BY <1>2 DEF Starts, runAttached, ForegroundKill, AttachedEnds, Drained, wait,
                  WaitGivesUp, Strays, managerVars, WaitInv, Settled
    <2>. QED
      BY <2>1, <2>2, <2>3 DEF WaitInv
  <1>3. CASE TaskEnds(t)
    <2>1. PICK status \in {"ended", "killed"} : settleTask(t, status)
      BY <1>3 DEF TaskEnds
    <2>2. \A u \in Tasks : work'[u] \in Foreground => u \in born
      BY <1>0, <1>3 DEF Foreground, TaskEnds, WaitInv
    <2>3. ready' = ready /\ born' = born
      BY <1>3 DEF TaskEnds
    <2>. QED
      BY <2>1, <2>2, <2>3, SettleKeepsWaits
  <1>4. CASE Fires(t)
    <2>1. /\ fireTerminalEffects(t) /\ waiters' = waiters \ {t}
          /\ ready' \subseteq ready /\ born' = born /\ work' = work
      BY <1>4 DEF Fires
    <2>2. t \in Settled
      BY <1>4 DEF Fires, WaitInv
    <2>. QED
      BY <2>1, <2>2, FireKeepsWaits DEF WaitInv
  <1>5. CASE stop(t)
    <2>1. PICK quiet \in BOOLEAN : live' = [live EXCEPT ![t].quiet = @ \/ quiet]
      BY <1>5 DEF stop
    <2>2. \A u \in Tasks : live'[u].st = live[u].st /\ live'[u].fired = live[u].fired
      BY <1>0, <2>1 DEF Entries
    <2>3. UNCHANGED <<work, waiters, chain, ready, born>>
      BY <1>5 DEF stop, storeVars
    <2>4. Settled' = Settled
      BY <2>2 DEF Settled
    <2>. QED
      BY <2>2, <2>3, <2>4 DEF WaitInv
  <1>6. CASE StopReturns(t)
    <2>1. UNCHANGED <<work, ready, born>>
      BY <1>6 DEF StopReturns
    <2>2. CASE live[t].st = "running"
      BY <1>6, <2>1, <2>2, SettleKeepsWaits DEF StopReturns, WaitInv
    <2>3. CASE live[t].st # "running"
      BY <1>6, <2>1, <2>3 DEF StopReturns, WaitInv, Settled
    <2>. QED
      BY <2>2, <2>3
  <1>. QED
    BY <1>1, <1>2, <1>3, <1>4, <1>5, <1>6 DEF TaskSteps

(* The walks of reconcile write of ghosts, and of nobody's end. *)
LEMMA ReconcileKeepsWaits ==
    ASSUME TypeOK, WaitInv, NEW c \in Callers, Reconciles(c)
    PROVE  WaitInv'
  <1>0. \A t \in Tasks : ghosts[t] \in Records
    BY TypedParts DEF Parts, LedgerTypes
  <1>1. CASE Reconciled(c)
    BY <1>1 DEF Reconciled, managerVars, storeVars, WaitInv, Settled
  <1>2. ASSUME NEW t \in Tasks, ReconcileLost(c, t) PROVE WaitInv'
    <2>1. [ghosts[t] EXCEPT !.st = "lost"] \in Records
      BY <1>0, RecordTypes
    <2>2. /\ chain' = Queued(t, [ghosts[t] EXCEPT !.st = "lost"], "lost")
          /\ UNCHANGED <<live, work, waiters, born, ready>>
      BY <1>2 DEF ReconcileLost, managerVars
    <2>. QED
      BY <2>1, <2>2, OtherWriteKeepsWaits
  <1>3. ASSUME NEW t \in Tasks, TellsLost(c, t) \/ ReconcileSettled(c, t) PROVE WaitInv'
    <2>1. [ghosts[t] EXCEPT !.q = TRUE] \in Records
      BY <1>0, RecordTypes
    <2>2. /\ \/ chain' = Queued(t, [ghosts[t] EXCEPT !.q = TRUE], "none")
             \/ chain' = chain
          /\ UNCHANGED <<live, work, waiters, born>> /\ ready' \subseteq ready
      BY <1>3 DEF TellsLost, ReconcileSettled, Steers, managerVars
    <2>3. CASE chain' = chain
      BY <2>2, <2>3 DEF WaitInv, Settled
    <2>. QED
      BY <2>1, <2>2, <2>3, OtherWriteKeepsWaits
  <1>. QED
    BY <1>1, <1>2, <1>3 DEF Reconciles

(* The run takes notices, and stamps of delivery are no ends. *)
LEMMA TalkKeepsWaits ==
    ASSUME TypeOK, WaitInv, RunBegins \/ DrainNotice \/ RunEnds \/ AppendLands
    PROVE  WaitInv'
  <1>1. CASE RunBegins \/ RunEnds
    BY <1>1 DEF RunBegins, RunEnds, managerVars, storeVars, WaitInv, Settled
  <1>2. CASE DrainNotice \/ AppendLands
    <2>1. UNCHANGED <<work, waiters, ready, born>>
      BY <1>2 DEF DrainNotice, AppendLands
    <2>2. CASE \E t \in Tasks : stampNotified(t)
      BY <2>1, <2>2, StampKeepsWaits
    <2>3. CASE UNCHANGED <<live, chain>>
      BY <2>1, <2>3 DEF WaitInv, Settled
    <2>4. /\ bus # <<>> => Head(bus) \in Tasks
          /\ outbox # <<>> => Head(outbox) \in Tasks
      BY TypedParts DEF Parts, TalkTypes
    <2>. QED
      BY <1>2, <2>2, <2>3, <2>4 DEF DrainNotice, AppendLands
  <1>. QED
    BY <1>1, <1>2

(* A process that goes takes its waits along. *)
LEMMA ProcessKeepsWaits ==
    ASSUME TypeOK, WaitInv, crash \/ closeSession \/ Reopen
    PROVE  WaitInv'
  <1>1. CASE crash \/ closeSession
    BY <1>1 DEF crash, closeSession, Clears, Each, NoEntry, WaitInv, Foreground
  <1>2. CASE Reopen
    BY <1>2 DEF Reopen, managerVars, storeVars, WaitInv, Settled
  <1>. QED
    BY <1>1, <1>2

(* Every step keeps the invariant of the waits. *)
LEMMA WaitInductive == TypeOK /\ WaitInv /\ [Next]_vars => WaitInv'
  <1>. SUFFICES ASSUME TypeOK, WaitInv, [Next]_vars PROVE WaitInv'
    OBVIOUS
  <1>1. CASE UNCHANGED vars
    BY <1>1 DEF vars, managerVars, storeVars, WaitInv, Settled
  <1>. QED
    BY <1>1, TaskKeepsWaits, ReconcileKeepsWaits, WriteKeepsWaits, TalkKeepsWaits,
       ProcessKeepsWaits DEF Next

(* A wait() for a task is answered by the end of the task: none is left once
   its effects have fired, in whatever order kills, settlements, writes and
   waits come (manager.ts:1128-1190). *)
THEOREM NobodyIsLeftWaiting == Spec => []NobodyWaitsForTheEnded
  <1>1. WaitInv => NobodyWaitsForTheEnded
    BY DEF WaitInv, NobodyWaitsForTheEnded
  <1>. QED
    BY <1>1, WaitInit, WaitInductive, TypeCorrect, PTL DEF Spec

---------------------------------------------------------------------------
(* The records keep their ledger.                                          *)

(* What this process takes for the record of a task. *)
Latest(t) == IF live[t].st # "none" THEN toPersisted(live[t]) ELSE ghosts[t]

(* A record and one that may replace it. *)
Follows(a, b) ==
    \/ b = a
    \/ a = NoRecord /\ b = [NoRecord EXCEPT !.st = "running"]
    \/ a.st = "running" /\ \E s \in TERMINAL : b = [a EXCEPT !.st = s]
    \/ a.st \in TERMINAL /\ b = [a EXCEPT !.q = TRUE]
    \/ a.q /\ b = [a EXCEPT !.n = TRUE]

(* The writes of a task that wait lead, one after another, from its record on
   disk to the latest. *)
InLine(t) ==
    /\ \A i, j \in 1..Len(chain) :
          (/\ i < j /\ chain[i].task = t /\ chain[j].task = t
           /\ \A k \in 1..Len(chain) : i < k /\ k < j => chain[k].task # t)
             => Follows(chain[i].rec, chain[j].rec)
    /\ \A j \in 1..Len(chain) :
          (chain[j].task = t /\ \A k \in 1..Len(chain) : k < j => chain[k].task # t)
             => Follows(disk[t], chain[j].rec)
    /\ \A j \in 1..Len(chain) :
          (chain[j].task = t /\ \A k \in 1..Len(chain) : j < k => chain[k].task # t)
             => chain[j].rec = Latest(t)
    /\ up /\ (\A k \in 1..Len(chain) : chain[k].task # t) => disk[t] = Latest(t)

(* A record calls a notice delivered only if it is, or the mode trusts. *)
Known(t, r) == r.n => told[t] > 0 \/ scene.mode = "immediate"

Knowing(t) ==
    /\ Known(t, disk[t]) /\ Known(t, Latest(t))
    /\ \A j \in 1..Len(chain) : chain[j].task = t => Known(t, chain[j].rec)

(* Without a process nothing is under way. *)
Down ==
    ~up => /\ chain = <<>> /\ bus = <<>> /\ outbox = <<>>
           /\ \A t \in Tasks : /\ live[t].st = "none" /\ ghosts[t] = NoRecord
                               /\ work[t] \notin Foreground
           /\ \A c \in Callers : walk[c].todo = {} /\ walk[c].at = {}

(* A task of this process is no ghost, and one that never was has no record. *)
Apart ==
    /\ \A t \in Tasks : work[t] \in Foreground \/ live[t].st # "none" => ghosts[t] = NoRecord
    /\ \A t \in Tasks : t \notin born =>
          ghosts[t] = NoRecord /\ disk[t] = NoRecord /\ strays[t] = "none"
    /\ \A i \in 1..Len(chain) : chain[i].rec.st # "none" /\ chain[i].task \in born

(* A notice is under way only if the record says that it was queued. *)
Underway == {bus[i] : i \in 1..Len(bus)} \union {outbox[i] : i \in 1..Len(outbox)}
Noticed ==
    /\ \A t \in Underway : Latest(t).q
    /\ \A c \in Callers, t \in Tasks : walk[c].at = {t} => ghosts[t].st = "lost"

LinesHold == \A t \in Tasks : strays[t] = "none" => InLine(t) /\ Knowing(t)

(* A record owes a notice only of an end, and none is delivered that was not
   owed. *)
Sound(r) == (r.q => r.st \in TERMINAL) /\ (r.n => r.q)
Sounds ==
    /\ \A t \in Tasks : Sound(disk[t]) /\ Sound(Latest(t))
    /\ \A i \in 1..Len(chain) : Sound(chain[i].rec)

(* A later record of a task keeps the end and the delivery of an earlier one. *)
Under(a, b) == (a.st \in TERMINAL => b.st = a.st) /\ (a.n => b.n)
Climbs(t) ==
    /\ \A i \in 1..Len(chain) : chain[i].task = t =>
          Under(disk[t], chain[i].rec) /\ Under(chain[i].rec, Latest(t))
    /\ \A i, j \in 1..Len(chain) :
          i < j /\ chain[i].task = t /\ chain[j].task = t => Under(chain[i].rec, chain[j].rec)
    /\ up => /\ Under(disk[t], Latest(t))
             /\ Latest(t).st \in TERMINAL =>
                   \/ disk[t].st \in TERMINAL
                   \/ \E i \in 1..Len(chain) : chain[i].task = t /\ chain[i].rec.st \in TERMINAL
Climbing == \A t \in Tasks : strays[t] = "none" => Climbs(t)

(* The inductive invariant. *)
LedgerInv == LinesHold /\ Down /\ Apart /\ Noticed /\ Sounds /\ Climbing

(* There is nothing to keep in line at the beginning. *)
LEMMA LedgerInitially == Init => LedgerInv
  <1>. SUFFICES ASSUME Init PROVE LedgerInv
    OBVIOUS
  <1>1. \A t \in Tasks : live[t] = NoEntry /\ ghosts[t] = NoRecord /\ disk[t] = NoRecord
                         /\ work[t] = "none" /\ strays[t] = "none"
    BY DEF Init, Each
  <1>2. chain = <<>> /\ bus = <<>> /\ outbox = <<>> /\ \A c \in Callers : walk[c] = NoWalk
    BY DEF Init
  <1>3. \A t \in Tasks : Latest(t) = NoRecord /\ disk[t] = NoRecord
    BY <1>1 DEF Latest, NoEntry
  <1>4. LinesHold
    <2>1. Len(chain) = 0
      BY <1>2
    <2>2. \A t \in Tasks : InLine(t)
      BY <1>3, <2>1 DEF InLine
    <2>3. \A t \in Tasks : Knowing(t)
      BY <1>3, <2>1 DEF Knowing, Known, NoRecord
    <2>. QED
      BY <2>2, <2>3 DEF LinesHold
  <1>5. Down /\ Apart
    BY <1>1, <1>2 DEF Down, Apart, NoEntry, NoWalk, Foreground
  <1>6. Noticed
    BY <1>1, <1>2 DEF Noticed, NoWalk, Underway
  <1>7. Sounds /\ Climbing
    <2>1. Len(chain) = 0
      BY <1>2
    <2>2. Sound(NoRecord) /\ Under(NoRecord, NoRecord) /\ NoRecord.st \notin TERMINAL
      BY DEF Sound, Under, NoRecord, TERMINAL
    <2>3. \A t \in Tasks : Climbs(t)
      BY <1>3, <2>1, <2>2 DEF Climbs
    <2>. QED
      BY <1>3, <2>1, <2>2, <2>3 DEF Sounds, Climbing
  <1>. QED
    BY <1>4, <1>5, <1>6, <1>7 DEF LedgerInv

(* Where neither the queue nor a record changes, the lines stay. *)
LEMMA LinesStay ==
    ASSUME LinesHold, UNCHANGED <<chain, up, scene>>,
           \A t \in Tasks : strays'[t] = "none" =>
               /\ strays[t] = "none" /\ disk'[t] = disk[t] /\ Latest(t)' = Latest(t)
               /\ told[t] > 0 => told'[t] > 0
    PROVE  LinesHold'
  <1>. SUFFICES ASSUME NEW t \in Tasks, strays'[t] = "none" PROVE InLine(t)' /\ Knowing(t)'
    BY DEF LinesHold
  <1>1. InLine(t) /\ Knowing(t)
    BY DEF LinesHold
  <1>2. InLine(t)'
    BY <1>1 DEF InLine
  <1>3. Knowing(t)'
    BY <1>1 DEF Knowing, Known
  <1>. QED
    BY <1>2, <1>3

(* What a manager holds of a task has the type of a record. *)
LEMMA LatestTyped ==
    ASSUME TypeOK, NEW t \in Tasks
    PROVE  /\ Latest(t) \in Records /\ live[t] \in Entries /\ ghosts[t] \in Records
           /\ toPersisted(live[t]) \in Records
  <1>1. live[t] \in Entries /\ ghosts[t] \in Records
    BY TypedParts DEF Parts, ManagerTypes, LedgerTypes
  <1>2. toPersisted(live[t]) \in Records
    BY <1>1, EntryTypes
  <1>. QED
    BY <1>1, <1>2 DEF Latest

(* A write is queued with a record that may follow the latest. *)
LEMMA LinesGrow ==
    ASSUME TypeOK, LinesHold, up, UNCHANGED <<up, scene, disk, strays>>,
           NEW u \in Tasks, NEW rec \in Records, NEW then \in Thens,
           chain' = Queued(u, rec, then),
           Latest(u)' = rec, Follows(Latest(u), rec),
           rec.n => Latest(u).n \/ told'[u] > 0 \/ scene.mode = "immediate",
           \A t \in Tasks : t # u => Latest(t)' = Latest(t),
           \A t \in Tasks : told[t] > 0 => told'[t] > 0
    PROVE  LinesHold'
  <1>. SUFFICES ASSUME NEW t \in Tasks, strays[t] = "none" PROVE InLine(t)' /\ Knowing(t)'
    BY DEF LinesHold
  <1>. DEFINE n == Len(chain)
  <1>0. chain \in Seq(Writes)
    BY TypedParts DEF Parts, StoreTypes
  <1>1. /\ n \in Nat /\ Len(chain') = n + 1
        /\ \A i \in 1..n : chain'[i] = chain[i]
        /\ chain'[n + 1].task = u /\ chain'[n + 1].rec = rec
    <2>1. /\ chain' = Queued(u, rec, then)
          /\ Queued(u, rec, then)[Len(chain) + 1] = [task |-> u, rec |-> rec, then |-> then]
          /\ Len(Queued(u, rec, then)) = Len(chain) + 1
          /\ \A i \in 1..Len(chain) : Queued(u, rec, then)[i] = chain[i]
      BY <1>0, QueueTypes
    <2>2. Len(chain) \in Nat
      BY <1>0
    <2>. QED
      BY <2>1, <2>2
  <1>2. InLine(t) /\ Knowing(t)
    BY DEF LinesHold
  <1>. HIDE DEF n
  <1>5. /\ disk[t] \in Records /\ Latest(t) \in Records
        /\ \A i \in 1..n : chain[i].rec \in Records
    <2>1. \A i \in 1..n : chain[i] \in Writes
      BY <1>0 DEF n
    <2>2. disk[t] \in Records
      BY TypedParts DEF Parts, StoreTypes
    <2>. QED
      BY <2>1, <2>2, LatestTyped DEF Writes
  <1>3. Knowing(t)'
    <2>1. \A r \in Records : Known(t, r) => (r.n => told'[t] > 0 \/ scene.mode = "immediate")
      BY DEF Known
    <2>2. t = u => Known(t, rec)'
      BY <1>2, <1>5, <2>1 DEF Knowing, Known
    <2>3. Known(t, disk[t])' /\ Known(t, Latest(t))'
      <3>1. CASE t = u
        BY <1>2, <1>5, <2>1, <2>2, <3>1 DEF Knowing, Known
      <3>2. CASE t # u
        BY <1>2, <1>5, <2>1, <3>2 DEF Knowing, Known
      <3>. QED
        BY <3>1, <3>2
    <2>4. ASSUME NEW j \in 1..Len(chain'), chain'[j].task = t PROVE Known(t, chain[j].rec)'
      <3>1. CASE j \in 1..n
        <4>1. chain'[j] = chain[j] /\ Known(t, chain[j].rec)
          BY <1>1, <1>2, <2>4, <3>1 DEF Knowing, n
        <4>. QED
          BY <1>5, <2>1, <3>1, <4>1 DEF Known
      <3>2. CASE j = n + 1
        BY <1>1, <2>2, <2>4, <3>2 DEF Known
      <3>. QED
        BY <1>1, <3>1, <3>2
    <2>. QED
      BY <2>3, <2>4 DEF Knowing, Known
  <1>4. InLine(t)'
    <2>1. CASE t # u
      <3>1. \A i \in 1..Len(chain') : chain'[i].task = t => i \in 1..n
        BY <1>1, <2>1
      <3>2. \A i \in 1..n : i \in 1..Len(chain')
        BY <1>1
      <3>3. Latest(t)' = Latest(t) /\ disk' = disk /\ up' = up
        BY <2>1
      <3>4. ASSUME NEW i \in 1..Len(chain'), NEW j \in 1..Len(chain'), i < j,
                   chain'[i].task = t, chain'[j].task = t,
                   \A k \in 1..Len(chain') : i < k /\ k < j => chain'[k].task # t
            PROVE  Follows(chain'[i].rec, chain'[j].rec)
        <4>1. i \in 1..n /\ j \in 1..n /\ chain[i].task = t /\ chain[j].task = t
          BY <1>1, <3>1, <3>4
        <4>2. \A k \in 1..n : i < k /\ k < j => chain[k].task # t
          BY <1>1, <3>2, <3>4
        <4>3. Follows(chain[i].rec, chain[j].rec)
          BY <1>2, <3>4, <4>1, <4>2 DEF InLine, n
        <4>. QED
          BY <1>1, <4>1, <4>3
      <3>5. ASSUME NEW j \in 1..Len(chain'), chain'[j].task = t
            PROVE  /\ (\A k \in 1..Len(chain') : k < j => chain'[k].task # t)
                          => Follows(disk[t], chain'[j].rec)
                   /\ (\A k \in 1..Len(chain') : j < k => chain'[k].task # t)
                          => chain'[j].rec = Latest(t)
        <4>1. j \in 1..n /\ chain[j] = chain'[j] /\ chain[j].task = t
          BY <1>1, <3>1, <3>5
        <4>2. \A k \in 1..n : chain[k] = chain'[k] /\ k \in 1..Len(chain')
          BY <1>1, <3>2
        <4>. QED
          BY <1>2, <4>1, <4>2 DEF InLine, n
      <3>6. (\A k \in 1..Len(chain') : chain'[k].task # t)
                => \A k \in 1..n : chain[k].task # t
        BY <1>1, <3>2
      <3>7. up /\ (\A k \in 1..Len(chain') : chain'[k].task # t) => disk[t] = Latest(t)
        BY <1>2, <3>6 DEF InLine, n
      <3>. QED
        BY <3>3, <3>4, <3>5, <3>7 DEF InLine
    <2>2. CASE t = u
      <3>1. ASSUME NEW i \in 1..Len(chain'), NEW j \in 1..Len(chain'), i < j,
                   chain'[i].task = t, chain'[j].task = t,
                   \A k \in 1..Len(chain') : i < k /\ k < j => chain'[k].task # t
            PROVE  Follows(chain'[i].rec, chain'[j].rec)
        <4>1. i \in 1..n
          BY <1>1, <3>1
        <4>2. CASE j \in 1..n
          BY <1>1, <1>2, <3>1, <4>1, <4>2 DEF InLine, n
        <4>3. CASE j = n + 1
          <5>1. \A k \in 1..n : i < k => chain[k].task # t
            BY <1>1, <3>1, <4>3
          <5>2. chain[i].rec = Latest(t)
            BY <1>1, <1>2, <3>1, <4>1, <5>1 DEF InLine, n
          <5>. QED
            BY <1>1, <2>2, <4>1, <4>3, <5>2
        <4>. QED
          BY <1>1, <4>2, <4>3
      <3>2. ASSUME NEW j \in 1..Len(chain'), chain'[j].task = t,
                   \A k \in 1..Len(chain') : k < j => chain'[k].task # t
            PROVE  Follows(disk[t], chain'[j].rec)
        <4>1. CASE j \in 1..n
          <5>1. \A k \in 1..n : k < j => chain[k].task # t
            BY <1>1, <3>2
          <5>. QED
            BY <1>1, <1>2, <3>2, <4>1, <5>1 DEF InLine, n
        <4>2. CASE j = n + 1
          <5>1. \A k \in 1..n : chain[k].task # t
            BY <1>1, <3>2, <4>2
          <5>2. disk[t] = Latest(t)
            BY <1>2, <5>1 DEF InLine, n
          <5>. QED
            BY <1>1, <2>2, <4>2, <5>2
        <4>. QED
          BY <1>1, <4>1, <4>2
      <3>3. ASSUME NEW j \in 1..Len(chain'), chain'[j].task = t,
                   \A k \in 1..Len(chain') : j < k => chain'[k].task # t
            PROVE  chain'[j].rec = rec
        <4>1. n + 1 \in 1..Len(chain') /\ chain'[n + 1].task = t
          BY <1>1, <2>2
        <4>2. j = n + 1
          BY <1>1, <3>3, <4>1
        <4>. QED
          BY <1>1, <4>2
      <3>4. ~ \A k \in 1..Len(chain') : chain'[k].task # t
        BY <1>1, <2>2
      <3>. QED
        BY <2>2, <3>1, <3>2, <3>3, <3>4 DEF InLine
    <2>. QED
      BY <2>1, <2>2
  <1>. QED
    BY <1>3, <1>4

(* The first write lands. *)
LEMMA LinesShrink ==
    ASSUME TypeOK, LinesHold, writeTask
    PROVE  LinesHold'
  <1>. SUFFICES ASSUME NEW t \in Tasks, strays[t] = "none" PROVE InLine(t)' /\ Knowing(t)'
    BY DEF LinesHold, writeTask
  <1>0. chain \in Seq(Writes) /\ chain # <<>> /\ disk \in [Tasks -> Records]
    BY TypedParts DEF Parts, StoreTypes, writeTask
  <1>. DEFINE n == Len(chain)
              w == chain[1]
  <1>1. /\ n \in Nat \ {0} /\ Len(chain') = n - 1
        /\ \A i \in 1..n : chain[i] \in Writes
        /\ \A i \in 1..n-1 : i + 1 \in 1..n /\ chain'[i] = chain[i + 1]
    <2>1. chain' = Tail(chain)
      BY DEF writeTask
    <2>. QED
      BY <1>0, <2>1
  <1>2. w.task \in Tasks /\ w.rec \in Records /\ disk' = [disk EXCEPT ![w.task] = w.rec]
    <2>1. w \in Writes /\ Head(chain) = w
      BY <1>0, <1>1
    <2>. QED
      BY <2>1 DEF writeTask, Writes
  <1>. HIDE DEF n
  <1>3. disk'[t] = IF w.task = t THEN w.rec ELSE disk[t]
    BY <1>0, <1>2
  <1>4. Latest(t)' = Latest(t) /\ UNCHANGED <<up, told, scene>>
    BY DEF writeTask, Latest, toPersisted, managerVars, ledgerVars, talkVars, boundVars
  <1>5. InLine(t) /\ Knowing(t)
    BY DEF LinesHold
  <1>6. 1 \in 1..n /\ \A k \in 2..n : k - 1 \in 1..n-1 /\ chain'[k - 1] = chain[k]
    BY <1>1
  <1>7. Knowing(t)'
    <2>1. Known(t, disk'[t])
      BY <1>1, <1>3, <1>5, <1>6 DEF Knowing, n
    <2>2. Known(t, Latest(t)')
      BY <1>4, <1>5 DEF Knowing
    <2>3. \A j \in 1..n-1 : chain'[j].task = t => Known(t, chain'[j].rec)
      BY <1>1, <1>5 DEF Knowing, n
    <2>. QED
      BY <1>1, <1>4, <2>1, <2>2, <2>3 DEF Knowing, Known
  <1>8. ASSUME NEW i \in 1..n-1, NEW j \in 1..n-1, i < j,
               chain'[i].task = t, chain'[j].task = t,
               \A k \in 1..n-1 : i < k /\ k < j => chain'[k].task # t
        PROVE  Follows(chain'[i].rec, chain'[j].rec)
    <2>1. /\ i + 1 \in 1..n /\ j + 1 \in 1..n /\ i + 1 < j + 1
          /\ chain[i + 1].task = t /\ chain[j + 1].task = t
      BY <1>1, <1>8
    <2>2. \A k \in 1..n : i + 1 < k /\ k < j + 1 => chain[k].task # t
      <3>1. SUFFICES ASSUME NEW k \in 1..n, i + 1 < k, k < j + 1 PROVE chain[k].task # t
        OBVIOUS
      <3>2. k \in 2..n /\ k - 1 \in 1..n-1 /\ i < k - 1 /\ k - 1 < j
        BY <1>1, <3>1
      <3>. QED
        BY <1>6, <1>8, <3>2
    <2>3. Follows(chain[i + 1].rec, chain[j + 1].rec)
      BY <1>5, <2>1, <2>2 DEF InLine, n
    <2>. QED
      BY <1>1, <2>3
  <1>9. ASSUME NEW j \in 1..n-1, chain'[j].task = t,
               \A k \in 1..n-1 : k < j => chain'[k].task # t
        PROVE  Follows(disk'[t], chain'[j].rec)
    <2>0. j + 1 \in 1..n /\ chain[j + 1].task = t /\ chain[j + 1] = chain'[j]
      BY <1>1, <1>9
    <2>1. \A k \in 1..n : 1 < k /\ k < j + 1 => chain[k].task # t
      <3>1. SUFFICES ASSUME NEW k \in 1..n, 1 < k, k < j + 1 PROVE chain[k].task # t
        OBVIOUS
      <3>2. k \in 2..n /\ k - 1 \in 1..n-1 /\ k - 1 < j
        BY <1>1, <3>1
      <3>. QED
        BY <1>6, <1>9, <3>2
    <2>2. CASE w.task = t
      <3>1. 1 < j + 1
        OBVIOUS
      <3>2. Follows(w.rec, chain[j + 1].rec)
        BY <1>5, <1>6, <2>0, <2>1, <2>2, <3>1 DEF InLine, n
      <3>. QED
        BY <1>3, <2>0, <2>2, <3>2
    <2>3. CASE w.task # t
      <3>1. \A k \in 1..n : k < j + 1 => chain[k].task # t
        BY <1>1, <2>1, <2>3
      <3>2. Follows(disk[t], chain[j + 1].rec)
        BY <1>5, <2>0, <3>1 DEF InLine, n
      <3>. QED
        BY <1>3, <2>0, <2>3, <3>2
    <2>. QED
      BY <2>2, <2>3
  <1>10. ASSUME NEW j \in 1..n-1, chain'[j].task = t,
                \A k \in 1..n-1 : j < k => chain'[k].task # t
         PROVE  chain'[j].rec = Latest(t)
    <2>0. j + 1 \in 1..n /\ chain[j + 1].task = t /\ chain[j + 1] = chain'[j]
      BY <1>1, <1>10
    <2>1. \A k \in 1..n : j + 1 < k => chain[k].task # t
      <3>1. SUFFICES ASSUME NEW k \in 1..n, j + 1 < k PROVE chain[k].task # t
        OBVIOUS
      <3>2. k \in 2..n /\ k - 1 \in 1..n-1 /\ j < k - 1
        BY <1>1, <3>1
      <3>. QED
        BY <1>6, <1>10, <3>2
    <2>. QED
      BY <1>5, <2>0, <2>1 DEF InLine, n
  <1>11. ASSUME up, \A k \in 1..n-1 : chain'[k].task # t
         PROVE  disk'[t] = Latest(t)
    <2>1. \A k \in 1..n : 1 < k => chain[k].task # t
      <3>1. SUFFICES ASSUME NEW k \in 1..n, 1 < k PROVE chain[k].task # t
        OBVIOUS
      <3>2. k \in 2..n /\ k - 1 \in 1..n-1
        BY <1>1, <3>1
      <3>. QED
        BY <1>6, <1>11, <3>2
    <2>2. CASE w.task = t
      BY <1>3, <1>5, <1>6, <2>1, <2>2 DEF InLine, n
    <2>3. CASE w.task # t
      <3>1. \A k \in 1..n : chain[k].task # t
        BY <1>1, <2>1, <2>3
      <3>. QED
        BY <1>3, <1>5, <1>11, <2>3, <3>1 DEF InLine, n
    <2>. QED
      BY <2>2, <2>3
  <1>12. InLine(t)'
    BY <1>1, <1>4, <1>8, <1>9, <1>10, <1>11 DEF InLine
  <1>. QED
    BY <1>7, <1>12

(* A process that goes leaves what is on disk, and one that comes takes that
   for the latest. *)
LEMMA LinesRestart ==
    ASSUME TypeOK, LinesHold, Len(chain') = 0, UNCHANGED <<disk, told, scene>>,
           \A t \in Tasks : strays'[t] = "none" => strays[t] = "none",
           \A t \in Tasks : Latest(t)' = IF up' THEN disk[t] ELSE NoRecord
    PROVE  LinesHold'
  <1>. SUFFICES ASSUME NEW t \in Tasks, strays'[t] = "none" PROVE InLine(t)' /\ Knowing(t)'
    BY DEF LinesHold
  <1>1. Known(t, disk[t])
    BY DEF LinesHold, Knowing
  <1>2. disk[t] = disk'[t]
    OBVIOUS
  <1>3. Knowing(t)'
    <2>1. ~NoRecord.n
      BY DEF NoRecord
    <2>2. Known(t, NoRecord)
      BY <2>1 DEF Known
    <2>3. Known(t, Latest(t)')
      BY <1>1, <2>2
    <2>. QED
      BY <1>1, <2>3 DEF Knowing, Known
  <1>4. InLine(t)'
    <2>1. up' => Latest(t)' = disk[t]
      OBVIOUS
    <2>. QED
      BY <1>2, <2>1 DEF InLine
  <1>. QED
    BY <1>3, <1>4

(* A record that may replace one is over it, and sound if it is. *)
LEMMA FollowsClimbs ==
    ASSUME NEW a \in Records, NEW b \in Records, Follows(a, b), Sound(a)
    PROVE  Under(a, b) /\ Sound(b)
  BY DEF Follows, Under, Sound, Records, NoRecord, TERMINAL

(* Where neither the queue nor a record changes, nothing falls back. *)
LEMMA ClimbingStays ==
    ASSUME Sounds, Climbing, UNCHANGED <<chain, up>>,
           \A t \in Tasks : /\ Latest(t)' = Latest(t)
                            /\ disk'[t] = disk[t] \/ (strays'[t] # "none" /\ Sound(disk'[t]))
                            /\ strays'[t] = "none" => strays[t] = "none"
    PROVE  Sounds' /\ Climbing'
  <1>1. Sounds'
    BY DEF Sounds, Sound
  <1>2. Climbing'
    <2>. SUFFICES ASSUME NEW t \in Tasks, strays'[t] = "none" PROVE Climbs(t)'
      BY DEF Climbing
    <2>1. Climbs(t) /\ disk'[t] = disk[t] /\ Latest(t)' = Latest(t)
      BY DEF Climbing
    <2>. QED
      BY <2>1 DEF Climbs, Under
  <1>. QED
    BY <1>1, <1>2

(* A write is queued with a record that follows the latest. *)
LEMMA ClimbingGrows ==
    ASSUME TypeOK, Sounds, Climbing, UNCHANGED <<up, disk, strays>>,
           NEW u \in Tasks, NEW rec \in Records, NEW then \in Thens,
           chain' = Queued(u, rec, then),
           Latest(u)' = rec, Follows(Latest(u), rec), up,
           \A t \in Tasks : t # u => Latest(t)' = Latest(t)
    PROVE  Sounds' /\ Climbing'
  <1>. DEFINE n == Len(chain)
  <1>0. chain \in Seq(Writes)
    BY TypedParts DEF Parts, StoreTypes
  <1>1. /\ n \in Nat /\ Len(chain') = n + 1
        /\ \A i \in 1..n : chain'[i] = chain[i] /\ chain[i].rec \in Records
        /\ chain'[n + 1].task = u /\ chain'[n + 1].rec = rec
    <2>1. /\ Queued(u, rec, then)[Len(chain) + 1] = [task |-> u, rec |-> rec, then |-> then]
          /\ Len(Queued(u, rec, then)) = Len(chain) + 1
          /\ \A i \in 1..Len(chain) : Queued(u, rec, then)[i] = chain[i]
      BY <1>0, QueueTypes
    <2>2. Len(chain) \in Nat /\ \A i \in 1..Len(chain) : chain[i] \in Writes
      BY <1>0
    <2>. QED
      BY <2>1, <2>2 DEF Writes
  <1>2. \A j \in 1..Len(chain') : j \in 1..n \/ j = n + 1
    BY <1>1
  <1>3. \A j \in 1..n : j \in 1..Len(chain') /\ j # n + 1 /\ j < n + 1
    BY <1>1
  <1>. HIDE DEF n
  <1>4. Latest(u) \in Records /\ Sound(Latest(u))
    BY LatestTyped DEF Sounds
  <1>5. Under(Latest(u), rec) /\ Sound(rec)
    BY <1>4, FollowsClimbs
  <1>6. Sounds'
    <2>1. \A t \in Tasks : Sound(disk'[t]) /\ Sound(Latest(t)')
      BY <1>5 DEF Sounds
    <2>2. \A j \in 1..Len(chain') : Sound(chain'[j].rec)
      BY <1>1, <1>2, <1>5 DEF Sounds, n
    <2>. QED
      BY <2>1, <2>2 DEF Sounds, Sound
  <1>7. ASSUME NEW t \in Tasks, strays[t] = "none" PROVE Climbs(t)'
    <2>1. Climbs(t)
      BY <1>7 DEF Climbing
    <2>2. disk[t] \in Records /\ Latest(t) \in Records /\ Latest(t)' \in Records
      <3>1. disk[t] \in Records
        BY TypedParts DEF Parts, StoreTypes
      <3>. QED
        BY <3>1, LatestTyped
    <2>3. \A a, b, c \in Records : Under(a, b) /\ Under(b, c) => Under(a, c)
      BY DEF Under
    <2>4. Under(Latest(t), Latest(t)')
      <3>1. Under(Latest(t), Latest(t))
        BY DEF Under
      <3>. QED
        BY <1>5, <3>1
    <2>5. Under(disk[t], Latest(t)')
      BY <2>1, <2>2, <2>3, <2>4 DEF Climbs
    <2>6. \A j \in 1..n : chain[j].task = t =>
              Under(disk[t], chain[j].rec) /\ Under(chain[j].rec, Latest(t)')
      BY <1>1, <2>1, <2>2, <2>3, <2>4 DEF Climbs, n
    <2>7. Under(rec, rec)
      BY DEF Under
    <2>8. \A j \in 1..Len(chain') : chain'[j].task = t =>
              Under(disk[t], chain'[j].rec) /\ Under(chain'[j].rec, Latest(t)')
      BY <1>1, <1>2, <2>5, <2>6, <2>7
    <2>9. \A i, j \in 1..Len(chain') : i < j /\ chain'[i].task = t /\ chain'[j].task = t
              => Under(chain'[i].rec, chain'[j].rec)
      <3>. SUFFICES ASSUME NEW i \in 1..Len(chain'), NEW j \in 1..Len(chain'), i < j,
                           chain'[i].task = t, chain'[j].task = t
                    PROVE  Under(chain'[i].rec, chain'[j].rec)
        OBVIOUS
      <3>1. i \in 1..n
        BY <1>1, <1>2
      <3>2. CASE j \in 1..n
        BY <1>1, <2>1, <3>1, <3>2 DEF Climbs, n
      <3>3. CASE j = n + 1
        BY <1>1, <2>6, <3>1, <3>3
      <3>. QED
        BY <1>2, <3>2, <3>3
    <2>10. Latest(t)'.st \in TERMINAL =>
               \/ disk[t].st \in TERMINAL
               \/ \E i \in 1..Len(chain') : chain'[i].task = t /\ chain'[i].rec.st \in TERMINAL
      <3>1. CASE t = u
        BY <1>1, <3>1
      <3>2. CASE t # u
        BY <1>1, <1>3, <2>1, <3>2 DEF Climbs, n
      <3>. QED
        BY <3>1, <3>2
    <2>. QED
      BY <2>5, <2>8, <2>9, <2>10 DEF Climbs, Under
  <1>. QED
    BY <1>6, <1>7 DEF Climbing

(* The first write lands. *)
LEMMA ClimbingShrinks ==
    ASSUME TypeOK, Sounds, Climbing, writeTask
    PROVE  Sounds' /\ Climbing'
  <1>0. chain \in Seq(Writes) /\ chain # <<>> /\ disk \in [Tasks -> Records]
    BY TypedParts DEF Parts, StoreTypes, writeTask
  <1>. DEFINE n == Len(chain)
              w == chain[1]
  <1>1. /\ n \in Nat \ {0} /\ Len(chain') = n - 1
        /\ \A i \in 1..n : chain[i] \in Writes
        /\ \A i \in 1..n-1 : i + 1 \in 1..n /\ chain'[i] = chain[i + 1]
    <2>1. chain' = Tail(chain)
      BY DEF writeTask
    <2>. QED
      BY <1>0, <2>1
  <1>2. w.task \in Tasks /\ w.rec \in Records /\ disk' = [disk EXCEPT ![w.task] = w.rec]
    <2>1. w \in Writes /\ Head(chain) = w
      BY <1>0, <1>1
    <2>. QED
      BY <2>1 DEF writeTask, Writes
  <1>6. 1 \in 1..n /\ \A k \in 2..n : k - 1 \in 1..n-1 /\ chain'[k - 1] = chain[k]
    BY <1>1
  <1>7. \A i \in 1..n : i = 1 \/ i \in 2..n
    BY <1>1
  <1>8. \A i \in 1..n-1 : 1 < i + 1 /\ \A j \in 1..n-1 : i < j => i + 1 < j + 1
    BY <1>1
  <1>. HIDE DEF n
  <1>3. \A t \in Tasks : disk'[t] = IF w.task = t THEN w.rec ELSE disk[t]
    BY <1>0, <1>2
  <1>4. (\A t \in Tasks : Latest(t)' = Latest(t)) /\ UNCHANGED <<up, strays>>
    BY DEF writeTask, Latest, toPersisted, managerVars, ledgerVars
  <1>5. Sounds'
    <2>1. \A t \in Tasks : Sound(disk'[t]) /\ Sound(Latest(t)')
      BY <1>3, <1>4, <1>6 DEF Sounds, n
    <2>2. \A j \in 1..n-1 : Sound(chain'[j].rec)
      BY <1>1 DEF Sounds, n
    <2>. QED
      BY <1>1, <2>1, <2>2 DEF Sounds, Sound
  <1>9. ASSUME NEW t \in Tasks, strays[t] = "none" PROVE Climbs(t)'
    <2>1. Climbs(t) /\ Latest(t)' = Latest(t)
      BY <1>4, <1>9 DEF Climbing
    <2>2. \A i, j \in 1..n-1 : i < j /\ chain'[i].task = t /\ chain'[j].task = t
              => Under(chain'[i].rec, chain'[j].rec)
      BY <1>1, <1>8, <2>1 DEF Climbs, n
    <2>3. \A j \in 1..n-1 : chain'[j].task = t =>
              Under(disk'[t], chain'[j].rec) /\ Under(chain'[j].rec, Latest(t))
      BY <1>1, <1>3, <1>6, <1>8, <2>1 DEF Climbs, n
    <2>4. up => Under(disk'[t], Latest(t))
      BY <1>3, <1>6, <2>1 DEF Climbs, n
    <2>5. ASSUME up, Latest(t).st \in TERMINAL, disk'[t].st \notin TERMINAL
          PROVE  \E i \in 1..n-1 : chain'[i].task = t /\ chain'[i].rec.st \in TERMINAL
      <3>1. disk[t].st \notin TERMINAL
        BY <1>3, <1>6, <2>1, <2>5 DEF Climbs, Under, n
      <3>2. PICK i \in 1..n : chain[i].task = t /\ chain[i].rec.st \in TERMINAL
        BY <2>1, <2>5, <3>1 DEF Climbs, n
      <3>3. i # 1
        BY <1>3, <2>5, <3>2
      <3>. QED
        BY <1>6, <1>7, <3>2, <3>3
    <2>. QED
      BY <1>1, <1>4, <2>1, <2>2, <2>3, <2>4, <2>5 DEF Climbs, Under
  <1>. QED
    BY <1>4, <1>5, <1>9 DEF Climbing

(* A process that goes, and one that comes. *)
LEMMA ClimbingRestarts ==
    ASSUME Sounds, Len(chain') = 0, disk' = disk,
           \A t \in Tasks : Latest(t)' = IF up' THEN disk[t] ELSE NoRecord
    PROVE  Sounds' /\ Climbing'
  <1>1. Sound(NoRecord)
    BY DEF Sound, NoRecord
  <1>2. \A t \in Tasks : Sound(disk'[t]) /\ Sound(Latest(t)')
    BY <1>1 DEF Sounds
  <1>3. ASSUME NEW t \in Tasks PROVE Climbs(t)'
    <2>1. up' => Latest(t)' = disk[t] /\ Under(disk[t], disk[t])
      BY DEF Under
    <2>. QED
      BY <2>1 DEF Climbs, Under
  <1>. QED
    BY <1>2, <1>3 DEF Sounds, Climbing, Sound

(* A notice that is queued is under way. *)
LEMMA NoticeQueued ==
    ASSUME TypeOK, NEW t \in Tasks, bus' = Append(bus, t), outbox' = outbox
    PROVE  Underway' \subseteq Underway \union {t}
  <1>1. bus \in Seq(Tasks)
    BY TypedParts DEF Parts, TalkTypes
  <1>2. Len(bus') = Len(bus) + 1 /\ bus'[Len(bus) + 1] = t
        /\ \A i \in 1..Len(bus) : bus'[i] = bus[i]
    BY <1>1
  <1>3. \A i \in 1..Len(bus') : i \in 1..Len(bus) \/ i = Len(bus) + 1
    BY <1>1, <1>2
  <1>. QED
    BY <1>2, <1>3 DEF Underway

(* A notice that is drained stays under way, *)
LEMMA NoticeDrained ==
    ASSUME TypeOK, bus # <<>>, bus' = Tail(bus), outbox' = Append(outbox, Head(bus))
    PROVE  Head(bus) \in Tasks \intersect Underway /\ Underway' \subseteq Underway
  <1>1. bus \in Seq(Tasks) /\ outbox \in Seq(Tasks)
    BY TypedParts DEF Parts, TalkTypes
  <1>2. Head(bus) \in Tasks /\ Head(bus) = bus[1] /\ 1 \in 1..Len(bus)
    BY <1>1
  <1>3. Len(outbox') = Len(outbox) + 1 /\ outbox'[Len(outbox) + 1] = Head(bus)
        /\ \A i \in 1..Len(outbox) : outbox'[i] = outbox[i]
    BY <1>1, <1>2
  <1>4. \A i \in 1..Len(outbox') : i \in 1..Len(outbox) \/ i = Len(outbox) + 1
    BY <1>1, <1>3
  <1>5. \A i \in 1..Len(bus') : i + 1 \in 1..Len(bus) /\ bus'[i] = bus[i + 1]
    BY <1>1
  <1>. QED
    BY <1>2, <1>3, <1>4, <1>5 DEF Underway

(* and one that is appended is no longer. *)
LEMMA NoticeAppended ==
    ASSUME TypeOK, outbox # <<>>, outbox' = Tail(outbox), bus' = bus
    PROVE  Head(outbox) \in Tasks \intersect Underway /\ Underway' \subseteq Underway
  <1>1. outbox \in Seq(Tasks)
    BY TypedParts DEF Parts, TalkTypes
  <1>2. Head(outbox) \in Tasks /\ Head(outbox) = outbox[1] /\ 1 \in 1..Len(outbox)
    BY <1>1
  <1>3. \A i \in 1..Len(outbox') : i + 1 \in 1..Len(outbox) /\ outbox'[i] = outbox[i + 1]
    BY <1>1
  <1>. QED
    BY <1>2, <1>3 DEF Underway

(* What is under way is so for tasks. *)
LEMMA UnderwayTyped == TypeOK => Underway \subseteq Tasks
  <1>1. TypeOK => bus \in Seq(Tasks) /\ outbox \in Seq(Tasks)
    BY TypedParts DEF Parts, TalkTypes
  <1>. QED
    BY <1>1 DEF Underway

(* A step that queues a write and no more than that disturbs. *)
LEMMA WriteStep ==
    ASSUME TypeOK, LedgerInv, up, UNCHANGED <<up, scene, disk, strays>>,
           NEW u \in Tasks, NEW rec \in Records, NEW then \in Thens,
           chain' = Queued(u, rec, then), rec.st # "none", u \in born', born \subseteq born',
           Latest(u)' = rec, Follows(Latest(u), rec),
           rec.n => Latest(u).n \/ told'[u] > 0 \/ scene.mode = "immediate",
           \A t \in Tasks : t # u => Latest(t)' = Latest(t),
           \A t \in Tasks : told[t] > 0 => told'[t] > 0,
           \A t \in Tasks : /\ work'[t] \in Foreground \/ live'[t].st # "none"
                                  => ghosts'[t] = NoRecord
                            /\ ghosts[t] = NoRecord => ghosts'[t] = NoRecord
                            /\ ghosts[t].st = "lost" => ghosts'[t].st = "lost",
           Underway' \subseteq Underway \union (IF rec.q THEN {u} ELSE {}),
           \A c \in Callers, t \in Tasks :
               walk'[c].at = {t} => walk[c].at = {t} \/ ghosts'[t].st = "lost"
    PROVE  LedgerInv'
  <1>1. LinesHold'
    BY LinesGrow DEF LedgerInv
  <1>2. Down'
    BY DEF Down
  <1>3. Apart'
    <2>1. \A i \in 1..Len(chain') : chain'[i].rec.st # "none" /\ chain'[i].task \in born'
      <3>1. chain \in Seq(Writes)
        BY TypedParts DEF Parts, StoreTypes
      <3>2. \A i \in 1..Len(chain) : chain'[i] = chain[i]
        BY <3>1, QueueTypes
      <3>3. /\ Len(chain') = Len(chain) + 1
            /\ chain'[Len(chain) + 1] = [task |-> u, rec |-> rec, then |-> then]
        BY <3>1, QueueTypes
      <3>4. \A i \in 1..Len(chain') : i \in 1..Len(chain) \/ i = Len(chain) + 1
        BY <3>1, <3>3
      <3>. QED
        BY <3>2, <3>3, <3>4 DEF LedgerInv, Apart
    <2>. QED
      BY <2>1 DEF LedgerInv, Apart
  <1>4. Noticed'
    <2>1. \A t \in Tasks : Latest(t).q => Latest(t)'.q
      <3>1. Latest(u).q => rec.q
        BY LatestTyped DEF Follows, NoRecord, Records
      <3>. QED
        BY <3>1
    <2>2. ASSUME NEW t \in Underway' PROVE Latest(t)'.q
      BY <2>1, <2>2, UnderwayTyped DEF LedgerInv, Noticed
    <2>3. \A c \in Callers, t \in Tasks : walk'[c].at = {t} => ghosts'[t].st = "lost"
      BY DEF LedgerInv, Noticed
    <2>. QED
      BY <2>2, <2>3 DEF Noticed
  <1>5. Sounds' /\ Climbing'
    BY ClimbingGrows DEF LedgerInv
  <1>. QED
    BY <1>1, <1>2, <1>3, <1>4, <1>5 DEF LedgerInv

(* A step that queues none and changes no record. *)
LEMMA QuietStep ==
    ASSUME TypeOK, LedgerInv,
           UNCHANGED <<chain, up, scene, strays, disk, ghosts>>, born \subseteq born',
           \A t \in Tasks : /\ live'[t].st = live[t].st /\ live'[t].q = live[t].q
                            /\ live'[t].n = live[t].n
                            /\ told[t] > 0 => told'[t] > 0
                            /\ work'[t] \in Foreground
                                  => work[t] \in Foreground \/ (up /\ ghosts[t] = NoRecord),
           Underway' \subseteq Underway, ~up => bus' = <<>> /\ outbox' = <<>>,
           \A c \in Callers : ~up => walk'[c].todo = {} /\ walk'[c].at = {},
           \A c \in Callers, t \in Tasks :
               walk'[c].at = {t} => walk[c].at = {t} \/ ghosts[t].st = "lost"
    PROVE  LedgerInv'
  <1>1. \A t \in Tasks : Latest(t)' = Latest(t)
    BY DEF Latest, toPersisted
  <1>2. LinesHold'
    BY <1>1, LinesStay DEF LedgerInv
  <1>3. Down'
    BY DEF LedgerInv, Down
  <1>4. Apart'
    BY DEF LedgerInv, Apart
  <1>5. Noticed'
    BY <1>1, UnderwayTyped DEF LedgerInv, Noticed
  <1>6. Sounds' /\ Climbing'
    BY <1>1, ClimbingStays DEF LedgerInv
  <1>. QED
    BY <1>2, <1>3, <1>4, <1>5, <1>6 DEF LedgerInv

(* A record that differs from another by its status. *)
LEMMA RecordEnds ==
    ASSUME NEW r \in Records, NEW s \in Records, s.q <=> r.q, s.n <=> r.n
    PROVE  s = [r EXCEPT !.st = s.st]
  BY DEF Records

(* A record that differs from another by a flag that is set. *)
LEMMA RecordIs ==
    ASSUME NEW r \in Records, NEW s \in Records, s.st = r.st
    PROVE  /\ s.q /\ s.n = r.n => s = [r EXCEPT !.q = TRUE]
           /\ s.q = r.q /\ s.n => s = [r EXCEPT !.n = TRUE]
  BY DEF Records

(* The effects of an end: the record comes to say that a notice is owed. *)
LEMMA FireKeepsLedger ==
    ASSUME TypeOK, WaitInv, LedgerInv, NEW t \in Settled, fireTerminalEffects(t),
           UNCHANGED <<up, scene, disk, strays, ghosts, born, walk, outbox, told>>,
           \A u \in Tasks : work'[u] \in Foreground => work[u] \in Foreground
    PROVE  LedgerInv'
  <1>. DEFINE entry == [live[t] EXCEPT !.fired = TRUE, !.q = @ \/ ~live[t].quiet]
  <1>1. /\ live \in [Tasks -> Entries] /\ live[t] \in Entries /\ t \in Tasks
        /\ live[t].st \in {"ended", "killed"}
    BY TypedParts DEF Parts, ManagerTypes, Settled, Entries, Statuses, TERMINAL
  <1>2. up /\ ghosts[t] = NoRecord /\ t \in born
    BY <1>1 DEF LedgerInv, Down, Apart, WaitInv
  <1>3. CASE UNCHANGED <<live, bus, sent, chain>>
    <2>1. Underway' = Underway
      BY <1>3 DEF Underway
    <2>. QED
      BY <1>2, <1>3, <2>1, QuietStep
  <1>4. CASE live[t].quiet /\ live' = [live EXCEPT ![t] = entry] /\ UNCHANGED <<bus, chain>>
    <2>1. /\ entry.st = live[t].st /\ entry.n = live[t].n
          /\ entry.q = live[t].q
      BY <1>1, <1>4 DEF Entries
    <2>. HIDE DEF entry
    <2>2. \A u \in Tasks : live'[u].st = live[u].st /\ live'[u].q = live[u].q
                           /\ live'[u].n = live[u].n
      BY <1>1, <1>4, <2>1
    <2>3. Underway' = Underway
      BY <1>4 DEF Underway
    <2>. QED
      BY <1>2, <1>4, <2>2, <2>3, QuietStep
  <1>5. CASE /\ ~live[t].quiet /\ live' = [live EXCEPT ![t] = entry]
             /\ bus' = Append(bus, t) /\ chain' = Queued(t, toPersisted(entry), "none")
    <2>. DEFINE rec == toPersisted(entry)
    <2>1. entry.st = live[t].st /\ entry.n = live[t].n /\ entry.q = TRUE /\ entry \in Entries
      <3>1. entry.q = (live[t].q \/ ~live[t].quiet)
        BY <1>1 DEF Entries
      <3>2. entry.q = TRUE
        BY <1>5, <3>1
      <3>3. (live[t].q \/ ~live[t].quiet) \in BOOLEAN
        OBVIOUS
      <3>4. entry \in Entries
        BY <1>1, <3>3, EntryTypes
      <3>. QED
        BY <1>1, <3>2, <3>4 DEF Entries
    <2>. HIDE DEF entry
    <2>2. rec = [toPersisted(live[t]) EXCEPT !.q = TRUE] /\ rec \in Records
          /\ rec.st = live[t].st /\ rec.q /\ rec.n = live[t].n
      <3>1. rec \in Records /\ toPersisted(live[t]) \in Records
        BY <1>1, <2>1, EntryTypes
      <3>2. rec.st = live[t].st /\ rec.q /\ rec.n = live[t].n
        BY <2>1 DEF toPersisted
      <3>3. toPersisted(live[t]).st = live[t].st /\ toPersisted(live[t]).n = live[t].n
        BY DEF toPersisted
      <3>. HIDE DEF rec
      <3>. QED
        BY <3>1, <3>2, <3>3, RecordIs
    <2>3. live'[t] = entry /\ \A u \in Tasks : u # t => live'[u] = live[u]
      BY <1>1, <1>5
    <2>4. Latest(t)' = rec /\ Latest(t) = toPersisted(live[t])
      BY <1>1, <2>1, <2>3 DEF Latest, toPersisted
    <2>. HIDE DEF rec
    <2>5. \A u \in Tasks : u # t => Latest(u)' = Latest(u)
      BY <2>3 DEF Latest, toPersisted
    <2>6. Follows(Latest(t), rec) /\ (rec.n => Latest(t).n) /\ rec.st # "none"
      BY <1>1, <2>2, <2>4 DEF Follows, toPersisted, TERMINAL
    <2>7. \A u \in Tasks : work'[u] \in Foreground \/ live'[u].st # "none" => ghosts[u] = NoRecord
      BY <1>2, <2>3 DEF LedgerInv, Apart
    <2>8. Underway' \subseteq Underway \union (IF rec.q THEN {t} ELSE {})
      BY <1>1, <1>5, <2>2, NoticeQueued
    <2>9. chain' = Queued(t, rec, "none") /\ "none" \in Thens
      BY <1>5 DEF rec, Thens
    <2>. QED
      BY <1>1, <1>2, <2>2, <2>4, <2>5, <2>6, <2>7, <2>8, <2>9, WriteStep
  <1>. QED
    BY <1>3, <1>4, <1>5 DEF fireTerminalEffects

(* A settlement: the record gets its one terminal status. *)
LEMMA SettleKeepsLedger ==
    ASSUME TypeOK, WaitInv, LedgerInv, NEW t \in Tasks, NEW status \in {"ended", "killed"},
           settleTask(t, status),
           UNCHANGED <<up, scene, disk, strays, ghosts, born, walk, outbox, told>>,
           \A u \in Tasks : work'[u] \in Foreground => work[u] \in Foreground
    PROVE  LedgerInv'
  <1>1. live \in [Tasks -> Entries] /\ live[t] \in Entries
    BY TypedParts DEF Parts, ManagerTypes
  <1>2. CASE live[t].st = "running"
    <2>. DEFINE entry == [live[t] EXCEPT !.st = status]
                rec == toPersisted(entry)
    <2>1. live' = [live EXCEPT ![t] = entry] /\ chain' = Queued(t, rec, "fire") /\ bus' = bus
      BY <1>2 DEF settleTask
    <2>2. /\ entry.st = status /\ entry.n = live[t].n /\ entry.q = live[t].q
          /\ entry \in Entries
      BY <1>1, EntryTypes DEF Entries
    <2>. HIDE DEF entry
    <2>3. rec = [toPersisted(live[t]) EXCEPT !.st = status] /\ rec \in Records
          /\ rec.st = status /\ rec.q = live[t].q /\ rec.n = live[t].n
      <3>1. rec = [toPersisted(live[t]) EXCEPT !.st = status]
        BY <2>2 DEF toPersisted
      <3>2. rec \in Records
        BY <2>2, EntryTypes
      <3>. QED
        BY <2>2, <3>1, <3>2 DEF toPersisted
    <2>4. live'[t] = entry /\ \A u \in Tasks : u # t => live'[u] = live[u]
      BY <1>1, <2>1
    <2>5. Latest(t)' = rec /\ Latest(t) = toPersisted(live[t])
      BY <1>2, <2>2, <2>4 DEF Latest, toPersisted
    <2>6. up /\ ghosts[t] = NoRecord /\ t \in born
      BY <1>2 DEF LedgerInv, Down, Apart, WaitInv
    <2>7. chain' = Queued(t, rec, "fire") /\ "fire" \in Thens
      BY <2>1 DEF Thens
    <2>. HIDE DEF rec
    <2>8. \A u \in Tasks : u # t => Latest(u)' = Latest(u)
      BY <2>4 DEF Latest, toPersisted
    <2>9. Follows(Latest(t), rec) /\ (rec.n => Latest(t).n) /\ rec.st # "none"
      BY <1>2, <2>3, <2>5 DEF Follows, toPersisted, TERMINAL
    <2>10. \A u \in Tasks :
              work'[u] \in Foreground \/ live'[u].st # "none" => ghosts[u] = NoRecord
      BY <2>4, <2>6 DEF LedgerInv, Apart
    <2>11. Underway' \subseteq Underway \union (IF rec.q THEN {t} ELSE {})
      BY <2>1 DEF Underway
    <2>. QED
      BY <2>3, <2>5, <2>6, <2>7, <2>8, <2>9, <2>10, <2>11, WriteStep
  <1>3. CASE live[t].st = "killed" /\ status = "killed"
    <2>1. t \in Settled
      BY <1>3 DEF Settled
    <2>2. fireTerminalEffects(t)
      BY <1>3 DEF settleTask
    <2>. QED
      BY <2>1, <2>2, FireKeepsLedger
  <1>4. CASE UNCHANGED <<live, bus, chain>>
    <2>1. Underway' = Underway
      BY <1>4 DEF Underway
    <2>. QED
      BY <1>4, <2>1, QuietStep DEF LedgerInv, Down
  <1>. QED
    BY <1>2, <1>3, <1>4 DEF settleTask

(* A stamp of delivery: the notice is under way, so the record owes it. *)
LEMMA StampKeepsLedger ==
    ASSUME TypeOK, WaitInv, LedgerInv, NEW t \in Tasks \intersect Underway, stampNotified(t),
           told'[t] > 0 \/ scene.mode = "immediate",
           \A u \in Tasks : told[u] > 0 => told'[u] > 0,
           UNCHANGED <<up, scene, disk, strays, born, walk, work>>,
           Underway' \subseteq Underway
    PROVE  LedgerInv'
  <1>1. /\ live \in [Tasks -> Entries] /\ live[t] \in Entries
        /\ ghosts \in [Tasks -> Records] /\ ghosts[t] \in Records
    BY TypedParts DEF Parts, ManagerTypes, LedgerTypes
  <1>2. up
    BY DEF LedgerInv, Down, Underway
  <1>3. Latest(t).q
    BY DEF LedgerInv, Noticed
  <1>4. "none" \in Thens
    BY DEF Thens
  <1>5. CASE UNCHANGED <<live, ghosts, chain>>
    BY <1>2, <1>5, QuietStep
  <1>6. CASE /\ live[t].st # "none" /\ ghosts' = ghosts
             /\ live' = [live EXCEPT ![t].n = TRUE]
             /\ chain' = Queued(t, toPersisted([live[t] EXCEPT !.n = TRUE]), "none")
    <2>. DEFINE entry == [live[t] EXCEPT !.n = TRUE]
                rec == toPersisted(entry)
    <2>1. live'[t] = entry /\ \A u \in Tasks : u # t => live'[u] = live[u]
      BY <1>1, <1>6
    <2>2. chain' = Queued(t, rec, "none") /\ ghosts[t] = NoRecord /\ t \in born
      BY <1>6 DEF LedgerInv, Apart, WaitInv
    <2>3. /\ entry.st = live[t].st /\ entry.q = live[t].q /\ entry.n = TRUE
          /\ entry \in Entries
      BY <1>1, EntryTypes DEF Entries
    <2>. HIDE DEF entry
    <2>4. /\ rec \in Records /\ toPersisted(live[t]) \in Records
          /\ rec.st = live[t].st /\ rec.q = live[t].q /\ rec.n
      BY <1>1, <2>3, EntryTypes DEF toPersisted
    <2>5. rec = [toPersisted(live[t]) EXCEPT !.n = TRUE]
      <3>1. toPersisted(live[t]).st = live[t].st /\ toPersisted(live[t]).q = live[t].q
        BY DEF toPersisted
      <3>. HIDE DEF rec
      <3>. QED
        BY <2>4, <3>1, RecordIs
    <2>6. Latest(t)' = rec /\ Latest(t) = toPersisted(live[t])
      BY <1>6, <2>1, <2>3 DEF Latest, toPersisted
    <2>. HIDE DEF rec
    <2>7. \A u \in Tasks : u # t => Latest(u)' = Latest(u)
      BY <1>6, <2>1 DEF Latest, toPersisted
    <2>8. Follows(Latest(t), rec)
      BY <1>3, <2>5, <2>6 DEF Follows
    <2>9. \A u \in Tasks : work'[u] \in Foreground \/ live'[u].st # "none" => ghosts'[u] = NoRecord
      BY <1>6, <2>1, <2>2 DEF LedgerInv, Apart
    <2>. QED
      BY <1>2, <1>4, <1>6, <2>2, <2>4, <2>6, <2>7, <2>8, <2>9, WriteStep
  <1>7. CASE /\ live[t].st = "none" /\ live' = live /\ ghosts[t].st # "none"
             /\ ghosts' = [ghosts EXCEPT ![t].n = TRUE]
             /\ chain' = Queued(t, [ghosts[t] EXCEPT !.n = TRUE], "none")
    <2>. DEFINE rec == [ghosts[t] EXCEPT !.n = TRUE]
    <2>1. ghosts'[t] = rec /\ \A u \in Tasks : u # t => ghosts'[u] = ghosts[u]
      BY <1>1, <1>7
    <2>2. rec \in Records /\ rec.st = ghosts[t].st
      BY <1>1, RecordTypes DEF Records
    <2>3. ghosts[t] # NoRecord /\ t \in born
      BY <1>7 DEF NoRecord, LedgerInv, Apart
    <2>4. Latest(t)' = rec /\ Latest(t) = ghosts[t]
      BY <1>7, <2>1 DEF Latest
    <2>5. \A u \in Tasks : u # t => Latest(u)' = Latest(u)
      BY <1>7, <2>1 DEF Latest, toPersisted
    <2>6. Follows(Latest(t), rec)
      BY <1>3, <2>4 DEF Follows
    <2>7. chain' = Queued(t, rec, "none")
      BY <1>7
    <2>. HIDE DEF rec
    <2>8. \A u \in Tasks : /\ work'[u] \in Foreground \/ live'[u].st # "none"
                                => ghosts'[u] = NoRecord
                           /\ ghosts[u] = NoRecord => ghosts'[u] = NoRecord
                           /\ ghosts[u].st = "lost" => ghosts'[u].st = "lost"
      BY <1>7, <2>1, <2>2, <2>3 DEF LedgerInv, Apart
    <2>. QED
      BY <1>2, <1>4, <1>7, <2>2, <2>3, <2>4, <2>5, <2>6, <2>7, <2>8, WriteStep
  <1>. QED
    BY <1>5, <1>6, <1>7 DEF stampNotified

(* What a ghost's record becomes in a walk is queued with it. *)
LEMMA GhostKeepsLedger ==
    ASSUME TypeOK, WaitInv, LedgerInv, NEW t \in Tasks, NEW rec \in Records, NEW then \in Thens,
           up, ghosts[t].st # "none", ghosts' = [ghosts EXCEPT ![t] = rec],
           chain' = Queued(t, rec, then), rec.st # "none", rec.n = ghosts[t].n,
           ghosts[t].st = "lost" => rec.st = "lost", Follows(ghosts[t], rec),
           UNCHANGED <<up, scene, disk, strays, born, live, work, told>>,
           Underway' \subseteq Underway \union (IF rec.q THEN {t} ELSE {}),
           \A c \in Callers, u \in Tasks :
               walk'[c].at = {u} => walk[c].at = {u} \/ (u = t /\ rec.st = "lost")
    PROVE  LedgerInv'
  <1>1. ghosts \in [Tasks -> Records]
    BY TypedParts DEF Parts, LedgerTypes
  <1>2. ghosts'[t] = rec /\ \A u \in Tasks : u # t => ghosts'[u] = ghosts[u]
    BY <1>1
  <1>3. ghosts[t] # NoRecord
    BY DEF NoRecord
  <1>4. t \in born /\ live[t].st = "none" /\ work[t] \notin Foreground
    BY <1>3 DEF LedgerInv, Apart
  <1>5. Latest(t)' = rec /\ Latest(t) = ghosts[t]
    BY <1>2, <1>4 DEF Latest
  <1>6. \A u \in Tasks : u # t => Latest(u)' = Latest(u)
    BY <1>2 DEF Latest, toPersisted
  <1>7. \A u \in Tasks : /\ work'[u] \in Foreground \/ live'[u].st # "none"
                              => ghosts'[u] = NoRecord
                         /\ ghosts[u] = NoRecord => ghosts'[u] = NoRecord
                         /\ ghosts[u].st = "lost" => ghosts'[u].st = "lost"
    BY <1>2, <1>3, <1>4 DEF LedgerInv, Apart
  <1>8. \A c \in Callers, u \in Tasks :
            walk'[c].at = {u} => walk[c].at = {u} \/ ghosts'[u].st = "lost"
    BY <1>2
  <1>. QED
    BY <1>4, <1>5, <1>6, <1>7, <1>8, WriteStep

(* What a task, those who stop it and those who wait for it do. *)
LEMMA TaskKeepsLedger ==
    ASSUME TypeOK, WaitInv, LedgerInv, NEW t \in Tasks, TaskSteps(t)
    PROVE  LedgerInv'
  <1>0. /\ live \in [Tasks -> Entries] /\ live[t] \in Entries
        /\ work \in [Tasks -> {"none", "attached", "draining", "returned", "starting",
                               "running", "over"}]
    BY TypedParts DEF Parts, ManagerTypes
  <1>1. CASE registerTask(t) \/ detach(t)
    <2>. DEFINE entry == [NoEntry EXCEPT !.st = "running"]
                rec == toPersisted(entry)
    <2>1. PICK then \in {"start", "none"} : Adds(t, then)
      BY <1>1 DEF registerTask, detach
    <2>2. live' = [live EXCEPT ![t] = entry] /\ chain' = Queued(t, rec, then)
      BY <2>1 DEF Adds
    <2>3. live'[t] = entry /\ \A u \in Tasks : u # t => live'[u] = live[u]
      BY <1>0, <2>2
    <2>4. entry \in Entries /\ entry.st = "running"
      BY NewEntryTypes DEF NoEntry
    <2>5. ~rec.q /\ ~rec.n /\ rec.st = "running" /\ rec \in Records
      BY <2>4, EntryTypes DEF toPersisted, NoEntry
    <2>6. rec = [NoRecord EXCEPT !.st = "running"]
      <3>1. NoRecord \in Records /\ ~NoRecord.q /\ ~NoRecord.n
        BY NewEntryTypes DEF NoRecord
      <3>. HIDE DEF rec
      <3>. QED
        BY <2>5, <3>1, RecordEnds
    <2>7. /\ up /\ live[t].st = "none" /\ ghosts[t] = NoRecord
          /\ t \in born' /\ born \subseteq born'
      BY <1>0, <1>1 DEF registerTask, detach, Foreground, LedgerInv, Down, Apart, WaitInv
    <2>8. /\ UNCHANGED <<up, scene, disk, strays, ghosts, walk, told, bus, outbox>>
          /\ \A u \in Tasks : work'[u] \in Foreground => u = t \/ work[u] \in Foreground
      BY <1>0, <1>1 DEF registerTask, detach, boundVars, ledgerVars, talkVars, Foreground
    <2>9. Latest(t)' = rec /\ Latest(t) = NoRecord
      BY <2>3, <2>4, <2>7 DEF Latest, toPersisted
    <2>. HIDE DEF entry, rec
    <2>10. \A u \in Tasks : u # t => Latest(u)' = Latest(u)
      BY <2>3, <2>8 DEF Latest, toPersisted
    <2>11. Follows(Latest(t), rec)
      BY <2>6, <2>9 DEF Follows
    <2>12. \A u \in Tasks :
              work'[u] \in Foreground \/ live'[u].st # "none" => ghosts'[u] = NoRecord
      BY <2>3, <2>7, <2>8 DEF LedgerInv, Apart
    <2>13. Underway' \subseteq Underway \union (IF rec.q THEN {t} ELSE {})
      BY <2>8 DEF Underway
    <2>14. then \in Thens
      BY DEF Thens
    <2>. QED
      BY <2>2, <2>5, <2>6, <2>7, <2>8, <2>9, <2>10, <2>11, <2>12, <2>13, <2>14, WriteStep
  <1>2. CASE \/ Starts(t) \/ runAttached(t) \/ ForegroundKill(t) \/ AttachedEnds(t)
             \/ Drained(t) \/ wait(t) \/ WaitGivesUp(t)
    <2>1. /\ UNCHANGED <<chain, up, scene, strays, disk, ghosts, walk, live, told, bus, outbox>>
          /\ born \subseteq born'
      BY <1>2 DEF Starts, runAttached, ForegroundKill, AttachedEnds, Drained, wait,
                  WaitGivesUp, boundVars, ledgerVars, storeVars, talkVars
    <2>2. \A u \in Tasks : work'[u] \in Foreground
              => work[u] \in Foreground \/ (up /\ ghosts[u] = NoRecord)
      <3>1. CASE Starts(t) \/ Drained(t) \/ AttachedEnds(t)
        BY <1>0, <3>1 DEF Starts, Drained, AttachedEnds, Foreground
      <3>2. CASE runAttached(t)
        BY <1>0, <3>2 DEF runAttached, LedgerInv, Apart
      <3>3. CASE ForegroundKill(t) \/ wait(t) \/ WaitGivesUp(t)
        BY <3>3 DEF ForegroundKill, wait, WaitGivesUp
      <3>. QED
        BY <1>2, <3>1, <3>2, <3>3
    <2>3. Underway' = Underway
      BY <2>1 DEF Underway
    <2>. QED
      BY <2>1, <2>2, <2>3, QuietStep DEF LedgerInv, Down
  <1>3. CASE TaskEnds(t)
    <2>1. PICK status \in {"ended", "killed"} : settleTask(t, status)
      BY <1>3 DEF TaskEnds
    <2>2. /\ UNCHANGED <<up, scene, disk, strays, ghosts, born, walk, outbox, told>>
          /\ \A u \in Tasks : work'[u] \in Foreground => work[u] \in Foreground
      BY <1>0, <1>3 DEF TaskEnds, Foreground, boundVars, ledgerVars
    <2>. QED
      BY <2>1, <2>2, SettleKeepsLedger
  <1>4. CASE Fires(t)
    <2>1. /\ UNCHANGED <<up, scene, disk, strays, ghosts, born, walk, outbox, told, work>>
          /\ fireTerminalEffects(t) /\ t \in Settled
      BY <1>4 DEF Fires, WaitInv, boundVars, ledgerVars
    <2>. QED
      BY <2>1, FireKeepsLedger
  <1>5. CASE stop(t)
    <2>1. PICK quiet \in BOOLEAN : live' = [live EXCEPT ![t].quiet = @ \/ quiet]
      BY <1>5 DEF stop
    <2>2. \A u \in Tasks : live'[u].st = live[u].st /\ live'[u].q = live[u].q
                           /\ live'[u].n = live[u].n
      BY <1>0, <2>1 DEF Entries
    <2>3. UNCHANGED <<chain, up, scene, strays, disk, ghosts, walk, work, told, bus, outbox, born>>
      BY <1>5 DEF stop, boundVars, ledgerVars, storeVars, talkVars
    <2>4. Underway' = Underway
      BY <2>3 DEF Underway
    <2>. QED
      BY <2>2, <2>3, <2>4, QuietStep DEF LedgerInv, Down
  <1>6. CASE StopReturns(t)
    <2>1. UNCHANGED <<up, scene, disk, strays, ghosts, born, walk, outbox, told, work>>
      BY <1>6 DEF StopReturns, boundVars, ledgerVars
    <2>2. CASE live[t].st = "running"
      BY <1>6, <2>1, <2>2, SettleKeepsLedger DEF StopReturns
    <2>3. CASE live[t].st # "running"
      <3>1. UNCHANGED <<live, bus, chain>>
        BY <1>6, <2>3 DEF StopReturns
      <3>2. Underway' = Underway
        BY <2>1, <3>1 DEF Underway
      <3>. QED
        BY <2>1, <3>1, <3>2, QuietStep DEF LedgerInv, Down
    <2>. QED
      BY <2>2, <2>3
  <1>7. CASE Strays(t)
    <2>1. /\ UNCHANGED <<scene, up, live, work, ghosts, walk, chain, bus, outbox, told, born>>
          /\ StrayEnds(t)
      BY <1>7 DEF Strays, boundVars, managerVars, ledgerVars, talkVars
    <2>2. /\ strays \in [Tasks -> {"none", "running", "settled", "landed", "gone"}]
          /\ disk \in [Tasks -> Records]
      BY TypedParts DEF Parts, SessionTypes, StoreTypes
    <2>3. /\ strays[t] # "none" /\ strays'[t] # "none"
          /\ \A u \in Tasks : u # t => strays'[u] = strays[u] /\ disk'[u] = disk[u]
      BY <2>1, <2>2 DEF StrayEnds
    <2>4. \A u \in Tasks : Latest(u)' = Latest(u)
      BY <2>1 DEF Latest, toPersisted
    <2>5. LinesHold'
      BY <2>1, <2>3, <2>4, LinesStay DEF LedgerInv
    <2>6. Down' /\ Noticed'
      <3>1. Underway' = Underway
        BY <2>1 DEF Underway
      <3>. QED
        BY <2>1, <2>4, <3>1, UnderwayTyped DEF LedgerInv, Down, Noticed
    <2>7. Apart'
      BY <2>1, <2>3 DEF LedgerInv, Apart
    <2>8. disk'[t] = disk[t] \/ Sound(disk'[t])
      BY <2>1, <2>2 DEF StrayEnds, Sound, TERMINAL
    <2>9. Sounds' /\ Climbing'
      BY <2>1, <2>3, <2>4, <2>8, ClimbingStays DEF LedgerInv
    <2>. QED
      BY <2>5, <2>6, <2>7, <2>9 DEF LedgerInv
  <1>. QED
    BY <1>1, <1>2, <1>3, <1>4, <1>5, <1>6, <1>7 DEF TaskSteps

(* The walks of reconcile. *)
LEMMA ReconcileKeepsLedger ==
    ASSUME TypeOK, WaitInv, LedgerInv, NEW c \in Callers, Reconciles(c)
    PROVE  LedgerInv'
  <1>0. /\ ghosts \in [Tasks -> Records] /\ walk \in [Callers -> Walks]
        /\ bus \in Seq(Tasks)
    BY TypedParts DEF Parts, LedgerTypes, TalkTypes
  <1>1. CASE Reconciled(c)
    <2>1. /\ UNCHANGED <<chain, up, scene, strays, disk, ghosts, live, work, told, bus, outbox, born>>
          /\ walk' = [walk EXCEPT ![c] = NoWalk]
      BY <1>1 DEF Reconciled, boundVars, managerVars, storeVars
    <2>2. Underway' = Underway
      BY <2>1 DEF Underway
    <2>3. \A d \in Callers : walk'[d] = walk[d] \/ (walk'[d].at = {} /\ walk'[d].todo = {})
      BY <1>0, <2>1 DEF NoWalk
    <2>. QED
      BY <2>1, <2>2, <2>3, QuietStep DEF LedgerInv, Down
  <1>2. ASSUME NEW t \in Tasks, ReconcileLost(c, t) PROVE LedgerInv'
    <2>. DEFINE rec == [ghosts[t] EXCEPT !.st = "lost"]
    <2>1. /\ ghosts[t].st = "running" /\ ghosts' = [ghosts EXCEPT ![t] = rec]
          /\ chain' = Queued(t, rec, "lost") /\ t \in walk[c].todo
          /\ walk' = [walk EXCEPT ![c].at = {t}, ![c].todo = @ \ {t}]
          /\ UNCHANGED <<up, scene, disk, strays, born, live, work, told, bus, outbox>>
      BY <1>2 DEF ReconcileLost, boundVars, managerVars, talkVars
    <2>2. rec \in Records /\ rec.st = "lost" /\ rec.n = ghosts[t].n
      BY <1>0, RecordTypes DEF Records
    <2>3. Follows(ghosts[t], rec)
      BY <2>1 DEF Follows, TERMINAL
    <2>4. up /\ "lost" \in Thens
      BY <2>1 DEF LedgerInv, Down, Thens
    <2>. HIDE DEF rec
    <2>5. \A d \in Callers, u \in Tasks :
              walk'[d].at = {u} => walk[d].at = {u} \/ (u = t /\ rec.st = "lost")
      BY <1>0, <2>1, <2>2 DEF Walks
    <2>6. Underway' = Underway
      BY <2>1 DEF Underway
    <2>. QED
      BY <2>1, <2>2, <2>3, <2>4, <2>5, <2>6, GhostKeepsLedger
  <1>3. ASSUME NEW t \in Tasks, Steers(t, ghosts[t]), ghosts[t].st \in TERMINAL,
               walk[c].at = {t} \/ t \in walk[c].todo,
               walk'[c].at = {}, \A d \in Callers : d # c => walk'[d] = walk[d],
               UNCHANGED <<up, scene, disk, strays, born, live, work, told, outbox>>
        PROVE  LedgerInv'
    <2>. DEFINE rec == [ghosts[t] EXCEPT !.q = TRUE]
    <2>1. /\ ghosts' = [ghosts EXCEPT ![t] = rec] /\ bus' = Append(bus, t)
          /\ chain' = Queued(t, rec, "none")
      BY <1>3 DEF Steers
    <2>2. rec \in Records /\ rec.st = ghosts[t].st /\ rec.q /\ rec.n = ghosts[t].n
      BY <1>0, RecordTypes DEF Records
    <2>3. Follows(ghosts[t], rec)
      BY <1>3 DEF Follows
    <2>4. up /\ "none" \in Thens /\ ghosts[t].st # "none"
      BY <1>3 DEF LedgerInv, Down, Thens, TERMINAL
    <2>. HIDE DEF rec
    <2>5. \A d \in Callers, u \in Tasks :
              walk'[d].at = {u} => walk[d].at = {u} \/ (u = t /\ rec.st = "lost")
      BY <1>3
    <2>6. Underway' \subseteq Underway \union (IF rec.q THEN {t} ELSE {})
      BY <1>3, <2>1, <2>2, NoticeQueued
    <2>. QED
      BY <1>3, <2>1, <2>2, <2>3, <2>4, <2>5, <2>6, GhostKeepsLedger
  <1>4. ASSUME NEW t \in Tasks, TellsLost(c, t) PROVE LedgerInv'
    <2>1. /\ walk[c].at = {t} /\ walk' = [walk EXCEPT ![c].at = {}] /\ Steers(t, ghosts[t])
          /\ UNCHANGED <<up, scene, disk, strays, born, live, work, told, outbox>>
      BY <1>4 DEF TellsLost, boundVars, managerVars
    <2>2. ghosts[t].st \in TERMINAL
      BY <2>1 DEF LedgerInv, Noticed, TERMINAL
    <2>3. walk'[c].at = {} /\ \A d \in Callers : d # c => walk'[d] = walk[d]
      BY <1>0, <2>1 DEF Walks
    <2>. QED
      BY <1>3, <2>1, <2>2, <2>3
  <1>5. ASSUME NEW t \in Tasks, ReconcileSettled(c, t) PROVE LedgerInv'
    <2>1. /\ walk[c].at = {} /\ t \in walk[c].todo /\ ghosts[t].st \in TERMINAL
          /\ walk' = [walk EXCEPT ![c].todo = @ \ {t}]
          /\ UNCHANGED <<up, scene, disk, strays, born, live, work, told, outbox>>
      BY <1>5 DEF ReconcileSettled, boundVars, managerVars
    <2>2. walk'[c].at = {} /\ \A d \in Callers : d # c => walk'[d] = walk[d]
      BY <1>0, <2>1 DEF Walks
    <2>3. CASE Steers(t, ghosts[t])
      BY <1>3, <2>1, <2>2, <2>3
    <2>4. CASE UNCHANGED <<ghosts, bus, chain>>
      <3>1. Underway' = Underway
        BY <2>1, <2>4 DEF Underway
      <3>2. up
        BY <2>1 DEF LedgerInv, Down
      <3>3. \A d \in Callers, u \in Tasks : walk'[d].at = {u} => walk[d].at = {u}
        BY <2>2
      <3>. QED
        BY <2>1, <2>4, <3>1, <3>2, <3>3, QuietStep
    <2>. QED
      BY <1>5, <2>3, <2>4 DEF ReconcileSettled
  <1>. QED
    BY <1>1, <1>2, <1>4, <1>5 DEF Reconciles

(* What lands, and what the run takes to the conversation. *)
LEMMA TalkKeepsLedger ==
    ASSUME TypeOK, WaitInv, LedgerInv,
           writeTask \/ RunBegins \/ DrainNotice \/ RunEnds \/ AppendLands
    PROVE  LedgerInv'
  <1>0. /\ live \in [Tasks -> Entries] /\ told \in [Tasks -> Nat]
        /\ walk \in [Callers -> Walks] /\ disk \in [Tasks -> Records] /\ chain \in Seq(Writes)
        /\ scene.mode \in {"immediate", "committed"}
    BY TypedParts, ScenesAssumption
    DEF Parts, ManagerTypes, TalkTypes, LedgerTypes, StoreTypes, SessionTypes
  <1>1. CASE writeTask
    <2>1. /\ UNCHANGED <<up, scene, strays, ghosts, live, work, told, bus, outbox, born, walk>>
          /\ chain # <<>> /\ chain' = Tail(chain)
          /\ disk' = [disk EXCEPT ![Head(chain).task] = Head(chain).rec]
      BY <1>1 DEF writeTask, boundVars, managerVars, ledgerVars, talkVars
    <2>2. LinesHold'
      BY <1>1, LinesShrink DEF LedgerInv
    <2>3. Underway' = Underway /\ \A u \in Tasks : Latest(u)' = Latest(u)
      BY <2>1 DEF Underway, Latest, toPersisted
    <2>4. up
      BY <2>1 DEF LedgerInv, Down
    <2>5. Down' /\ Noticed'
      BY <2>1, <2>3, <2>4, UnderwayTyped DEF LedgerInv, Down, Noticed
    <2>6. Apart'
      <3>1. /\ Head(chain) = chain[1] /\ 1 \in 1..Len(chain)
            /\ \A i \in 1..Len(chain') : i + 1 \in 1..Len(chain) /\ chain'[i] = chain[i + 1]
        BY <1>0, <2>1
      <3>2. \A u \in Tasks : u \notin born => disk'[u] = disk[u]
        BY <1>0, <2>1, <3>1 DEF LedgerInv, Apart
      <3>. QED
        BY <2>1, <3>1, <3>2 DEF LedgerInv, Apart
    <2>7. Sounds' /\ Climbing'
      BY <1>1, ClimbingShrinks DEF LedgerInv
    <2>. QED
      BY <2>2, <2>5, <2>6, <2>7 DEF LedgerInv
  <1>2. CASE RunBegins \/ RunEnds
    <2>1. /\ UNCHANGED <<chain, up, scene, strays, disk, ghosts, live, work, told, bus, outbox, born>>
          /\ \A c \in Callers : walk'[c] = walk[c] \/ (up /\ walk'[c].at = {})
      BY <1>0, <1>2 DEF RunBegins, RunEnds, boundVars, managerVars, storeVars, ledgerVars
    <2>2. Underway' = Underway
      BY <2>1 DEF Underway
    <2>. QED
      BY <2>1, <2>2, QuietStep DEF LedgerInv, Down
  <1>3. CASE DrainNotice
    <2>. DEFINE t == Head(bus)
    <2>1. /\ bus # <<>> /\ bus' = Tail(bus) /\ outbox' = Append(outbox, t)
          /\ UNCHANGED <<up, scene, disk, strays, born, walk, work, told>>
      BY <1>3 DEF DrainNotice, boundVars
    <2>2. t \in Tasks \intersect Underway /\ Underway' \subseteq Underway
      BY <2>1, NoticeDrained
    <2>3. up
      BY <2>1 DEF LedgerInv, Down
    <2>. HIDE DEF t
    <2>4. CASE scene.mode = "immediate"
      <3>1. stampNotified(t)
        BY <1>3, <2>4 DEF DrainNotice, t
      <3>. QED
        BY <2>1, <2>2, <2>4, <3>1, StampKeepsLedger
    <2>5. CASE scene.mode # "immediate"
      <3>1. UNCHANGED <<live, ghosts, chain>>
        BY <1>3, <2>5 DEF DrainNotice
      <3>. QED
        BY <2>1, <2>2, <2>3, <3>1, QuietStep
    <2>. QED
      BY <2>4, <2>5
  <1>4. CASE AppendLands
    <2>. DEFINE t == Head(outbox)
    <2>1. /\ outbox # <<>> /\ outbox' = Tail(outbox) /\ bus' = bus
          /\ told' = [told EXCEPT ![t] = @ + 1]
          /\ UNCHANGED <<up, scene, disk, strays, born, walk, work>>
      BY <1>4 DEF AppendLands, boundVars
    <2>2. t \in Tasks \intersect Underway /\ Underway' \subseteq Underway
      BY <2>1, NoticeAppended
    <2>3. up
      BY <2>1 DEF LedgerInv, Down
    <2>. HIDE DEF t
    <2>4. told'[t] > 0 /\ \A u \in Tasks : told[u] > 0 => told'[u] > 0
      BY <1>0, <2>1, <2>2
    <2>5. CASE scene.mode = "committed"
      <3>1. stampNotified(t)
        BY <1>4, <2>5 DEF AppendLands, t
      <3>. QED
        BY <2>1, <2>2, <2>4, <3>1, StampKeepsLedger
    <2>6. CASE scene.mode # "committed"
      <3>1. UNCHANGED <<live, ghosts, chain>>
        BY <1>4, <2>6 DEF AppendLands
      <3>. QED
        BY <2>1, <2>2, <2>3, <2>4, <3>1, QuietStep
    <2>. QED
      BY <2>5, <2>6
  <1>. QED
    BY <1>1, <1>2, <1>3, <1>4

(* A process that goes, and one that comes. *)
LEMMA ProcessKeepsLedger ==
    ASSUME TypeOK, WaitInv, LedgerInv, crash \/ closeSession \/ Reopen
    PROVE  LedgerInv'
  <1>0. /\ strays \in [Tasks -> {"none", "running", "settled", "landed", "gone"}]
        /\ live \in [Tasks -> Entries] /\ walk \in [Callers -> Walks]
    BY TypedParts DEF Parts, SessionTypes, ManagerTypes, LedgerTypes
  <1>1. CASE crash \/ closeSession
    <2>1. /\ Clears /\ UNCHANGED <<scene, disk, told, born>>
      BY <1>1 DEF crash, closeSession
    <2>2. \A t \in Tasks : /\ strays'[t] = "none" => strays[t] = "none"
                           /\ strays'[t] # "none" => strays[t] # "none" \/ live[t].st # "none"
      BY <1>0, <1>1 DEF crash, closeSession
    <2>3. /\ ~up' /\ chain' = <<>> /\ bus' = <<>> /\ outbox' = <<>>
          /\ \A t \in Tasks : live'[t].st = "none" /\ ghosts'[t] = NoRecord
                              /\ work'[t] = "none"
          /\ \A c \in Callers : walk'[c].todo = {} /\ walk'[c].at = {}
      BY <2>1 DEF Clears, Each, NoEntry, NoWalk
    <2>4. \A t \in Tasks : Latest(t)' = NoRecord
      BY <2>3 DEF Latest
    <2>5. Len(chain') = 0
      BY <2>3
    <2>6. LinesHold'
      BY <2>1, <2>2, <2>3, <2>4, <2>5, LinesRestart DEF LedgerInv
    <2>7. Down' /\ Apart'
      <3>1. \A t \in Tasks : t \notin born => strays'[t] = "none"
        BY <2>2 DEF LedgerInv, Apart, WaitInv
      <3>. QED
        BY <2>1, <2>3, <2>5, <3>1 DEF LedgerInv, Down, Apart, Foreground
    <2>8. Noticed'
      <3>1. Underway' = {}
        BY <2>3 DEF Underway
      <3>. QED
        BY <2>3, <3>1 DEF Noticed
    <2>9. Sounds' /\ Climbing'
      BY <2>1, <2>3, <2>4, <2>5, ClimbingRestarts DEF LedgerInv
    <2>. QED
      BY <2>6, <2>7, <2>8, <2>9 DEF LedgerInv
  <1>2. CASE Reopen
    <2>1. /\ ~up /\ up' /\ ghosts' = disk
          /\ UNCHANGED <<scene, disk, told, born, strays, chain, bus, outbox, live, work>>
          /\ \A c \in Callers : walk'[c].at = walk[c].at \/ walk'[c].at = {}
      BY <1>0, <1>2 DEF Reopen, boundVars, managerVars, storeVars, talkVars
    <2>2. /\ chain = <<>> /\ bus = <<>> /\ outbox = <<>>
          /\ \A t \in Tasks : live[t].st = "none" /\ work[t] \notin Foreground
          /\ \A c \in Callers : walk[c].at = {}
      BY <2>1 DEF LedgerInv, Down
    <2>3. \A t \in Tasks : Latest(t)' = disk[t]
      BY <2>1, <2>2 DEF Latest
    <2>4. Len(chain') = 0
      BY <2>1, <2>2
    <2>5. LinesHold'
      BY <2>1, <2>3, <2>4, LinesRestart DEF LedgerInv
    <2>6. Down' /\ Apart'
      BY <2>1, <2>2, <2>4 DEF LedgerInv, Down, Apart
    <2>7. Noticed'
      <3>1. Underway' = {}
        BY <2>1, <2>2 DEF Underway
      <3>. QED
        BY <2>1, <2>2, <3>1 DEF Noticed
    <2>8. Sounds' /\ Climbing'
      BY <2>1, <2>3, <2>4, ClimbingRestarts DEF LedgerInv
    <2>. QED
      BY <2>5, <2>6, <2>7, <2>8 DEF LedgerInv
  <1>. QED
    BY <1>1, <1>2

(* Every step keeps the invariant of the records. *)
LEMMA LedgerInductive == TypeOK /\ WaitInv /\ LedgerInv /\ [Next]_vars => LedgerInv'
  <1>. SUFFICES ASSUME TypeOK, WaitInv, LedgerInv, [Next]_vars PROVE LedgerInv'
    OBVIOUS
  <1>1. CASE UNCHANGED vars
    <2>1. /\ UNCHANGED <<chain, up, scene, strays, disk, ghosts, live, work, told, bus, outbox,
                         born, walk>>
      BY <1>1 DEF vars, boundVars, managerVars, ledgerVars, storeVars, talkVars
    <2>2. Underway' = Underway
      BY <2>1 DEF Underway
    <2>. QED
      BY <2>1, <2>2, QuietStep DEF LedgerInv, Down
  <1>. QED
    BY <1>1, TaskKeepsLedger, ReconcileKeepsLedger, TalkKeepsLedger, ProcessKeepsLedger DEF Next

(* A step that touches neither the records nor the conversation nor the strays
   is no step of the ledger. *)
LEMMA LedgerStutters ==
    ASSUME UNCHANGED <<disk, told, scene>>,
           \A t \in Tasks : strays'[t] # "none" <=> strays[t] # "none"
    PROVE  UNCHANGED Ledger!vars
  BY DEF Ledger!vars

(* A write that lands is a step of the ledger, or of a task that two managers
   write. *)
LEMMA WriteKeepsPromise ==
    ASSUME TypeOK, LedgerInv, writeTask
    PROVE  [Ledger!Next]_(Ledger!vars)
  <1>. DEFINE t == Head(chain).task
              rec == Head(chain).rec
  <1>1. /\ chain \in Seq(Writes) /\ chain # <<>> /\ disk \in [Tasks -> Records]
        /\ disk' = [disk EXCEPT ![t] = rec] /\ UNCHANGED <<told, scene, strays>>
    BY TypedParts DEF Parts, StoreTypes, writeTask, boundVars, talkVars
  <1>2. /\ Head(chain) = chain[1] /\ 1 \in 1..Len(chain) /\ Head(chain) \in Writes
        /\ \A k \in 1..Len(chain) : ~(k < 1)
    BY <1>1
  <1>3. t \in Tasks /\ rec \in Records /\ disk[t] \in Records
    BY <1>1, <1>2 DEF Writes
  <1>4. UNCHANGED <<told, scene.mode = "immediate", {u \in Tasks : strays[u] # "none"}>>
    BY <1>1
  <1>5. rec.st # "none"
    BY <1>2 DEF LedgerInv, Apart
  <1>6. CASE strays[t] # "none"
    <2>1. rec \in Ledger!Records
      BY <1>3, <1>5 DEF Records, Statuses, TERMINAL, Ledger!Records, Ledger!Ends
    <2>. QED
      BY <1>1, <1>3, <1>4, <1>6, <2>1 DEF Ledger!Next, Ledger!Overwrite, Ledger!Record
  <1>7. CASE strays[t] = "none"
    <2>1. InLine(t) /\ Knowing(t)
      BY <1>3, <1>7 DEF LedgerInv, LinesHold
    <2>2. Follows(disk[t], rec) /\ Known(t, rec)
      BY <1>2, <2>1 DEF InLine, Knowing
    <2>. HIDE DEF t, rec
    <2>3. CASE rec = disk[t]
      <3>1. disk' = disk
        BY <1>1, <1>3, <2>3
      <3>. QED
        BY <1>1, <3>1, LedgerStutters
    <2>4. CASE disk[t] = NoRecord /\ rec = [NoRecord EXCEPT !.st = "running"]
      <3>1. Ledger!Create(t)
        BY <1>1, <1>4, <2>4 DEF Ledger!Create, Ledger!Record, Ledger!NoRecord, NoRecord
      <3>. QED
        BY <1>3, <3>1 DEF Ledger!Next
    <2>5. CASE disk[t].st = "running" /\ \E s \in TERMINAL : rec = [disk[t] EXCEPT !.st = s]
      <3>1. Ledger!Settle(t)
        BY <1>1, <1>4, <2>5 DEF Ledger!Settle, Ledger!Record, Ledger!Ends, TERMINAL
      <3>. QED
        BY <1>3, <3>1 DEF Ledger!Next
    <2>6. CASE disk[t].st \in TERMINAL /\ rec = [disk[t] EXCEPT !.q = TRUE]
      <3>1. Ledger!Owe(t)
        BY <1>1, <1>4, <2>6 DEF Ledger!Owe, Ledger!Record, Ledger!Ends, TERMINAL
      <3>. QED
        BY <1>3, <3>1 DEF Ledger!Next
    <2>7. CASE disk[t].q /\ rec = [disk[t] EXCEPT !.n = TRUE]
      <3>1. told[t] > 0 \/ scene.mode = "immediate"
        BY <1>3, <2>2, <2>7 DEF Known, Records
      <3>2. Ledger!Confirm(t)
        BY <1>1, <1>4, <2>7, <3>1 DEF Ledger!Confirm, Ledger!Record
      <3>. QED
        BY <1>3, <3>2 DEF Ledger!Next
    <2>. QED
      BY <2>2, <2>3, <2>4, <2>5, <2>6, <2>7 DEF Follows
  <1>. QED
    BY <1>6, <1>7

(* So is a write by the manager of a closed session. *)
LEMMA StrayKeepsPromise ==
    ASSUME TypeOK, NEW t \in Tasks, Strays(t)
    PROVE  [Ledger!Next]_(Ledger!vars)
  <1>1. /\ StrayEnds(t) /\ UNCHANGED <<told, scene>>
        /\ strays \in [Tasks -> {"none", "running", "settled", "landed", "gone"}]
    BY TypedParts DEF Parts, SessionTypes, Strays, boundVars, talkVars
  <1>2. strays[t] # "none" /\ \A u \in Tasks : strays'[u] # "none" <=> strays[u] # "none"
    BY <1>1 DEF StrayEnds
  <1>3. CASE disk' = disk
    BY <1>1, <1>2, <1>3, LedgerStutters
  <1>4. CASE \E q \in BOOLEAN : disk' = [disk EXCEPT ![t] = [st |-> "ended", q |-> q, n |-> FALSE]]
    <2>1. PICK q \in BOOLEAN : disk' = [disk EXCEPT ![t] = [st |-> "ended", q |-> q, n |-> FALSE]]
      BY <1>4
    <2>2. [st |-> "ended", q |-> q, n |-> FALSE] \in Ledger!Records
      BY DEF Ledger!Records, Ledger!Ends
    <2>3. Ledger!Overwrite(t)
      BY <1>1, <1>2, <2>1, <2>2 DEF Ledger!Overwrite, Ledger!Record
    <2>. QED
      BY <2>3 DEF Ledger!Next
  <1>5. disk' = disk \/ \E q \in BOOLEAN :
            disk' = [disk EXCEPT ![t] = [st |-> "ended", q |-> q, n |-> FALSE]]
    <2>1. FALSE \in BOOLEAN /\ TRUE \in BOOLEAN
      OBVIOUS
    <2>. QED
      BY <1>1, <2>1 DEF StrayEnds
  <1>. QED
    BY <1>3, <1>4, <1>5

(* Every step is one of the ledger, or leaves it alone. *)
LEMMA StepKeepsPromise ==
    ASSUME TypeOK, LedgerInv, [Next]_vars
    PROVE  [Ledger!Next]_(Ledger!vars)
  <1>0. strays \in [Tasks -> {"none", "running", "settled", "landed", "gone"}]
    BY TypedParts DEF Parts, SessionTypes
  <1>1. ASSUME UNCHANGED <<disk, told, scene, strays>> PROVE UNCHANGED Ledger!vars
    BY <1>1, LedgerStutters
  <1>2. CASE UNCHANGED vars
    BY <1>1, <1>2 DEF vars, storeVars, talkVars, boundVars
  <1>3. ASSUME NEW t \in Tasks, TaskSteps(t) PROVE [Ledger!Next]_(Ledger!vars)
    <2>1. CASE Strays(t)
      BY <2>1, StrayKeepsPromise
    <2>2. CASE ~Strays(t)
      <3>1. UNCHANGED <<disk, told, scene, strays>>
        BY <1>3, <2>2 DEF TaskSteps, registerTask, Starts, runAttached, ForegroundKill,
           AttachedEnds, Drained, detach, TaskEnds, Fires, stop, StopReturns, wait,
           WaitGivesUp, boundVars, storeVars, talkVars
      <3>. QED
        BY <1>1, <3>1
    <2>. QED
      BY <2>1, <2>2
  <1>4. ASSUME NEW c \in Callers, Reconciles(c) PROVE [Ledger!Next]_(Ledger!vars)
    <2>1. UNCHANGED <<disk, told, scene, strays>>
      BY <1>4 DEF Reconciles, Reconciled, ReconcileLost, TellsLost, ReconcileSettled,
         boundVars, storeVars, talkVars
    <2>. QED
      BY <1>1, <2>1
  <1>5. CASE writeTask
    BY <1>5, WriteKeepsPromise
  <1>6. CASE RunBegins \/ DrainNotice \/ RunEnds
    <2>1. UNCHANGED <<disk, told, scene, strays>>
      BY <1>6 DEF RunBegins, DrainNotice, RunEnds, boundVars, storeVars
    <2>. QED
      BY <1>1, <2>1
  <1>7. CASE AppendLands
    <2>1. outbox \in Seq(Tasks) /\ outbox # <<>>
      BY <1>7, TypedParts DEF Parts, TalkTypes, AppendLands
    <2>2. Head(outbox) \in Tasks
      BY <2>1
    <2>3. Ledger!Tell(Head(outbox))
      BY <1>7 DEF AppendLands, Ledger!Tell, boundVars
    <2>. QED
      BY <2>2, <2>3 DEF Ledger!Next
  <1>8. CASE crash
    <2>1. UNCHANGED <<disk, told, scene>>
      BY <1>8 DEF crash
    <2>2. \A t \in Tasks : strays'[t] # "none" <=> strays[t] # "none"
      BY <1>0, <1>8 DEF crash
    <2>. QED
      BY <2>1, <2>2, LedgerStutters
  <1>9. CASE closeSession
    <2>1. UNCHANGED <<disk, told, scene>>
      BY <1>9 DEF closeSession
    <2>2. PICK S \in SUBSET Tasks : S = {t \in Tasks : strays'[t] # "none"}
      OBVIOUS
    <2>3. {t \in Tasks : strays[t] # "none"} \subseteq S
      BY <1>0, <1>9, <2>2 DEF closeSession
    <2>4. Ledger!Share(S)
      BY <2>1, <2>2, <2>3 DEF Ledger!Share
    <2>. QED
      BY <2>4 DEF Ledger!Next
  <1>10. CASE Reopen
    <2>1. UNCHANGED <<disk, told, scene, strays>>
      BY <1>10 DEF Reopen, boundVars, storeVars, talkVars
    <2>. QED
      BY <1>1, <2>1
  <1>. QED
    BY <1>2, <1>3, <1>4, <1>5, <1>6, <1>7, <1>8, <1>9, <1>10 DEF Next

(* The ledger begins empty. *)
LEMMA LedgerBegins == Init => Ledger!Init
  <1>. SUFFICES ASSUME Init PROVE Ledger!Init
    OBVIOUS
  <1>1. disk = [t \in Tasks |-> Ledger!NoRecord] /\ told = [t \in Tasks |-> 0]
    BY DEF Init, Each, NoRecord, Ledger!NoRecord
  <1>2. {t \in Tasks : strays[t] # "none"} = {}
    BY DEF Init, Each
  <1>3. (scene.mode = "immediate") \in BOOLEAN
    OBVIOUS
  <1>. QED
    BY <1>1, <1>2, <1>3 DEF Ledger!Init

(* Over all processes, crashes and reopenings, a record on disk goes from
   running to one terminal status and stays there, owes a notice only then and
   is confirmed only when the conversation has it, unless two managers came to
   write it: the writes wait in one queue per manager, and each was derived
   from the one before (persist.ts:16-38, manager.ts:1205-1240). *)
THEOREM RecordsKeepTheirLedger == Spec => ImplementsLedger
  <1>1. TypeOK /\ LedgerInv /\ [Next]_vars => [Ledger!Next]_(Ledger!vars)
    BY StepKeepsPromise
  <1>. QED
    BY <1>1, WaitInit, WaitInductive, LedgerInitially, LedgerInductive, LedgerBegins, TypeCorrect, PTL
    DEF Spec, ImplementsLedger, Ledger!Spec

---------------------------------------------------------------------------
(* Notices.                                                                *)

(* A lost task is recorded, and its notice not queued yet. *)
Pending(t) == \E c \in Callers : walk[c].at = {t}

(* A task of this process, in front of the user or in the manager's map, runs in no
   other; its notice is queued when its effects fire, and those wait for the
   write, except of a second kill. *)
Entered(t) ==
    /\ work[t] \in Foreground \/ live[t].st # "none" => strays[t] = "none"
    /\ live[t].st # "none" =>
          /\ live[t].q => live[t].fired
          /\ live[t].fired => disk[t].st \in TERMINAL \/ live[t].st = "killed"
    /\ [task |-> t, then |-> "fire"] \in ready => disk[t].st \in TERMINAL

(* One walk tells of a lost task, and of one that no process has told of. *)
Walking(t) ==
    /\ \A c, d \in Callers :
          walk[c].at = {t} => ~ghosts[t].q /\ (walk[d].at = {t} => c = d)
    /\ t \in resent => ghosts[t].st \in TERMINAL

(* How often a notice has been queued at most: for a lost task once when that is
   recorded, and for every ghost once when it is resent. *)
Mourned(t) == ghosts[t].st = "lost" /\ ~Pending(t)
Metered(t) ==
    /\ live[t].st # "none" => sent[t] <= 1 /\ (~live[t].fired => sent[t] = 0)
    /\ live[t].st = "none" =>
          /\ sent[t] <= 2
          /\ (~Mourned(t) \/ t \notin resent) => sent[t] <= 1
          /\ (~Mourned(t) /\ t \notin resent) => sent[t] = 0

(* The inductive invariant of the notices. *)
TellInv ==
    /\ \A t \in Tasks : Entered(t) /\ Walking(t) /\ Metered(t)
    /\ \A i \in 1..Len(chain) : chain[i].then = "fire" => chain[i].rec.st \in TERMINAL

(* No notice has been queued at the beginning. *)
LEMMA TellInitially == Init => TellInv
  <1>. SUFFICES ASSUME Init PROVE TellInv
    OBVIOUS
  <1>1. /\ \A t \in Tasks : /\ live[t] = NoEntry /\ ghosts[t] = NoRecord /\ sent[t] = 0
                            /\ strays[t] = "none"
        /\ chain = <<>> /\ ready = {} /\ resent = {} /\ \A c \in Callers : walk[c] = NoWalk
    BY DEF Init, Each
  <1>. QED
    BY <1>1 DEF TellInv, Entered, Walking, Metered, Mourned, Pending, NoEntry, NoRecord, NoWalk

(* Where nothing of a task changes but its walk to another, and no write of it lands. *)
LEMMA TellSame ==
    ASSUME NEW t \in Tasks, Entered(t), Walking(t), Metered(t),
           live'[t] = live[t], strays'[t] = strays[t], disk'[t] = disk[t],
           ghosts'[t] = ghosts[t], sent'[t] = sent[t],
           work'[t] \in Foreground => work[t] \in Foreground,
           t \in resent' <=> t \in resent,
           [task |-> t, then |-> "fire"] \in ready' => [task |-> t, then |-> "fire"] \in ready,
           \A c \in Callers : walk'[c].at = {t} <=> walk[c].at = {t}
    PROVE  Entered(t)' /\ Walking(t)' /\ Metered(t)'
  <1>1. Pending(t)' <=> Pending(t)
    BY DEF Pending
  <1>2. Entered(t)'
    BY DEF Entered
  <1>3. Walking(t)'
    BY DEF Walking
  <1>4. Metered(t)'
    BY <1>1 DEF Metered, Mourned
  <1>. QED
    BY <1>2, <1>3, <1>4

(* One task changes, and the queue of writes by one of it at most. *)
LEMMA TellOne ==
    ASSUME TypeOK, TellInv, NEW t \in Tasks, Entered(t)' /\ Walking(t)' /\ Metered(t)',
           UNCHANGED <<strays, disk>>,
           \A u \in Tasks : u # t =>
                /\ live'[u] = live[u] /\ ghosts'[u] = ghosts[u] /\ sent'[u] = sent[u]
                /\ work'[u] = work[u] /\ (u \in resent' <=> u \in resent)
                /\ \A c \in Callers : walk'[c].at = {u} <=> walk[c].at = {u},
           ready' \subseteq ready,
           \/ chain' = chain
           \/ \E rec \in Records, then \in Thens :
                  /\ then = "fire" => rec.st \in TERMINAL
                  /\ chain' = Queued(t, rec, then)
    PROVE  TellInv'
  <1>1. ASSUME NEW u \in Tasks PROVE Entered(u)' /\ Walking(u)' /\ Metered(u)'
    <2>1. CASE u = t
      BY <2>1
    <2>2. CASE u # t
      BY <2>2, TellSame DEF TellInv
    <2>. QED
      BY <2>1, <2>2
  <1>2. \A i \in 1..Len(chain') : chain'[i].then = "fire" => chain'[i].rec.st \in TERMINAL
    <2>1. CASE chain' = chain
      BY <2>1 DEF TellInv
    <2>2. ASSUME NEW rec \in Records, NEW then \in Thens, then = "fire" => rec.st \in TERMINAL,
                 chain' = Queued(t, rec, then)
          PROVE  \A i \in 1..Len(chain') : chain'[i].then = "fire" => chain'[i].rec.st \in TERMINAL
      <3>1. chain \in Seq(Writes)
        BY TypedParts DEF Parts, StoreTypes
      <3>2. /\ Len(chain') = Len(chain) + 1
            /\ \A i \in 1..Len(chain) : chain'[i] = chain[i]
            /\ chain'[Len(chain) + 1] = [task |-> t, rec |-> rec, then |-> then]
        BY <2>2, <3>1, QueueTypes
      <3>3. Len(chain) \in Nat
        BY <3>1
      <3>4. \A i \in 1..Len(chain') : i \in 1..Len(chain) \/ i = Len(chain) + 1
        BY <3>2, <3>3
      <3>. QED
        BY <2>2, <3>2, <3>4 DEF TellInv
    <2>. QED
      BY <2>1, <2>2
  <1>. QED
    BY <1>1, <1>2 DEF TellInv

(* A task in the foreground, and what a manager is told of a task that enters. *)
LEMMA NewTaskKeepsTell ==
    ASSUME TypeOK, WaitInv, LedgerInv, TellInv, NEW t \in Tasks, registerTask(t) \/ detach(t)
    PROVE  TellInv'
  <1>. DEFINE entry == [NoEntry EXCEPT !.st = "running"]
  <1>0. /\ live \in [Tasks -> Entries] /\ work \in [Tasks -> {"none", "attached", "draining",
                "returned", "starting", "running", "over"}]
    BY TypedParts DEF Parts, ManagerTypes
  <1>1. PICK then \in {"start", "none"} : Adds(t, then)
    BY DEF registerTask, detach
  <1>2. live' = [live EXCEPT ![t] = entry] /\ chain' = Queued(t, toPersisted(entry), then)
    BY <1>1 DEF Adds
  <1>3. entry \in Entries /\ ~entry.fired /\ ~entry.q /\ entry.st = "running"
    BY NewEntryTypes DEF NoEntry
  <1>4. toPersisted(entry) \in Records
    BY <1>3, EntryTypes
  <1>5. UNCHANGED <<strays, disk, ghosts, sent, resent, walk, ready>>
    BY DEF registerTask, detach, ledgerVars, talkVars
  <1>6. \A u \in Tasks : u # t => live'[u] = live[u] /\ work'[u] = work[u]
    BY <1>0, <1>2 DEF registerTask, detach
  <1>. HIDE DEF entry
  <1>7. live'[t] = entry
    BY <1>0, <1>2
  <1>8. live[t].st = "none" /\ strays[t] = "none" /\ ghosts[t] = NoRecord
    <2>1. CASE registerTask(t)
      BY <2>1 DEF registerTask, LedgerInv, Apart, WaitInv
    <2>2. CASE detach(t)
      BY <2>2 DEF detach, LedgerInv, Apart, TellInv, Entered, Foreground
    <2>. QED
      BY <2>1, <2>2
  <1>9. sent[t] = 0
    BY <1>8 DEF TellInv, Metered, Walking, Mourned, NoRecord, TERMINAL
  <1>10. Entered(t)'
    <2>1. [task |-> t, then |-> "fire"] \in ready' => disk'[t].st \in TERMINAL
      BY <1>5 DEF TellInv, Entered
    <2>. QED
      BY <1>3, <1>5, <1>7, <1>8, <2>1 DEF Entered
  <1>11. Walking(t)'
    BY <1>5 DEF TellInv, Walking
  <1>12. Metered(t)'
    BY <1>3, <1>5, <1>7, <1>9 DEF Metered
  <1>13. then \in Thens /\ then # "fire"
    BY DEF Thens
  <1>. QED
    BY <1>2, <1>4, <1>5, <1>6, <1>10, <1>11, <1>12, <1>13, TellOne

(* Steps that leave the entry of a task, its ghost and the walks. *)
LEMMA ForegroundKeepsTell ==
    ASSUME TypeOK, WaitInv, LedgerInv, TellInv, NEW t \in Tasks,
           \/ Starts(t) \/ runAttached(t) \/ ForegroundKill(t) \/ AttachedEnds(t)
           \/ Drained(t) \/ wait(t) \/ WaitGivesUp(t)
    PROVE  TellInv'
  <1>0. work \in [Tasks -> {"none", "attached", "draining",
                "returned", "starting", "running", "over"}]
    BY TypedParts DEF Parts, ManagerTypes
  <1>1. /\ UNCHANGED <<live, strays, disk, ghosts, sent, resent, walk, chain>>
        /\ ready' \subseteq ready
    BY DEF Starts, runAttached, ForegroundKill, AttachedEnds, Drained, wait, WaitGivesUp,
           ledgerVars, talkVars, storeVars
  <1>2. \A u \in Tasks : work'[u] \in Foreground => work[u] \in Foreground \/ strays[u] = "none"
    <2>1. CASE Starts(t) \/ Drained(t) \/ AttachedEnds(t)
      BY <1>0, <2>1 DEF Starts, Drained, AttachedEnds, Foreground
    <2>2. CASE runAttached(t)
      BY <1>0, <2>2 DEF runAttached, Foreground, LedgerInv, Apart
    <2>3. CASE ForegroundKill(t) \/ wait(t) \/ WaitGivesUp(t)
      BY <2>3 DEF ForegroundKill, wait, WaitGivesUp
    <2>. QED
      BY <2>1, <2>2, <2>3
  <1>3. \A u \in Tasks : Entered(u)'
    BY <1>1, <1>2 DEF TellInv, Entered
  <1>4. \A u \in Tasks : Walking(u)' /\ Metered(u)'
    BY <1>1 DEF TellInv, Walking, Metered, Mourned, Pending
  <1>. QED
    BY <1>1, <1>3, <1>4 DEF TellInv

(* The effects of the end of a task. *)
LEMMA FireKeepsTell ==
    ASSUME TypeOK, TellInv, NEW t \in Tasks, fireTerminalEffects(t),
           live[t].st = "killed" \/ (live[t].st # "none" /\ disk[t].st \in TERMINAL),
           UNCHANGED <<strays, disk, ledgerVars>>, ready' \subseteq ready,
           \A u \in Tasks : /\ work'[u] \in Foreground => work[u] \in Foreground
                            /\ u # t => work'[u] = work[u]
    PROVE  TellInv'
  <1>. DEFINE entry == [live[t] EXCEPT !.fired = TRUE, !.q = @ \/ ~live[t].quiet]
  <1>1. live \in [Tasks -> Entries] /\ live[t] \in Entries /\ sent \in [Tasks -> Nat]
    BY TypedParts DEF Parts, ManagerTypes, TalkTypes
  <1>2. /\ live' = live \/ (~live[t].fired /\ live' = [live EXCEPT ![t] = entry])
        /\ sent' = sent \/ (~live[t].fired /\ live' # live /\ sent' = [sent EXCEPT ![t] = @ + 1])
        /\ chain' = chain \/ chain' = Queued(t, toPersisted(entry), "none")
    <2>1. CASE live[t].fired
      BY <2>1 DEF fireTerminalEffects
    <2>2. CASE ~live[t].fired
      <3>1. live' = [live EXCEPT ![t] = entry]
        BY <2>2 DEF fireTerminalEffects
      <3>2. live'[t].fired
        BY <1>1, <3>1 DEF Entries
      <3>. QED
        BY <2>2, <3>1, <3>2 DEF fireTerminalEffects
    <2>. QED
      BY <2>1, <2>2
  <1>3. entry \in Entries /\ entry.st = live[t].st /\ entry.fired
    <2>1. (live[t].q \/ ~live[t].quiet) \in BOOLEAN
      OBVIOUS
    <2>. QED
      BY <1>1, <2>1, EntryTypes DEF Entries
  <1>4. toPersisted(entry) \in Records
    BY <1>3, EntryTypes
  <1>. HIDE DEF entry
  <1>5. \A u \in Tasks : u # t => live'[u] = live[u] /\ sent'[u] = sent[u]
    BY <1>1, <1>2
  <1>6. live'[t] = live[t] \/ (~live[t].fired /\ live'[t] = entry)
    BY <1>1, <1>2
  <1>7. live'[t].st = live[t].st
    BY <1>3, <1>6
  <1>8. UNCHANGED <<ghosts, resent, walk>>
    BY DEF ledgerVars
  <1>9. Entered(t)'
    <2>1. live'[t].q => live'[t].fired
      BY <1>3, <1>6 DEF TellInv, Entered
    <2>2. live'[t].st # "none" => strays[t] = "none"
      BY <1>7 DEF TellInv, Entered
    <2>. QED
      BY <1>7, <2>1, <2>2 DEF TellInv, Entered
  <1>10. Walking(t)'
    BY <1>8 DEF TellInv, Walking
  <1>11. Metered(t)'
    <2>1. CASE sent' = sent
      <3>1. live'[t].fired \/ live'[t].fired = live[t].fired
        BY <1>3, <1>6
      <3>. QED
        BY <1>7, <2>1, <3>1 DEF TellInv, Metered
    <2>2. CASE ~live[t].fired /\ live' # live /\ sent' = [sent EXCEPT ![t] = @ + 1]
      <3>1. sent[t] = 0
        BY <2>2 DEF TellInv, Metered
      <3>2. sent'[t] = 1
        BY <1>1, <2>2, <3>1
      <3>3. live'[t].fired
        BY <1>1, <1>2, <1>3, <2>2
      <3>. QED
        BY <1>7, <3>2, <3>3 DEF Metered
    <2>. QED
      BY <1>2, <2>1, <2>2
  <1>12. "none" \in Thens /\ "none" # "fire"
    BY DEF Thens
  <1>. QED
    BY <1>2, <1>4, <1>5, <1>8, <1>9, <1>10, <1>11, <1>12, TellOne

(* A settlement queues the write that its effects wait for. *)
LEMMA SettleKeepsTell ==
    ASSUME TypeOK, WaitInv, TellInv, NEW t \in Tasks, NEW status \in {"ended", "killed"},
           settleTask(t, status),
           UNCHANGED <<strays, disk, ledgerVars, ready>>,
           \A u \in Tasks : /\ work'[u] \in Foreground => work[u] \in Foreground
                            /\ u # t => work'[u] = work[u]
    PROVE  TellInv'
  <1>0. live \in [Tasks -> Entries] /\ live[t] \in Entries
    BY TypedParts DEF Parts, ManagerTypes
  <1>1. UNCHANGED <<ghosts, resent, walk>>
    BY DEF ledgerVars
  <1>2. CASE live[t].st = "running"
    <2>. DEFINE entry == [live[t] EXCEPT !.st = status]
    <2>1. /\ entry \in Entries /\ entry.st = status /\ entry.fired = live[t].fired
          /\ entry.q = live[t].q
      BY <1>0, EntryTypes DEF Entries
    <2>2. toPersisted(entry) \in Records /\ toPersisted(entry).st \in TERMINAL
      BY <2>1, EntryTypes DEF toPersisted, TERMINAL
    <2>3. /\ live' = [live EXCEPT ![t] = entry] /\ sent' = sent
          /\ chain' = Queued(t, toPersisted(entry), "fire")
      BY <1>2 DEF settleTask
    <2>. HIDE DEF entry
    <2>4. live'[t] = entry /\ \A u \in Tasks : u # t => live'[u] = live[u]
      BY <1>0, <2>3
    <2>5. ~live[t].fired
      BY <1>2 DEF WaitInv, Settled
    <2>6. Entered(t)'
      BY <1>2, <2>1, <2>4, <2>5 DEF TellInv, Entered
    <2>7. Walking(t)'
      BY <1>1 DEF TellInv, Walking
    <2>8. Metered(t)'
      BY <1>2, <2>1, <2>3, <2>4 DEF TellInv, Metered
    <2>9. "fire" \in Thens
      BY DEF Thens
    <2>. QED
      BY <1>1, <2>2, <2>3, <2>4, <2>6, <2>7, <2>8, <2>9, TellOne
  <1>3. CASE live[t].st # "running" /\ live[t].st = "killed" /\ status = "killed"
    BY <1>3, FireKeepsTell DEF settleTask
  <1>4. CASE live[t].st # "running" /\ ~(live[t].st = "killed" /\ status = "killed")
    <2>1. live' = live /\ sent' = sent /\ chain' = chain
      BY <1>4 DEF settleTask
    <2>2. Entered(t)' /\ Walking(t)' /\ Metered(t)'
      BY <1>1, <2>1 DEF TellInv, Entered, Walking, Metered, Mourned, Pending
    <2>. QED
      BY <1>1, <2>1, <2>2, TellOne
  <1>. QED
    BY <1>2, <1>3, <1>4

(* What a task, those who stop it and those who wait for it do to the notices. *)
LEMMA TaskKeepsTell ==
    ASSUME TypeOK, WaitInv, LedgerInv, TellInv, NEW t \in Tasks, TaskSteps(t)
    PROVE  TellInv'
  <1>0. /\ live \in [Tasks -> Entries] /\ live[t] \in Entries
        /\ work \in [Tasks -> {"none", "attached", "draining",
                "returned", "starting", "running", "over"}]
        /\ strays \in [Tasks -> {"none", "running", "settled", "landed", "gone"}]
        /\ disk \in [Tasks -> Records]
    BY TypedParts DEF Parts, ManagerTypes, SessionTypes, StoreTypes
  <1>1. CASE TaskEnds(t)
    <2>1. PICK status \in {"ended", "killed"} : settleTask(t, status)
      BY <1>1 DEF TaskEnds
    <2>2. \A u \in Tasks : /\ work'[u] \in Foreground => work[u] \in Foreground
                           /\ u # t => work'[u] = work[u]
      BY <1>0, <1>1 DEF TaskEnds, Foreground
    <2>. QED
      BY <1>1, <2>1, <2>2, SettleKeepsTell DEF TaskEnds
  <1>2. CASE Fires(t)
    <2>1. live[t].st # "none" /\ disk[t].st \in TERMINAL
      BY <1>2 DEF Fires, WaitInv, Settled, TellInv, Entered
    <2>. QED
      BY <1>2, <2>1, FireKeepsTell DEF Fires
  <1>3. CASE StopReturns(t)
    <2>1. UNCHANGED <<strays, disk, ledgerVars, ready, work>>
      BY <1>3 DEF StopReturns
    <2>2. CASE live[t].st = "running"
      BY <1>3, <2>1, <2>2, SettleKeepsTell DEF StopReturns
    <2>3. CASE live[t].st # "running"
      <3>1. UNCHANGED <<live, sent, chain, ghosts, resent, walk>>
        BY <1>3, <2>1, <2>3 DEF StopReturns, ledgerVars
      <3>2. Entered(t)' /\ Walking(t)' /\ Metered(t)'
        BY <2>1, <3>1 DEF TellInv, Entered, Walking, Metered, Mourned, Pending
      <3>. QED
        BY <2>1, <3>1, <3>2, TellOne
    <2>. QED
      BY <2>2, <2>3
  <1>4. CASE stop(t)
    <2>1. PICK quiet \in BOOLEAN : live' = [live EXCEPT ![t].quiet = @ \/ quiet]
      BY <1>4 DEF stop
    <2>2. \A u \in Tasks : /\ live'[u].st = live[u].st /\ live'[u].fired = live[u].fired
                           /\ live'[u].q = live[u].q /\ (u # t => live'[u] = live[u])
      BY <1>0, <2>1 DEF Entries
    <2>3. UNCHANGED <<strays, disk, ghosts, resent, walk, ready, work, chain, sent>>
      BY <1>4 DEF stop, ledgerVars, storeVars, talkVars
    <2>4. Entered(t)'
      BY <2>2, <2>3 DEF TellInv, Entered
    <2>5. Walking(t)'
      BY <2>3 DEF TellInv, Walking
    <2>6. Metered(t)'
      BY <2>2, <2>3 DEF TellInv, Metered, Mourned, Pending
    <2>. QED
      BY <2>2, <2>3, <2>4, <2>5, <2>6, TellOne
  <1>5. CASE Strays(t)
    <2>1. /\ UNCHANGED <<live, work, ghosts, resent, walk, ready, chain, sent>>
          /\ strays[t] # "none" /\ strays'[t] # "none"
          /\ \A u \in Tasks : u # t => strays'[u] = strays[u] /\ disk'[u] = disk[u]
      BY <1>0, <1>5 DEF Strays, StrayEnds, managerVars, ledgerVars, talkVars
    <2>2. live[t].st = "none" /\ work[t] \notin Foreground
      BY <2>1 DEF TellInv, Entered
    <2>3. [task |-> t, then |-> "fire"] \notin ready
      BY <2>2 DEF WaitInv, Settled
    <2>4. \A u \in Tasks : Entered(u)'
      BY <2>1, <2>2, <2>3 DEF TellInv, Entered
    <2>5. \A u \in Tasks : Walking(u)' /\ Metered(u)'
      BY <2>1 DEF TellInv, Walking, Metered, Mourned, Pending
    <2>. QED
      BY <2>1, <2>4, <2>5 DEF TellInv
  <1>. QED
    BY <1>1, <1>2, <1>3, <1>4, <1>5, NewTaskKeepsTell, ForegroundKeepsTell DEF TaskSteps

(* A notice of a ghost. *)
LEMMA SteersTell ==
    ASSUME TypeOK, NEW t \in Tasks, Steers(t, ghosts[t])
    PROVE  /\ \A u \in Tasks : u # t => ghosts'[u] = ghosts[u] /\ sent'[u] = sent[u]
           /\ ghosts'[t].st = ghosts[t].st /\ ghosts'[t].q /\ sent'[t] = sent[t] + 1
           /\ \E rec \in Records : chain' = Queued(t, rec, "none")
  <1>. DEFINE owed == [ghosts[t] EXCEPT !.q = TRUE]
  <1>1. /\ ghosts \in [Tasks -> Records] /\ ghosts[t] \in Records /\ sent \in [Tasks -> Nat]
    BY TypedParts DEF Parts, LedgerTypes, TalkTypes
  <1>2. owed \in Records /\ owed.q /\ owed.st = ghosts[t].st
    BY <1>1, RecordTypes DEF Records
  <1>3. /\ ghosts' = [ghosts EXCEPT ![t] = owed]
        /\ sent' = [sent EXCEPT ![t] = @ + 1]
        /\ chain' = Queued(t, owed, "none")
    BY DEF Steers
  <1>. HIDE DEF owed
  <1>. QED
    BY <1>1, <1>2, <1>3

(* The walks of reconcile count each ghost once, and a lost one once more. *)
LEMMA ReconcileKeepsTell ==
    ASSUME TypeOK, WaitInv, LedgerInv, TellInv, NEW c \in Callers, Reconciles(c)
    PROVE  TellInv'
  <1>0. /\ walk \in [Callers -> Walks] /\ ghosts \in [Tasks -> Records] /\ sent \in [Tasks -> Nat]
        /\ \A t \in Tasks : ghosts[t] \in Records
    BY TypedParts DEF Parts, LedgerTypes, TalkTypes
  <1>1. \A t \in Tasks : ghosts[t] # NoRecord => live[t].st = "none" /\ Latest(t) = ghosts[t]
    BY DEF LedgerInv, Apart, Latest
  <1>2. CASE Reconciled(c)
    <2>1. UNCHANGED <<live, work, strays, disk, ghosts, resent, ready, chain, sent>>
      BY <1>2 DEF Reconciled, managerVars, storeVars
    <2>2. \A d \in Callers, t \in Tasks : walk'[d].at = {t} <=> walk[d].at = {t}
      BY <1>0, <1>2 DEF Reconciled, NoWalk
    <2>3. ASSUME NEW t \in Tasks PROVE Entered(t)' /\ Walking(t)' /\ Metered(t)'
      BY <2>1, <2>2, TellSame DEF TellInv
    <2>. QED
      BY <2>1, <2>3 DEF TellInv
  <1>3. ASSUME NEW t \in Tasks, ReconcileLost(c, t) PROVE TellInv'
    <2>. DEFINE lost == [ghosts[t] EXCEPT !.st = "lost"]
    <2>1. /\ UNCHANGED <<live, work, strays, disk, resent, ready, sent>>
          /\ ghosts' = [ghosts EXCEPT ![t] = lost] /\ chain' = Queued(t, lost, "lost")
          /\ ghosts[t].st = "running"
      BY <1>3 DEF ReconcileLost, managerVars, talkVars
    <2>2. lost \in Records /\ lost.st = "lost" /\ lost.q = ghosts[t].q
      BY <1>0, RecordTypes DEF Records
    <2>3. ~ghosts[t].q
      BY <1>1, <2>1 DEF LedgerInv, Sounds, Sound, NoRecord, TERMINAL
    <2>4. /\ walk'[c].at = {t} /\ walk[c].at = {}
          /\ \A d \in Callers : d # c => walk'[d].at = walk[d].at
      BY <1>0, <1>3 DEF ReconcileLost, Walks
    <2>5. \A d \in Callers : walk[d].at # {t}
      BY <2>1 DEF LedgerInv, Noticed
    <2>. HIDE DEF lost
    <2>6. ghosts'[t] = lost /\ \A u \in Tasks : u # t => ghosts'[u] = ghosts[u]
      BY <1>0, <2>1
    <2>7. live[t].st = "none" /\ t \notin resent /\ sent[t] = 0
      <3>1. t \notin resent
        BY <2>1 DEF TellInv, Walking, TERMINAL
      <3>. QED
        BY <1>1, <2>1, <3>1 DEF TellInv, Metered, Mourned, NoRecord
    <2>8. Entered(t)'
      BY <2>1 DEF TellInv, Entered
    <2>9. Walking(t)'
      BY <2>1, <2>2, <2>3, <2>4, <2>5, <2>6, <2>7 DEF Walking
    <2>10. Metered(t)'
      BY <2>1, <2>7 DEF Metered
    <2>11. \A u \in Tasks, d \in Callers : u # t => (walk'[d].at = {u} <=> walk[d].at = {u})
      <3>. SUFFICES ASSUME NEW u \in Tasks, NEW d \in Callers, u # t
                    PROVE  walk'[d].at = {u} <=> walk[d].at = {u}
        OBVIOUS
      <3>1. {t} # {u} /\ {} # {u}
        OBVIOUS
      <3>. QED
        BY <2>4, <3>1
    <2>12. "lost" \in Thens /\ "lost" # "fire"
      BY DEF Thens
    <2>. QED
      BY <2>1, <2>2, <2>6, <2>8, <2>9, <2>10, <2>11, <2>12, TellOne
  <1>4. ASSUME NEW t \in Tasks, TellsLost(c, t) PROVE TellInv'
    <2>1. /\ UNCHANGED <<live, work, strays, disk, resent>> /\ ready' \subseteq ready
          /\ walk[c].at = {t} /\ Steers(t, ghosts[t])
      BY <1>4 DEF TellsLost, managerVars
    <2>2. /\ walk'[c].at = {} /\ \A d \in Callers : d # c => walk'[d].at = walk[d].at
      BY <1>0, <1>4 DEF TellsLost, Walks
    <2>3. ghosts[t].st = "lost" /\ \A d \in Callers : walk[d].at = {t} => d = c
      BY <2>1 DEF LedgerInv, Noticed, TellInv, Walking
    <2>4. \A d \in Callers : walk'[d].at # {t}
      <3>1. {} # {t}
        OBVIOUS
      <3>. QED
        BY <2>2, <2>3, <3>1
    <2>5. live[t].st = "none" /\ sent[t] <= 1 /\ (t \notin resent => sent[t] = 0)
      BY <1>1, <2>1, <2>3 DEF TellInv, Metered, Mourned, Pending, NoRecord
    <2>6. Entered(t)'
      BY <2>1 DEF TellInv, Entered
    <2>7. Walking(t)'
      BY <2>1, <2>4, SteersTell DEF TellInv, Walking
    <2>8. Metered(t)'
      <3>1. Mourned(t)'
        BY <2>1, <2>3, <2>4, SteersTell DEF Mourned, Pending
      <3>2. sent'[t] = sent[t] + 1 /\ sent[t] \in Nat
        BY <1>0, <2>1, SteersTell
      <3>3. sent'[t] <= 2 /\ (t \notin resent => sent'[t] <= 1)
        BY <2>5, <3>2
      <3>. QED
        BY <2>1, <2>5, <3>1, <3>3 DEF Metered
    <2>9. \A u \in Tasks, d \in Callers : u # t => (walk'[d].at = {u} <=> walk[d].at = {u})
      <3>. SUFFICES ASSUME NEW u \in Tasks, NEW d \in Callers, u # t
                    PROVE  walk'[d].at = {u} <=> walk[d].at = {u}
        OBVIOUS
      <3>1. {t} # {u} /\ {} # {u}
        OBVIOUS
      <3>. QED
        BY <2>1, <2>2, <3>1
    <2>10. "none" \in Thens /\ "none" # "fire"
      BY DEF Thens
    <2>11. /\ \A u \in Tasks : u # t => ghosts'[u] = ghosts[u] /\ sent'[u] = sent[u]
           /\ \E rec \in Records : chain' = Queued(t, rec, "none")
      BY <2>1, SteersTell
    <2>. QED
      BY <2>1, <2>6, <2>7, <2>8, <2>9, <2>10, <2>11, TellOne
  <1>5. ASSUME NEW t \in Tasks, ReconcileSettled(c, t) PROVE TellInv'
    <2>1. /\ UNCHANGED <<live, work, strays, disk, ready>>
          /\ ghosts[t].st \in TERMINAL
      BY <1>5 DEF ReconcileSettled, managerVars
    <2>2. \A d \in Callers, u \in Tasks : walk'[d].at = {u} <=> walk[d].at = {u}
      BY <1>0, <1>5 DEF ReconcileSettled, Walks
    <2>3. CASE ~Unconfirmed(t)
      <3>1. UNCHANGED <<resent, ghosts, sent, chain>>
        BY <1>5, <2>3 DEF ReconcileSettled
      <3>2. ASSUME NEW u \in Tasks PROVE Entered(u)' /\ Walking(u)' /\ Metered(u)'
        BY <2>1, <2>2, <3>1, TellSame DEF TellInv
      <3>. QED
        BY <3>1, <3>2 DEF TellInv
    <2>4. CASE Unconfirmed(t)
      <3>1. resent' = resent \union {t} /\ Steers(t, ghosts[t])
        BY <1>5, <2>4 DEF ReconcileSettled
      <3>2. ghosts[t].q /\ t \notin resent
        BY <2>4 DEF Unconfirmed
      <3>3. ~Pending(t) /\ ~Pending(t)'
        BY <2>2, <3>2 DEF TellInv, Walking, Pending
      <3>4. live[t].st = "none" /\ sent[t] <= 1 /\ (ghosts[t].st # "lost" => sent[t] = 0)
        BY <1>1, <2>1, <3>2 DEF TellInv, Metered, Mourned, NoRecord, TERMINAL
      <3>5. sent'[t] = sent[t] + 1 /\ sent[t] \in Nat /\ ghosts'[t].st = ghosts[t].st
        BY <1>0, <3>1, SteersTell
      <3>6. sent'[t] <= 2 /\ (ghosts[t].st # "lost" => sent'[t] <= 1)
        BY <3>4, <3>5
      <3>7. Metered(t)'
        BY <2>1, <3>1, <3>3, <3>4, <3>5, <3>6 DEF Metered, Mourned
      <3>8. Walking(t)'
        BY <2>1, <3>3, <3>5 DEF Walking, Pending
      <3>9. Entered(t)'
        BY <2>1 DEF TellInv, Entered
      <3>10. "none" \in Thens /\ "none" # "fire"
        BY DEF Thens
      <3>11. /\ \A u \in Tasks : u # t => ghosts'[u] = ghosts[u] /\ sent'[u] = sent[u]
             /\ \E rec \in Records : chain' = Queued(t, rec, "none")
        BY <3>1, SteersTell
      <3>. QED
        BY <2>1, <2>2, <3>1, <3>7, <3>8, <3>9, <3>10, <3>11, TellOne
    <2>. QED
      BY <2>3, <2>4
  <1>. QED
    BY <1>2, <1>3, <1>4, <1>5 DEF Reconciles

(* A write that lands: its continuation is ready, and the record on disk is
   the end of the task from then on. *)
LEMMA WriteKeepsTell ==
    ASSUME TypeOK, WaitInv, LedgerInv, TellInv, writeTask
    PROVE  TellInv'
  <1>1. chain \in Seq(Writes) /\ chain # <<>> /\ disk \in [Tasks -> Records]
    BY TypedParts DEF Parts, StoreTypes, writeTask
  <1>2. PICK w \in Writes : w = chain[1] /\ w = Head(chain)
    BY <1>1
  <1>3. /\ UNCHANGED <<live, work, ghosts, resent, walk, strays, sent>>
        /\ disk' = [disk EXCEPT ![w.task] = w.rec]
        /\ \A t \in Tasks : [task |-> t, then |-> "fire"] \in ready' =>
              \/ [task |-> t, then |-> "fire"] \in ready
              \/ w.task = t /\ w.then = "fire"
    BY <1>1, <1>2 DEF writeTask, managerVars, ledgerVars, talkVars
  <1>4. /\ 1 \in 1..Len(chain) /\ Len(chain') = Len(chain) - 1
        /\ \A i \in 1..Len(chain') : i + 1 \in 1..Len(chain) /\ chain'[i] = chain[i + 1]
    BY <1>1 DEF writeTask
  <1>5. w.then = "fire" => w.rec.st \in TERMINAL
    BY <1>2, <1>4 DEF TellInv
  <1>6. w.task \in Tasks /\ w.rec \in Records
    BY <1>2 DEF Writes
  <1>7. ASSUME NEW t \in Tasks PROVE Entered(t)'
    <2>1. disk'[t] = disk[t] \/ (w.task = t /\ disk'[t] = w.rec)
      BY <1>1, <1>3
    <2>2. live[t].st # "none" => strays[t] = "none"
      BY DEF TellInv, Entered
    <2>3. live[t].st # "none" /\ disk[t].st \in TERMINAL => disk'[t].st \in TERMINAL
      BY <1>2, <1>4, <2>1, <2>2 DEF LedgerInv, Climbing, Climbs, Under
    <2>4. [task |-> t, then |-> "fire"] \in ready => live[t].st # "none"
      BY DEF WaitInv, Settled
    <2>5. [task |-> t, then |-> "fire"] \in ready' => disk'[t].st \in TERMINAL
      <3>1. CASE [task |-> t, then |-> "fire"] \in ready
        BY <2>3, <2>4, <3>1 DEF TellInv, Entered
      <3>2. CASE w.task = t /\ w.then = "fire"
        BY <1>1, <1>3, <1>5, <3>2
      <3>. QED
        BY <1>3, <3>1, <3>2
    <2>. QED
      BY <1>3, <2>2, <2>3, <2>5 DEF TellInv, Entered
  <1>8. ASSUME NEW t \in Tasks PROVE Walking(t)' /\ Metered(t)'
    BY <1>3 DEF TellInv, Walking, Metered, Mourned, Pending
  <1>9. \A i \in 1..Len(chain') : chain'[i].then = "fire" => chain'[i].rec.st \in TERMINAL
    BY <1>4 DEF TellInv
  <1>. QED
    BY <1>7, <1>8, <1>9 DEF TellInv

(* The stamp of delivery. *)
LEMMA StampKeepsTell ==
    ASSUME TypeOK, TellInv, NEW t \in Tasks, stampNotified(t),
           UNCHANGED <<work, resent, walk, strays, disk, sent, ready>>
    PROVE  TellInv'
  <1>. DEFINE entry == [live[t] EXCEPT !.n = TRUE]
              ghost == [ghosts[t] EXCEPT !.n = TRUE]
  <1>1. /\ live \in [Tasks -> Entries] /\ live[t] \in Entries
        /\ ghosts \in [Tasks -> Records] /\ ghosts[t] \in Records
    BY TypedParts DEF Parts, ManagerTypes, LedgerTypes
  <1>2. /\ entry \in Entries /\ entry.st = live[t].st /\ entry.q = live[t].q
        /\ entry.fired = live[t].fired
    BY <1>1, EntryTypes DEF Entries
  <1>3. /\ toPersisted(entry) \in Records
        /\ ghost \in Records /\ ghost.st = ghosts[t].st /\ ghost.q = ghosts[t].q
    BY <1>1, <1>2, EntryTypes, RecordTypes DEF Records
  <1>4. /\ live' = live \/ live' = [live EXCEPT ![t] = entry]
        /\ ghosts' = ghosts \/ ghosts' = [ghosts EXCEPT ![t] = ghost]
        /\ chain' = chain \/ \E rec \in Records : chain' = Queued(t, rec, "none")
    <2>1. CASE live[t].st # "none"
      <3>1. live' = live \/ live' = [live EXCEPT ![t].n = TRUE]
        BY <2>1 DEF stampNotified
      <3>2. [live EXCEPT ![t].n = TRUE] = [live EXCEPT ![t] = entry]
        BY <1>1
      <3>. QED
        BY <1>3, <2>1, <3>1, <3>2 DEF stampNotified
    <2>2. CASE live[t].st = "none"
      <3>1. ghosts' = ghosts \/ ghosts' = [ghosts EXCEPT ![t].n = TRUE]
        BY <2>2 DEF stampNotified
      <3>2. [ghosts EXCEPT ![t].n = TRUE] = [ghosts EXCEPT ![t] = ghost]
        BY <1>1
      <3>. QED
        BY <1>3, <2>2, <3>1, <3>2 DEF stampNotified
    <2>. QED
      BY <2>1, <2>2
  <1>. HIDE DEF entry, ghost
  <1>5. /\ \A u \in Tasks : u # t => live'[u] = live[u] /\ ghosts'[u] = ghosts[u]
        /\ live'[t] = live[t] \/ live'[t] = entry
        /\ ghosts'[t] = ghosts[t] \/ ghosts'[t] = ghost
    BY <1>1, <1>4
  <1>6. /\ live'[t].st = live[t].st /\ live'[t].q = live[t].q /\ live'[t].fired = live[t].fired
        /\ ghosts'[t].st = ghosts[t].st /\ ghosts'[t].q = ghosts[t].q
    BY <1>2, <1>3, <1>5
  <1>7. Entered(t)'
    BY <1>6 DEF TellInv, Entered
  <1>8. Walking(t)'
    BY <1>6 DEF TellInv, Walking
  <1>9. Metered(t)'
    BY <1>6 DEF TellInv, Metered, Mourned, Pending
  <1>10. "none" \in Thens /\ "none" # "fire"
    BY DEF Thens
  <1>. QED
    BY <1>4, <1>5, <1>7, <1>8, <1>9, <1>10, TellOne

(* A run starts and ends, and takes notices into the conversation. *)
LEMMA TalkKeepsTell ==
    ASSUME TypeOK, TellInv, RunBegins \/ DrainNotice \/ RunEnds \/ AppendLands
    PROVE  TellInv'
  <1>1. CASE RunBegins \/ RunEnds
    <2>1. UNCHANGED <<live, work, strays, disk, ghosts, resent, ready, chain, sent>>
      BY <1>1 DEF RunBegins, RunEnds, managerVars, ledgerVars, storeVars
    <2>2. walk \in [Callers -> Walks]
      BY TypedParts DEF Parts, LedgerTypes
    <2>3. \A c \in Callers : walk'[c].at = walk[c].at \/ walk'[c].at = {}
      BY <1>1, <2>2 DEF RunBegins, RunEnds, ledgerVars
    <2>4. ASSUME NEW t \in Tasks PROVE Entered(t)' /\ Walking(t)' /\ Metered(t)'
      <3>1. \A c \in Callers : walk'[c].at = {t} => walk[c].at = {t}
        BY <2>3
      <3>2. Mourned(t) => Mourned(t)'
        BY <2>1, <3>1 DEF Mourned, Pending
      <3>3. Entered(t)'
        BY <2>1 DEF TellInv, Entered
      <3>4. Walking(t)'
        BY <2>1, <3>1 DEF TellInv, Walking
      <3>5. Metered(t) /\ (live'[t].st # "none" <=> live[t].st # "none")
        BY <2>1 DEF TellInv
      <3>6. Metered(t)'
        BY <2>1, <3>2, <3>5 DEF Metered
      <3>. QED
        BY <3>3, <3>4, <3>6
    <2>. QED
      BY <2>1, <2>4 DEF TellInv
  <1>2. CASE DrainNotice \/ AppendLands
    <2>1. UNCHANGED <<work, resent, walk, strays, disk, sent, ready>>
      BY <1>2 DEF DrainNotice, AppendLands
    <2>2. CASE \E t \in Tasks : stampNotified(t)
      BY <2>1, <2>2, StampKeepsTell
    <2>3. CASE UNCHANGED <<live, ghosts, chain>>
      BY <2>1, <2>3 DEF TellInv, Entered, Walking, Metered, Mourned, Pending
    <2>4. /\ bus # <<>> => Head(bus) \in Tasks
          /\ outbox # <<>> => Head(outbox) \in Tasks
      BY TypedParts DEF Parts, TalkTypes
    <2>. QED
      BY <1>2, <2>2, <2>3, <2>4 DEF DrainNotice, AppendLands
  <1>. QED
    BY <1>1, <1>2

(* A process that goes leaves no notice, and another starts with none. *)
LEMMA ProcessKeepsTell ==
    ASSUME TypeOK, LedgerInv, TellInv, crash \/ closeSession \/ Reopen
    PROVE  TellInv'
  <1>1. CASE crash \/ closeSession
    <2>1. /\ \A t \in Tasks : /\ live'[t] = NoEntry /\ ghosts'[t] = NoRecord /\ sent'[t] = 0
                              /\ work'[t] = "none"
          /\ chain' = <<>> /\ ready' = {} /\ resent' = {}
          /\ \A c \in Callers : walk'[c] = NoWalk
      BY <1>1 DEF crash, closeSession, Clears, Each
    <2>. QED
      BY <2>1 DEF TellInv, Entered, Walking, Metered, NoEntry, NoRecord, NoWalk, Foreground
  <1>2. CASE Reopen
    <2>1. /\ UNCHANGED <<live, work, strays, disk, resent, ready, chain, sent>>
          /\ \A t \in Tasks : live[t].st = "none" /\ ghosts[t] = NoRecord
          /\ \A c \in Callers : walk[c].at = {}
      BY <1>2 DEF Reopen, managerVars, storeVars, talkVars, LedgerInv, Down
    <2>2. walk \in [Callers -> Walks]
      BY TypedParts DEF Parts, LedgerTypes
    <2>3. \A c \in Callers : walk'[c].at = {}
      BY <1>2, <2>1, <2>2 DEF Reopen
    <2>4. \A t \in Tasks : t \notin resent /\ sent[t] = 0
      BY <2>1 DEF TellInv, Walking, Metered, Mourned, NoRecord, TERMINAL
    <2>. QED
      BY <2>1, <2>3, <2>4 DEF TellInv, Entered, Walking, Metered
  <1>. QED
    BY <1>1, <1>2

(* Every step keeps the invariant of the notices. *)
LEMMA TellInductive == TypeOK /\ WaitInv /\ LedgerInv /\ TellInv /\ [Next]_vars => TellInv'
  <1>. SUFFICES ASSUME TypeOK, WaitInv, LedgerInv, TellInv, [Next]_vars PROVE TellInv'
    OBVIOUS
  <1>1. CASE UNCHANGED vars
    BY <1>1 DEF vars, managerVars, ledgerVars, storeVars, talkVars, TellInv, Entered, Walking,
                Metered, Mourned, Pending
  <1>. QED
    BY <1>1, TaskKeepsTell, ReconcileKeepsTell, WriteKeepsTell, TalkKeepsTell,
       ProcessKeepsTell DEF Next

(* Of what has been told the record says so, and how often is bounded. *)
LEMMA TellMeans == TypeOK /\ WaitInv /\ LedgerInv /\ TellInv => RecordedBeforeTold /\ ToldOncePerProcess
  <1>. SUFFICES ASSUME TypeOK, WaitInv, LedgerInv, TellInv
                PROVE  RecordedBeforeTold /\ ToldOncePerProcess
    OBVIOUS
  <1>1. RecordedBeforeTold
    <2>. SUFFICES ASSUME NEW t \in Tasks, live[t].fired
                  PROVE  \/ disk[t].st = live[t].st
                         \/ live[t].st = "killed" /\ \E i \in DOMAIN chain :
                                chain[i].task = t /\ chain[i].rec.st = "killed"
      BY DEF RecordedBeforeTold
    <2>0. chain \in Seq(Writes) /\ up \in BOOLEAN
      BY TypedParts DEF Parts, StoreTypes, SessionTypes
    <2>1. CASE live[t].st = "none"
      BY <2>1 DEF WaitInv, Settled
    <2>2. CASE live[t].st # "none"
      <3>1. up /\ strays[t] = "none" /\ (disk[t].st \in TERMINAL \/ live[t].st = "killed")
        BY <2>2 DEF LedgerInv, Down, TellInv, Entered
      <3>2. Climbs(t) /\ Latest(t).st = live[t].st
        BY <2>2, <3>1 DEF LedgerInv, Climbing, Latest, toPersisted
      <3>3. CASE disk[t].st \in TERMINAL
        BY <3>1, <3>2, <3>3 DEF Climbs, Under
      <3>4. CASE live[t].st = "killed" /\ disk[t].st \notin TERMINAL
        <4>1. PICK i \in 1..Len(chain) : chain[i].task = t /\ chain[i].rec.st \in TERMINAL
          BY <3>1, <3>2, <3>4 DEF Climbs, TERMINAL
        <4>2. chain[i].rec.st = "killed"
          BY <3>2, <3>4, <4>1 DEF Climbs, Under
        <4>. QED
          BY <2>0, <3>4, <4>1, <4>2
      <3>. QED
        BY <3>1, <3>3, <3>4
    <2>. QED
      BY <2>1, <2>2
  <1>2. ToldOncePerProcess
    <2>. SUFFICES ASSUME NEW t \in Tasks
                  PROVE  sent[t] <= IF ghosts[t].st = "lost" THEN 2 ELSE 1
      BY DEF ToldOncePerProcess
    <2>1. sent[t] \in Nat
      BY TypedParts DEF Parts, TalkTypes
    <2>2. Metered(t)
      BY DEF TellInv
    <2>3. CASE live[t].st # "none"
      BY <2>1, <2>2, <2>3 DEF Metered
    <2>4. CASE live[t].st = "none"
      BY <2>1, <2>2, <2>4 DEF Metered, Mourned
    <2>. QED
      BY <2>3, <2>4
  <1>. QED
    BY <1>1, <1>2

(* Whose notice a step queues. *)
LEMMA TellsUndelivered ==
    TypeOK /\ WaitInv /\ LedgerInv /\ TellInv /\ [Next]_vars => ConfirmedIsFinal
  <1>. SUFFICES ASSUME TypeOK, WaitInv, LedgerInv, TellInv, [Next]_vars, NEW t \in Tasks,
                       sent'[t] > sent[t], strays[t] = "none"
                PROVE  ~disk[t].n
    BY DEF ConfirmedIsFinal
  <1>0. /\ sent \in [Tasks -> Nat] /\ live \in [Tasks -> Entries] /\ up \in BOOLEAN
        /\ ghosts \in [Tasks -> Records] /\ disk \in [Tasks -> Records]
    BY TypedParts DEF Parts, TalkTypes, ManagerTypes, LedgerTypes, StoreTypes, SessionTypes
  <1>1. sent' # sent
    BY <1>0
  <1>2. Climbs(t) /\ Sound(Latest(t))
    BY DEF LedgerInv, Climbing, Sounds
  <1>3. up /\ ~Latest(t).n => ~disk[t].n
    BY <1>2 DEF Climbs, Under
  <1>4. ASSUME NEW u \in Tasks, fireTerminalEffects(u), live[u].st # "none" PROVE ~disk[t].n
    <2>1. ~live[u].fired /\ u = t
      <3>1. ~live[u].fired /\ sent' = [sent EXCEPT ![u] = @ + 1]
        BY <1>1, <1>4 DEF fireTerminalEffects
      <3>2. u # t => sent'[t] = sent[t]
        BY <1>0, <3>1
      <3>. QED
        BY <1>0, <3>1, <3>2
    <2>2. ~live[t].q /\ live[t].st # "none" /\ up
      BY <1>4, <2>1 DEF TellInv, Entered, LedgerInv, Down
    <2>3. Latest(t).q = live[t].q
      BY <2>2 DEF Latest, toPersisted
    <2>. QED
      BY <1>2, <1>3, <2>2, <2>3 DEF Sound
  <1>5. ASSUME NEW u \in Tasks, Steers(u, ghosts[u]), up, ghosts[u] # NoRecord, ~ghosts[u].n
        PROVE  ~disk[t].n
    <2>1. u = t
      <3>1. u # t => sent'[t] = sent[t]
        BY <1>5, SteersTell
      <3>. QED
        BY <1>0, <3>1
    <2>2. Latest(t) = ghosts[t]
      BY <1>5, <2>1 DEF LedgerInv, Apart, Latest
    <2>. QED
      BY <1>3, <1>5, <2>1, <2>2
  <1>6. ASSUME NEW u \in Tasks, NEW status \in {"ended", "killed"}, settleTask(u, status)
        PROVE  ~disk[t].n
    BY <1>1, <1>4, <1>6 DEF settleTask
  <1>7. ASSUME NEW u \in Tasks, TaskSteps(u) PROVE ~disk[t].n
    <2>1. CASE TaskEnds(u) \/ StopReturns(u)
      BY <1>1, <1>6, <2>1 DEF TaskEnds, StopReturns
    <2>2. CASE Fires(u)
      BY <1>4, <2>2 DEF Fires, WaitInv, Settled
    <2>3. CASE ~(TaskEnds(u) \/ StopReturns(u) \/ Fires(u))
      BY <1>1, <1>7, <2>3
      DEF TaskSteps, registerTask, Starts, runAttached, ForegroundKill, AttachedEnds, Drained,
          detach, stop, wait, WaitGivesUp, Strays, talkVars
    <2>. QED
      BY <2>1, <2>2, <2>3
  <1>8. ASSUME NEW c \in Callers, Reconciles(c) PROVE ~disk[t].n
    <2>1. CASE Reconciled(c)
      BY <1>1, <2>1 DEF Reconciled
    <2>2. ASSUME NEW u \in Tasks, ReconcileLost(c, u) PROVE ~disk[t].n
      BY <1>1, <2>2 DEF ReconcileLost, talkVars
    <2>3. ASSUME NEW u \in Tasks, TellsLost(c, u) PROVE ~disk[t].n
      <3>1. up
        BY <2>3 DEF TellsLost, LedgerInv, Down
      <3>2. ghosts[u].st = "lost" /\ ~ghosts[u].q
        BY <2>3 DEF TellsLost, LedgerInv, Noticed, TellInv, Walking
      <3>3. ghosts[u] # NoRecord
        BY <3>2 DEF NoRecord
      <3>4. Latest(u) = ghosts[u]
        BY <3>3 DEF LedgerInv, Apart, Latest
      <3>5. ~ghosts[u].n
        BY <3>2, <3>4 DEF LedgerInv, Sounds, Sound
      <3>. QED
        BY <1>5, <2>3, <3>1, <3>3, <3>5 DEF TellsLost
    <2>4. ASSUME NEW u \in Tasks, ReconcileSettled(c, u) PROVE ~disk[t].n
      <3>1. Unconfirmed(u) /\ Steers(u, ghosts[u])
        BY <1>1, <2>4 DEF ReconcileSettled
      <3>2. up
        BY <2>4 DEF ReconcileSettled, LedgerInv, Down
      <3>. QED
        BY <1>5, <3>1, <3>2 DEF Unconfirmed, NoRecord
    <2>. QED
      BY <1>8, <2>1, <2>2, <2>3, <2>4 DEF Reconciles
  <1>9. CASE crash \/ closeSession
    <2>1. sent'[t] = 0
      BY <1>9 DEF crash, closeSession, Clears, Each
    <2>. QED
      BY <1>0, <2>1
  <1>10. CASE \/ writeTask \/ RunBegins \/ DrainNotice \/ RunEnds \/ AppendLands \/ Reopen
              \/ UNCHANGED vars
    BY <1>1, <1>10 DEF writeTask, RunBegins, DrainNotice, RunEnds, AppendLands, Reopen, vars,
                       talkVars
  <1>. QED
    BY <1>7, <1>8, <1>9, <1>10 DEF Next

(* A notice is sent when the end can be looked up, at most once in a process
   (a lost task's a second time, by its redelivery), and by no process that
   reads that it was delivered, in whatever order kills, writes, walks, crashes
   and closes come (manager.ts:376-380, 451-478, 1165-1190, persist.ts:28-30). *)
THEOREM NoticesStayInOrder == Spec => NoticesAreInOrder
  <1>. DEFINE I == TypeOK /\ WaitInv /\ LedgerInv /\ TellInv
  <1>1. Init => I
    BY InitTypes, WaitInit, LedgerInitially, TellInitially
  <1>2. I /\ TypeOK' /\ [Next]_vars => I'
    BY WaitInductive, LedgerInductive, TellInductive
  <1>3. I /\ I' /\ [Next]_vars
          => [RecordedBeforeTold' /\ ToldOncePerProcess' /\ ConfirmedIsFinal]_vars
    <2>1. I' => RecordedBeforeTold' /\ ToldOncePerProcess'
      BY TellMeans, PTL
    <2>. QED
      BY <2>1, TellsUndelivered
  <1>. QED
    BY <1>1, <1>2, <1>3, TypeCorrect, PTL DEF Spec, NoticesAreInOrder
=============================================================================
