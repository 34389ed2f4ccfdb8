------------------------------ MODULE PeerMail ------------------------------
(***************************************************************************)
(* Messages between agents: the PeerNetwork of agents-peers/src/network.ts *)
(* with the write-ahead ledger of mailbox.ts, the roster of directory.ts,  *)
(* the inbox op of the Team and Hub tools, and the recipient's side of     *)
(* steerTo (agents/src/harness.ts).                                        *)
(*                                                                         *)
(* `ledger`, `roster`, `paused`, `appended` and `answered` are on disk.    *)
(* The sessions, their runs and queues, the settles in flight and the      *)
(* calls under way are lost with the process.  A message is a constant     *)
(* with its recipient: who may address whom (visibility, team scope,       *)
(* names) is decided before dispatch and is left out, and so are the       *)
(* budget and the statistics.  A queue and a conversation are sets: that a *)
(* message can come twice, when reconcile meets one on its way or whose    *)
(* settle was cut off, is not told apart.                                  *)
(***************************************************************************)
EXTENDS Naturals, FiniteSets

CONSTANTS
    Messages,
    Members,
    To,         \* the recipient of each message
    Scenes      \* what there is and may happen: a behaviour has one

(* Which messages are sent, which members are a frame of another agent's
   session (kind "subagent"), PeerLimits.mailboxCapacity, whether sessions close
   and teams are disbanded, and the bounds: crashes, and sessions that cannot be
   opened or settles that throw. *)
Scene == [mail : SUBSET Messages, subagents : SUBSET Members, capacity : Nat,
          may : SUBSET {"close", "disband"}, crashes : Nat, faults : Nat]

ASSUME ToAssumption == To \in [Messages -> Members]
ASSUME ScenesAssumption == Scenes \subseteq Scene

VARIABLES
    ledger,     \* PeerMailbox: the messages in flight
    roster,     \* the members with a row, and a card
    paused,     \* the members whose last run waits for an answer (lastRunInterrupted)
    appended,   \* the messages in the conversation of their recipient
    answered,   \* the messages a recorded result of the inbox op holds
    sending,    \* how far the send, or the redelivery, of a message is
    stale,      \* the deliveries whose session was closed after it was opened for them
    queue,      \* messages on the bus of an open session
    session,    \* the lifecycle of each member's session
    running,    \* the members whose frame is in a run
    settling,   \* settles that `observe` started
    inbox,      \* each member's inbox call: what it read, and what of it is not yet settled
    abandoned,  \* what a drain nobody waits for any more has yet to settle
    attached,   \* `actions` is set
    reconciling,\* the startup pass: under way, done, the recipients it has yet to visit
    receipt,    \* history: what its sender was told
    dropped,    \* history: dropped with their team, or by reconcile for want of a recipient
    refused,    \* history: settled by a delivery the recipient's session refused
    cut,        \* history: settled by an inbox call whose result was never recorded
    crashes, faults,    \* counters for the bounds
    scene       \* the scene

disk == <<ledger, roster, paused, appended, answered>>
host == <<session, running, attached, reconciling>>
calls == <<settling, inbox, abandoned>>
delivery == <<sending, stale, queue>>
losses == <<dropped, refused, cut>>
history == <<receipt, losses, crashes, faults>>
vars == <<disk, host, calls, delivery, history>>

Mail(r) == {m \in Messages : To[m] = r}
Due == [visit |-> {}, on |-> FALSE, done |-> FALSE]
NoCall == [list |-> {}, left |-> {}]

Init ==
    /\ ledger = {} /\ roster = Members /\ paused = {} /\ appended = {} /\ answered = {}
    /\ sending = [m \in Messages |-> "no"] /\ stale = {} /\ queue = {}
    /\ session = [r \in Members |-> "shut"] /\ running = {}
    /\ settling = {} /\ inbox = [r \in Members |-> NoCall] /\ abandoned = {}
    /\ attached = FALSE /\ reconciling = Due
    /\ receipt = [m \in Messages |-> "none"]
    /\ dropped = {} /\ refused = {} /\ cut = {} /\ crashes = 0 /\ faults = 0
    /\ scene \in Scenes

Fault == faults < scene.faults /\ faults' = faults + 1

-----------------------------------------------------------------------------
(* Sending *)

(* dispatch, called with a row read from the roster. *)
dispatch(m) ==
    /\ m \in scene.mail /\ receipt[m] = "none" /\ sending[m] = "no" /\ To[m] \in roster
    /\ sending' = [sending EXCEPT ![m] = "dispatch"]
    /\ UNCHANGED <<disk, host, calls, stale, queue, history>>

(* The sender learns the outcome; a redelivery tells nobody, and a message has
   been told of at most once. *)
Told(m, status) ==
    /\ receipt' = [receipt EXCEPT ![m] = IF @ = "none" THEN status ELSE @]
    /\ sending' = [sending EXCEPT ![m] = "no"]

(* mailbox.enqueue: the check of the capacity and the insert are one step. *)
enqueue(m) ==
    /\ sending[m] = "dispatch"
    /\ IF Cardinality(ledger \cap Mail(To[m])) >= scene.capacity
       THEN Told(m, "failed") /\ UNCHANGED ledger
       ELSE /\ ledger' = ledger \cup {m}
            /\ sending' = [sending EXCEPT ![m] = "deliver"] /\ UNCHANGED receipt
    /\ UNCHANGED <<roster, paused, appended, answered, host, calls, stale, queue, losses,
                   crashes, faults>>

(* deliver opens the recipient's session: no way into the harness, a session
   that does not open, or a handle.  One that is closing is waited for. *)
openSession(m) ==
    /\ sending[m] = "deliver"
    /\ \/ ~attached /\ Told(m, "failed") /\ UNCHANGED <<session, stale, faults>>
       \/ attached /\ session[To[m]] = "shut" /\ Fault /\ Told(m, "failed")
          /\ UNCHANGED <<session, stale>>
       \/ /\ attached /\ session[To[m]] # "closing"
          /\ session' = [session EXCEPT ![To[m]] = "open"] /\ stale' = stale \ {m}
          /\ sending' = [sending EXCEPT ![m] = "handed"] /\ UNCHANGED <<receipt, faults>>
    /\ UNCHANGED <<disk, running, attached, reconciling, calls, queue, losses, crashes>>

(* A frame in a run takes a message; without one only a root agent that is not
   paused on a question can be woken for it. *)
Accepts(r) == r \in running \/ r \notin paused \cup scene.subagents

(* HarnessSession.steerTo, when the open has come back: the message is on the
   bus, or the handle was closed meanwhile or its session turns it away. *)
steerTo(m) ==
    /\ sending[m] = "handed"
    /\ IF m \notin stale /\ Accepts(To[m])
       THEN queue' = queue \cup {m} /\ Told(m, "delivered")
       ELSE /\ sending' = [sending EXCEPT ![m] = "refused"] /\ UNCHANGED <<queue, receipt>>
    /\ UNCHANGED <<disk, host, calls, stale, losses, crashes, faults>>

(* Bug: a message is settled once it is on the bus. *)
BugSteerToSettles(m) ==
    /\ sending[m] = "handed"
    /\ IF m \notin stale /\ Accepts(To[m])
       THEN queue' = queue \cup {m} /\ settling' = settling \cup {m} /\ Told(m, "delivered")
       ELSE /\ sending' = [sending EXCEPT ![m] = "refused"]
            /\ UNCHANGED <<queue, settling, receipt>>
    /\ UNCHANGED <<disk, host, inbox, abandoned, stale, losses, crashes, faults>>

(* What was turned away is settled before the sender is told, unless the
   mailbox throws. *)
settleRefused(m) ==
    /\ sending[m] = "refused" /\ Told(m, "failed")
    /\ \/ ledger' = ledger \ {m} /\ refused' = refused \cup {m} /\ UNCHANGED faults
       \/ Fault /\ UNCHANGED <<ledger, refused>>
    /\ UNCHANGED <<roster, paused, appended, answered, host, calls, stale, queue, dropped, cut,
                   crashes>>

-----------------------------------------------------------------------------
(* Receiving *)

(* A run of the recipient drains the message; `observe` sees message.appended
   and starts the settle, whose failure it swallows. *)
observe(m) ==
    /\ m \in queue /\ To[m] \in running
    /\ queue' = queue \ {m} /\ appended' = appended \cup {m} /\ settling' = settling \cup {m}
    /\ UNCHANGED <<ledger, roster, paused, answered, host, inbox, abandoned, sending, stale,
                   history>>

settle(m) ==
    /\ m \in settling /\ settling' = settling \ {m}
    /\ \/ ledger' = ledger \ {m} /\ UNCHANGED faults
       \/ Fault /\ UNCHANGED ledger
    /\ UNCHANGED <<roster, paused, appended, answered, host, inbox, abandoned, delivery,
                   receipt, losses, crashes>>

(* drainInbox, in a tool call of a run: it reads what is pending, settles that
   one message after another, and only then returns it. *)
drainInbox(r) ==
    /\ r \in running /\ inbox[r] = NoCall /\ ledger \cap Mail(r) # {}
    /\ inbox' = [inbox EXCEPT ![r] = [list |-> ledger \cap Mail(r), left |-> ledger \cap Mail(r)]]
    /\ UNCHANGED <<disk, host, settling, abandoned, delivery, history>>

settleRead(r, m) ==
    /\ m \in inbox[r].left
    /\ inbox' = [inbox EXCEPT ![r].left = @ \ {m}] /\ ledger' = ledger \ {m}
    /\ UNCHANGED <<roster, paused, appended, answered, host, settling, abandoned, delivery,
                   history>>

Taken(r) == inbox[r].list \ inbox[r].left

(* A settle throws: the call is answered by an error, and what was settled
   before is in nobody's hands. *)
drainThrows(r) ==
    /\ inbox[r].left # {} /\ Fault
    /\ cut' = cut \cup Taken(r) /\ inbox' = [inbox EXCEPT ![r] = NoCall]
    /\ UNCHANGED <<disk, host, settling, abandoned, delivery, receipt, dropped, refused, crashes>>

(* The run is cancelled or its session closed, and the grace time passes
   (raceExecuteWithGraceTimeout): a synthetic error is recorded, and the drain
   goes on without anyone waiting for it. *)
abortInbox(r) ==
    /\ inbox[r] # NoCall
    /\ cut' = cut \cup Taken(r) /\ abandoned' = abandoned \cup inbox[r].left
    /\ inbox' = [inbox EXCEPT ![r] = NoCall]
    /\ UNCHANGED <<disk, host, settling, delivery, receipt, dropped, refused, crashes, faults>>

settleAbandoned(m) ==
    /\ m \in abandoned /\ abandoned' = abandoned \ {m}
    /\ ledger' = ledger \ {m} /\ cut' = cut \cup {m}
    /\ UNCHANGED <<roster, paused, appended, answered, host, settling, inbox, delivery, receipt,
                   dropped, refused, crashes, faults>>

inboxResult(r) ==
    /\ inbox[r] # NoCall /\ inbox[r].left = {}
    /\ answered' = answered \cup inbox[r].list /\ inbox' = [inbox EXCEPT ![r] = NoCall]
    /\ UNCHANGED <<ledger, roster, paused, appended, host, settling, abandoned, delivery, history>>

-----------------------------------------------------------------------------
(* The host, sessions and the process *)

(* disbandTeam: a member leaves the roster, its undelivered mail with it. *)
disbandTeam(r) ==
    /\ "disband" \in scene.may /\ r \in roster
    /\ roster' = roster \ {r} /\ ledger' = ledger \ Mail(r)
    /\ dropped' = dropped \cup (ledger \cap Mail(r))
    /\ UNCHANGED <<paused, appended, answered, host, calls, delivery, receipt, refused, cut,
                   crashes, faults>>

(* reconcile, called once on startup: the recipients it will visit, then the
   messages of each, redelivered or dropped. *)
reconcile ==
    /\ attached /\ ~reconciling.on /\ ~reconciling.done
    /\ reconciling' = [visit |-> {To[m] : m \in ledger}, on |-> TRUE, done |-> FALSE]
    /\ UNCHANGED <<disk, session, running, attached, calls, delivery, history>>

(* What is on its way already is left to its send. *)
Redelivered(r) ==
    sending' = [m \in Messages |->
                  IF m \in ledger \cap Mail(r) /\ sending[m] = "no" THEN "deliver" ELSE sending[m]]

(* Bug: reconcile takes the mail of an open session for lost. *)
BugReconcileDropsBusy(r) ==
    /\ reconciling.on /\ r \in reconciling.visit
    /\ reconciling' = [reconciling EXCEPT !.visit = @ \ {r}]
    /\ IF r \in roster /\ session[r] = "shut"
       THEN Redelivered(r) /\ UNCHANGED <<ledger, dropped>>
       ELSE ledger' = ledger \ Mail(r) /\ UNCHANGED <<sending, dropped>>
    /\ UNCHANGED <<roster, paused, appended, answered, session, running, attached, calls, stale,
                   queue, receipt, refused, cut, crashes, faults>>

visitRecipient(r) ==
    /\ reconciling.on /\ r \in reconciling.visit
    /\ reconciling' = [reconciling EXCEPT !.visit = @ \ {r}]
    /\ IF r \in roster
       THEN Redelivered(r) /\ UNCHANGED <<ledger, dropped>>
       ELSE /\ ledger' = ledger \ Mail(r) /\ dropped' = dropped \cup (ledger \cap Mail(r))
            /\ UNCHANGED sending
    /\ UNCHANGED <<roster, paused, appended, answered, session, running, attached, calls, stale,
                   queue, receipt, refused, cut, crashes, faults>>

reconciled ==
    /\ reconciling.on /\ reconciling.visit = {}
    /\ reconciling' = [Due EXCEPT !.done = TRUE]
    /\ UNCHANGED <<disk, session, running, attached, calls, delivery, history>>

(* A session opens and mounts the extension. *)
attachActions(r) ==
    /\ session[r] = "shut"
    /\ session' = [session EXCEPT ![r] = "open"] /\ attached' = TRUE
    /\ UNCHANGED <<disk, running, reconciling, calls, delivery, history>>

(* A run starts on an input, a wake or an answer; it ends, paused on a
   question or not.  What the bus of a subagent's frame held ends with it. *)
beginRun(r) ==
    /\ session[r] = "open" /\ r \notin running
    /\ running' = running \cup {r}
    /\ UNCHANGED <<disk, session, attached, reconciling, calls, delivery, history>>

endRun(r) ==
    /\ r \in running /\ inbox[r] = NoCall
    /\ running' = running \ {r}
    /\ IF r \in scene.subagents
       THEN queue' = queue \ Mail(r) /\ UNCHANGED paused
       ELSE paused' \in {paused \ {r}, paused \cup {r}} /\ UNCHANGED queue
    /\ UNCHANGED <<ledger, roster, appended, answered, session, attached, reconciling, calls,
                   sending, stale, history>>

(* close: from here on the handles refuse; the runs are aborted and waited
   for, and what the bus held goes with the session. *)
closeSession(r) ==
    /\ "close" \in scene.may /\ session[r] = "open"
    /\ session' = [session EXCEPT ![r] = "closing"]
    /\ stale' = stale \cup {m \in Mail(r) : sending[m] = "handed"}
    /\ UNCHANGED <<disk, running, attached, reconciling, calls, sending, queue, history>>

closed(r) ==
    /\ session[r] = "closing" /\ inbox[r] = NoCall
    /\ session' = [session EXCEPT ![r] = "shut"]
    /\ running' = running \ {r} /\ queue' = queue \ Mail(r)
    /\ UNCHANGED <<disk, attached, reconciling, calls, sending, stale, history>>

Crash ==
    /\ crashes < scene.crashes /\ crashes' = crashes + 1
    /\ cut' = cut \cup UNION {Taken(r) : r \in Members}
    /\ receipt' = [m \in Messages |->
                     IF sending[m] # "no" /\ receipt[m] = "none" THEN "never" ELSE receipt[m]]
    /\ sending' = [m \in Messages |-> "no"] /\ stale' = {} /\ queue' = {}
    /\ session' = [r \in Members |-> "shut"] /\ running' = {}
    /\ settling' = {} /\ inbox' = [r \in Members |-> NoCall] /\ abandoned' = {}
    /\ attached' = FALSE /\ reconciling' = Due
    /\ UNCHANGED <<disk, dropped, refused, faults>>

Next ==
    \/ reconcile \/ reconciled \/ Crash
    \/ \E m \in Messages :
         \/ dispatch(m) \/ enqueue(m) \/ openSession(m) \/ steerTo(m) \/ settleRefused(m)
         \/ observe(m) \/ settle(m) \/ settleAbandoned(m)
    \/ \E r \in Members :
         \/ drainInbox(r) \/ (\E m \in Messages : settleRead(r, m)) \/ drainThrows(r)
         \/ abortInbox(r) \/ inboxResult(r) \/ disbandTeam(r) \/ visitRecipient(r)
         \/ attachActions(r) \/ beginRun(r) \/ endRun(r) \/ closeSession(r) \/ closed(r)

Spec == Init /\ [][Next /\ UNCHANGED scene]_<<vars, scene>>

-----------------------------------------------------------------------------
(* Properties *)

InHand == UNION {Taken(r) : r \in Members}

(* A message a sender was told is delivered (deliver, network.ts) is on the
   ledger, in its recipient's conversation, in a recorded result of the inbox
   op or in the hands of a call of it, or it left the ledger in one of three
   ways: with its team or for want of a recipient, refused when it was
   delivered again, or settled by an inbox call whose result never came. *)
NothingIsLost ==
    \A m \in Messages :
        receipt[m] = "delivered" =>
            m \in ledger \cup appended \cup answered \cup InHand \cup dropped \cup refused \cup cut

(* What the README of agents-peers says of the ledger: an entry clears only
   when its message entered the conversation, so whatever was lost is still on
   it.  Mail dropped with its recipient, and what an inbox call took and has
   not yet returned, are left out of the claim. *)
WhatWasLostIsOnTheLedger ==
    \A m \in Messages :
        receipt[m] = "delivered" => m \in ledger \cup appended \cup answered \cup InHand \cup dropped

TypeOK ==
    /\ ledger \subseteq Messages /\ roster \subseteq Members
    /\ appended \subseteq Messages /\ answered \subseteq Messages
    /\ sending \in [Messages -> {"no", "dispatch", "deliver", "handed", "refused"}]
    /\ receipt \in [Messages -> {"none", "failed", "delivered", "never"}]
    /\ queue \subseteq Messages /\ stale \subseteq Messages /\ paused \subseteq Members
    /\ session \in [Members -> {"shut", "open", "closing"}] /\ running \subseteq Members
    /\ settling \subseteq Messages /\ abandoned \subseteq Messages
    /\ inbox \in [Members -> [list : SUBSET Messages, left : SUBSET Messages]]
    /\ attached \in BOOLEAN
    /\ reconciling \in [visit : SUBSET Members, on : BOOLEAN, done : BOOLEAN]
    /\ dropped \subseteq Messages /\ refused \subseteq Messages /\ cut \subseteq Messages
    /\ crashes \in Nat /\ faults \in Nat
=============================================================================
