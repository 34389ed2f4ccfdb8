--------------------------- MODULE PeerMailProofs ---------------------------
(***************************************************************************)
(* A message that leaves the ledger is seen, answered or named as lost,    *)
(* for any set of messages and members and any capacity.                   *)
(*                                                                         *)
(* NothingIsLost alone is not inductive: a receipt is given after the      *)
(* ledger entry was written, and a settle lands after the message was      *)
(* seen.  The invariant adds that a message on its way through `deliver`   *)
(* is already accounted for, and that a settle in flight is for one the    *)
(* conversation holds.                                                     *)
(***************************************************************************)
EXTENDS PeerMail, TLAPS

Safe == ledger \cup appended \cup answered \cup InHand \cup dropped \cup refused \cup cut

\* What an inbox call has yet to settle, it has read.
Calls == {c \in [list : SUBSET Messages, left : SUBSET Messages] : c.left \subseteq c.list}

\* The inductive invariant.
MailInv ==
    /\ \A m \in Messages :
         sending[m] \in {"deliver", "handed", "refused"} \/ receipt[m] = "delivered" => m \in Safe
    /\ settling \subseteq appended
    /\ sending \in [Messages -> {"no", "dispatch", "deliver", "handed", "refused"}]
    /\ receipt \in [Messages -> {"none", "failed", "delivered", "never"}]
    /\ inbox \in [Members -> Calls]

(* It holds at the start: nothing is on its way. *)
LEMMA MailInit == Init => MailInv
  BY DEF Init, MailInv, NoCall, Calls

(* An action that takes no message out of Safe and starts nothing with one
   outside of it keeps the invariant. *)
LEMMA Accounted ==
    ASSUME MailInv, Safe \subseteq Safe', settling' \subseteq appended',
           UNCHANGED <<sending, receipt>>,
           inbox' \in [Members -> Calls]
    PROVE  MailInv'
  BY DEF MailInv

(* What inbox calls hold is told by the calls alone. *)
LEMMA InHandSame == ASSUME inbox' = inbox PROVE InHand' = InHand
  BY DEF InHand, Taken

(* A send writes the ledger before it is handed over, and only then tells its
   sender. *)
LEMMA SendKeepsMail ==
    ASSUME MailInv, NEW m \in Messages,
           dispatch(m) \/ enqueue(m) \/ openSession(m) \/ steerTo(m) \/ settleRefused(m)
    PROVE  MailInv'
  <1>1. /\ inbox' = inbox /\ settling' = settling /\ appended' = appended
        /\ answered' = answered /\ dropped' = dropped /\ cut' = cut
    BY DEF dispatch, enqueue, openSession, steerTo, settleRefused, disk, calls, history, losses
  <1>2. Safe \subseteq Safe'
    <2>1. CASE settleRefused(m)
      BY <1>1, <2>1, InHandSame DEF settleRefused, Safe
    <2>2. CASE dispatch(m) \/ enqueue(m) \/ openSession(m) \/ steerTo(m)
      BY <1>1, <2>2, InHandSame
         DEF dispatch, enqueue, openSession, steerTo, Safe, disk, history, losses
    <2>. QED
      BY <2>1, <2>2
  <1>3. /\ \A n \in Messages \ {m} : sending'[n] = sending[n] /\ receipt'[n] = receipt[n]
        /\ sending' \in [Messages -> {"no", "dispatch", "deliver", "handed", "refused"}]
        /\ receipt' \in [Messages -> {"none", "failed", "delivered", "never"}]
    BY DEF MailInv, dispatch, enqueue, openSession, steerTo, settleRefused, Told, history
  <1>4. sending'[m] \in {"deliver", "handed", "refused"} \/ receipt'[m] = "delivered" => m \in Safe'
    <2>1. CASE dispatch(m)
      BY <2>1 DEF dispatch, history, MailInv
    <2>2. CASE enqueue(m)
      <3>1. CASE sending'[m] = "deliver"
        <4>1. m \in ledger'
          BY <2>2, <3>1 DEF enqueue, Told, MailInv
        <4>. QED
          BY <4>1 DEF Safe
      <3>2. CASE sending'[m] # "deliver"
        <4>1. /\ sending'[m] = "no"
              /\ receipt'[m] = "delivered" => receipt[m] = "delivered"
          BY <2>2, <3>2 DEF enqueue, Told, MailInv
        <4>. QED
          BY <4>1, <1>2 DEF MailInv
      <3>. QED
        BY <3>1, <3>2
    <2>3. CASE openSession(m) \/ steerTo(m) \/ settleRefused(m)
      BY <2>3, <1>2 DEF openSession, steerTo, settleRefused, MailInv
    <2>. QED
      BY <2>1, <2>2, <2>3
  <1>. QED
    BY <1>1, <1>2, <1>3, <1>4 DEF MailInv

(* An entry leaves the ledger only once its message was seen, or with a drain
   that is counted. *)
LEMMA ReceiveKeepsMail ==
    ASSUME MailInv, NEW m \in Messages, observe(m) \/ settle(m) \/ settleAbandoned(m)
    PROVE  MailInv'
  <1>1. CASE observe(m)
    BY <1>1, InHandSame, Accounted DEF MailInv, Safe, observe, history, losses
  <1>2. CASE settle(m)
    BY <1>2, InHandSame, Accounted DEF MailInv, Safe, settle, delivery, losses
  <1>3. CASE settleAbandoned(m)
    BY <1>3, InHandSame, Accounted DEF MailInv, Safe, settleAbandoned, delivery
  <1>. QED
    BY <1>1, <1>2, <1>3

(* An inbox call keeps what it took until its result is recorded, or it is
   counted as cut short. *)
LEMMA InboxKeepsMail ==
    ASSUME MailInv, NEW r \in Members,
           \/ drainInbox(r) \/ (\E m \in Messages : settleRead(r, m)) \/ drainThrows(r)
           \/ abortInbox(r) \/ inboxResult(r)
    PROVE  MailInv'
  <1>1. CASE drainInbox(r)
    <2>1. inbox' \in [Members -> Calls] /\ \A s \in Members : Taken(s) \subseteq Taken(s)'
      BY <1>1 DEF drainInbox, MailInv, Taken, NoCall, Mail, Calls
    <2>2. InHand \subseteq InHand'
      BY <2>1 DEF InHand
    <2>3. Safe \subseteq Safe'
      BY <1>1, <2>2 DEF drainInbox, Safe, disk, history, losses
    <2>. QED
      BY <1>1, <2>1, <2>3, Accounted DEF drainInbox, MailInv, disk, delivery, history
  <1>2. ASSUME NEW m \in Messages, settleRead(r, m) PROVE MailInv'
    <2>1. inbox' \in [Members -> Calls] /\ \A s \in Members : Taken(s) \subseteq Taken(s)'
      BY <1>2 DEF settleRead, MailInv, Taken, Calls
    <2>2. InHand \subseteq InHand'
      BY <2>1 DEF InHand
    <2>3. m \in Taken(r)'
      BY <1>2 DEF settleRead, MailInv, Taken, Calls
    <2>4. m \in InHand'
      BY <2>3 DEF InHand
    <2>5. Safe \subseteq Safe'
      BY <1>2, <2>2, <2>4 DEF settleRead, Safe, history, losses
    <2>. QED
      BY <1>2, <2>1, <2>5, Accounted DEF settleRead, MailInv, delivery, history
  <1>3. ASSUME drainThrows(r) \/ abortInbox(r) PROVE MailInv'
    <2>1. inbox' \in [Members -> Calls] /\ \A s \in Members \ {r} : Taken(s)' = Taken(s)
      BY <1>3 DEF drainThrows, abortInbox, MailInv, Taken, NoCall, Calls
    <2>2. InHand \subseteq InHand' \cup Taken(r)
      BY <2>1 DEF InHand
    <2>3. Safe \subseteq Safe'
      BY <1>3, <2>2 DEF drainThrows, abortInbox, Safe, disk
    <2>. QED
      BY <1>3, <2>1, <2>3, Accounted DEF drainThrows, abortInbox, MailInv, disk, delivery
  <1>4. CASE inboxResult(r)
    <2>1. inbox' \in [Members -> Calls] /\ \A s \in Members \ {r} : Taken(s)' = Taken(s)
      BY <1>4 DEF inboxResult, MailInv, Taken, NoCall, Calls
    <2>2. InHand \subseteq InHand' \cup Taken(r)
      BY <2>1 DEF InHand
    <2>3. Safe \subseteq Safe'
      BY <1>4, <2>2 DEF inboxResult, Safe, Taken, history, losses
    <2>. QED
      BY <1>4, <2>1, <2>3, Accounted DEF inboxResult, MailInv, delivery, history
  <1>. QED
    BY <1>1, <1>2, <1>3, <1>4

(* The startup pass takes from the ledger only what it counts as dropped, and
   redelivers only what is on it. *)
LEMMA ReconcileKeepsMail ==
    ASSUME MailInv,
           reconcile \/ reconciled \/ \E r \in Members : visitRecipient(r) \/ disbandTeam(r)
    PROVE  MailInv'
  <1>1. CASE reconcile \/ reconciled
    BY <1>1, InHandSame, Accounted
       DEF MailInv, Safe, reconcile, reconciled, disk, calls, delivery, history, losses
  <1>2. ASSUME NEW r \in Members, disbandTeam(r) PROVE MailInv'
    BY <1>2, InHandSame, Accounted DEF MailInv, Safe, disbandTeam, calls, delivery
  <1>3. ASSUME NEW r \in Members, visitRecipient(r) PROVE MailInv'
    <2>1. /\ UNCHANGED <<receipt, settling, appended, inbox>> /\ Safe' = Safe
      BY <1>3, InHandSame DEF visitRecipient, Safe, calls
    <2>2. CASE r \in roster
      <3>1. sending' = [m \in Messages |-> IF m \in ledger \cap Mail(r) /\ sending[m] = "no"
                                          THEN "deliver" ELSE sending[m]]
        BY <1>3, <2>2 DEF visitRecipient, Redelivered
      <3>2. \A m \in Messages : sending'[m] # sending[m] => m \in Safe
        BY <3>1 DEF Safe
      <3>3. sending' \in [Messages -> {"no", "dispatch", "deliver", "handed", "refused"}]
        BY <3>1 DEF MailInv
      <3>. QED
        BY <2>1, <3>2, <3>3 DEF MailInv
    <2>3. CASE r \notin roster
      BY <1>3, <2>1, <2>3 DEF MailInv, visitRecipient
    <2>. QED
      BY <2>2, <2>3
  <1>. QED
    BY <1>1, <1>2, <1>3

(* Sessions and runs come and go, and a crash takes no more than what inbox
   calls held. *)
LEMMA HostKeepsMail ==
    ASSUME MailInv,
           \/ Crash
           \/ \E r \in Members : attachActions(r) \/ beginRun(r) \/ endRun(r)
                                \/ closeSession(r) \/ closed(r)
    PROVE  MailInv'
  <1>1. CASE Crash
    <2>1. InHand \subseteq cut' /\ Safe \subseteq Safe'
      BY <1>1 DEF Crash, InHand, Safe, disk
    <2>2. \A m \in Messages : receipt'[m] = "delivered" => receipt[m] = "delivered"
      BY <1>1 DEF Crash, MailInv
    <2>3. /\ sending' = [m \in Messages |-> "no"] /\ settling' = {}
          /\ inbox' = [r \in Members |-> NoCall]
      BY <1>1 DEF Crash
    <2>4. receipt' \in [Messages -> {"none", "failed", "delivered", "never"}]
      BY <1>1 DEF Crash, MailInv
    <2>. QED
      BY <2>1, <2>2, <2>3, <2>4 DEF MailInv, NoCall, Calls
  <1>2. ASSUME NEW r \in Members,
               attachActions(r) \/ beginRun(r) \/ endRun(r) \/ closeSession(r) \/ closed(r)
        PROVE  MailInv'
    <2>1. UNCHANGED <<ledger, appended, answered, inbox, settling, sending, receipt, losses>>
      BY <1>2 DEF attachActions, beginRun, endRun, closeSession, closed, disk, calls, delivery,
                  history
    <2>. QED
      BY <2>1, InHandSame, Accounted DEF MailInv, Safe, losses
  <1>. QED
    BY <1>1, <1>2

(* A message that was reported delivered stays accounted for: on the ledger,
   with its recipient, or lost in one of the ways NothingIsLost names. *)
THEOREM NoMailIsLost == Spec => []NothingIsLost
  <1>1. MailInv /\ [Next /\ UNCHANGED scene]_<<vars, scene>> => MailInv'
    <2>1. ASSUME MailInv, Next PROVE MailInv'
      BY <2>1, SendKeepsMail, ReceiveKeepsMail, InboxKeepsMail, ReconcileKeepsMail, HostKeepsMail
         DEF Next
    <2>2. ASSUME MailInv, UNCHANGED vars PROVE MailInv'
      BY <2>2, InHandSame, Accounted
         DEF MailInv, Safe, vars, disk, host, calls, delivery, history, losses
    <2>. QED
      BY <2>1, <2>2
  <1>2. MailInv => NothingIsLost
    BY DEF MailInv, NothingIsLost, Safe
  <1>. QED
    BY <1>1, <1>2, MailInit, PTL DEF Spec
=============================================================================
