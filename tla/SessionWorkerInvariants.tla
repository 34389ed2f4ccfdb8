----------------------- MODULE SessionWorkerInvariants -----------------------
(***************************************************************************)
(* The inductive invariants of SessionWorker and the vocabulary of their   *)
(* proofs, which are in SessionWorkerProofs.                               *)
(*                                                                         *)
(* WInv is inductive under every scene: the table's invariant, types,      *)
(* where a run and its object can be (Placed), and what each run holds of  *)
(* the log of its session (Holds): everything on the bus was accepted and  *)
(* is outstanding, what was read has no gap, and a cursor put by any run   *)
(* passes only what was dealt with.  It gives the types, the safety of the *)
(* cursor, and that one object takes a message once.                       *)
(*                                                                         *)
(* LInv is inductive while heartbeats keep up with the clock (no scene     *)
(* with "lapse"): a run has the lease to itself, so what it and its object *)
(* keep to (Keeps) is not disturbed by another.  It gives that a turn has  *)
(* one driver, and that what was cancelled does not return.                *)
(*                                                                         *)
(* TInv is inductive in the same scenes: an unread record is minded        *)
(* (Minded) by its row, by a run that reads the inbox again before it      *)
(* returns, by the answer its session waits for, or by the clock, or it is *)
(* known how its wake was lost (Told).  It gives that nothing accepted is  *)
(* forgotten.                                                              *)
(***************************************************************************)
EXTENDS SessionWorker

(* The table and the leases: invariants of SessionWork that carry one      *)
(* another through every statement.                                        *)
IInv == TableTypeOK /\ LeasesConsistent /\ HolderOwnsRow /\ FenceTellsTakesApart

(* A step that grants nothing leaves what a lease is about, and every      *)
(* fence, alone.                                                           *)
SameTakes ==
  /\ \A s \in Sessions : row'[s].fence = row[s].fence
  /\ \A h \in Leases : /\ lease'[h].session = lease[h].session
                        /\ lease'[h].owner = lease[h].owner
                        /\ lease'[h].fence = lease[h].fence

(* The steps that grant, and those that do not.                            *)
GrantStep ==
  \E h \in Leases, o \in Owners, s \in Sessions : Free(s) /\ Take(h, o, s)

-----------------------------------------------------------------------------
(* What is known of a run and of its object, as facts about the values     *)
(* they are: l is a log, c a cursor, r a run and x a session object.       *)
RecordTypes == [kind : InboxKinds \union {"taken", "other"}, of : Nat]
Logs == Seq(RecordTypes)

Extends(l, m) == Len(l) <= Len(m) /\ \A p \in 1..Len(l) : m[p] = l[p]

TakenIn(l, p) == \E t \in 1..Len(l) : l[t] = Record("taken", p)
Between(l, p, last, kind) == \E q \in (p + 1)..last : l[q].kind = kind
Dealt(l, p, c) ==
    TakenIn(l, p) \/ Between(l, p, c, "cancel") \/ Between(l, p, Len(l), "resume")
PrefixDealt(l, c) ==
    /\ c \in 0..Len(l)
    /\ \A p \in 1..c : l[p].kind = "input" => Dealt(l, p, c)

(* Positions of the inbox in the order of the log, after c and with none   *)
(* left out.                                                               *)
Lined(l, q, c) ==
    /\ \A i \in 1..Len(q) : q[i] \in 1..Len(l) /\ c < q[i] /\ l[q[i]].kind \in InboxKinds
    /\ \A i, j \in 1..Len(q) : i < j => q[i] < q[j]
    /\ \A i \in 1..Len(q), p \in 1..Len(l) :
          c < p /\ p < q[i] /\ l[p].kind \in InboxKinds => \E j \in 1..Len(q) : q[j] = p

(* Sequences as they are read.                                             *)
Ascends(q) == \A i, j \in 1..Len(q) : i < j => q[i] < q[j]
Lists(q, S) == q \in Seq(Nat) /\ Ascends(q) /\ \A p \in Nat : p \in S <=> \E i \in 1..Len(q) : q[i] = p

RunTypes == [pc : Places, wake : BOOLEAN, listed : BOOLEAN, looped : BOOLEAN,
             behind : SUBSET Leases, seen : SUBSET Nat, out : Seq(Nat), items : Seq(Nat),
             cur : Nat, resuming : BOOLEAN, cancelled : BOOLEAN, settled : BOOLEAN]
ObjTypes == [state : {"none", "idle", "running", "paused"}, closing : BOOLEAN,
             aborted : BOOLEAN, again : BOOLEAN, bus : Seq(Nat), answering : Nat,
             task : BOOLEAN]

Listens(pc) == pc \in {"step", "feed", "sleep", "put", "hold", "cancel"}
Line(r) == IF r.pc = "feed" THEN r.out \o r.items ELSE r.out

(* What an object has been given.                                          *)
Given(l, x) ==
    /\ \A i \in 1..Len(x.bus) : x.bus[i] \in 1..Len(l) /\ l[x.bus[i]].kind = "input"
    /\ x.answering # 0 => x.answering \in 1..Len(l) /\ l[x.answering].kind = "resume"

(* What a run has read of its inbox, and what of that is consumed.         *)
Seen(l, r) ==
    IF r.pc = "cancel"
    THEN /\ r.out # <<>> /\ l[r.out[Len(r.out)]].kind = "cancel"
         /\ \A i \in 1..Len(r.out) : r.out[i] \in r.seen
    ELSE \A p \in r.seen : l[p].kind = "input" =>
            TakenIn(l, p) \/ Between(l, p, Len(l), "resume")
Reads(l, r) ==
    /\ PrefixDealt(l, r.cur)
    /\ Lined(l, Line(r), r.cur)
    /\ r.seen \subseteq 1..Len(l)
    /\ Seen(l, r)

(* Accepted messages on the bus are outstanding, each once.                *)
Foreign(l, p) == l[p].kind = "input" /\ l[p].of = 0
Has(q, p) == \E i \in 1..Len(q) : q[i] = p
Outstanding(r, p) == Has(r.out, p)
Once(l, r, x) ==
    /\ \A i \in 1..Len(x.bus) : Foreign(l, x.bus[i]) =>
          /\ Outstanding(r, x.bus[i]) /\ x.bus[i] \notin r.seen
          /\ \A j \in 1..Len(x.bus) : x.bus[j] = x.bus[i] => i = j
    /\ \A p \in r.seen : Foreign(l, p) => Outstanding(r, p) \/ p <= r.cur

Held(l, r, x) ==
    /\ Given(l, x)
    /\ Listens(r.pc) => Reads(l, r)
    /\ Listens(r.pc) /\ r.pc # "cancel" => Once(l, r, x)

(* A run that only goes elsewhere, with what it has read as it was.        *)
Alike(r, t) ==
    /\ t.seen = r.seen /\ t.out = r.out /\ t.cur = r.cur
    /\ \/ ~Listens(t.pc)
       \/ t.pc = r.pc /\ t.items = r.items
       \/ Listens(r.pc) /\ r.pc # "cancel" /\ t.pc \notin {"feed", "cancel"}
Likewise(x, y) == y.bus = x.bus /\ y.answering \in {x.answering, 0}

(* What is read continues what is outstanding.                             *)
PageOf(l, q, c, a) ==
    /\ q \in Seq(Nat) /\ Ascends(q)
    /\ \A i \in 1..Len(q) : /\ q[i] \in 1..Len(l) /\ c < q[i] /\ l[q[i]].kind \in InboxKinds
                            /\ \A j \in 1..Len(a) : a[j] # q[i]
    /\ \A i \in 1..Len(q), p \in 1..Len(l) :
          /\ c < p /\ p < q[i] /\ l[p].kind \in InboxKinds
          /\ \A j \in 1..Len(a) : a[j] # p
          => \E j \in 1..Len(q) : q[j] = p

(* The items are fed: messages to the bus, one answer to the object.       *)
FedAs(l, r, t, x, y, a, S, inputs) ==
    /\ r.pc = "feed" /\ t.pc = "sleep"
    /\ Len(a) <= Len(r.items) /\ \A i \in 1..Len(a) : a[i] = r.items[i]
    /\ t.out = r.out \o a /\ t.cur = r.cur /\ t.seen = r.seen \union S
    /\ \A p \in S : Has(a, p) /\ (l[p].kind = "input" => Between(l, p, Len(l), "resume"))
    /\ Ascends(inputs)
    /\ \A i \in 1..Len(inputs) : /\ Has(a, inputs[i])
                                  /\ l[inputs[i]].kind = "input"
                                  /\ inputs[i] \notin S
    /\ y.bus = x.bus \o inputs
    /\ \/ y.answering = x.answering
       \/ y.answering \in 1..Len(l) /\ l[y.answering].kind = "resume"

Typed ==
    /\ log \in [Sessions -> Logs]
    /\ cursor \in [Sessions -> Nat]
    /\ run \in [Leases -> RunTypes]
    /\ obj \in [Leases -> ObjTypes]
Flagged ==
    /\ intr \in [Sessions -> BOOLEAN] /\ turnOpen \in [Sessions -> BOOLEAN]
    /\ pending \in [Sessions -> {"none", "input", "resume"}]
    /\ nudged \subseteq Sessions /\ stopping \subseteq Owners
    /\ dropped \in [Sessions -> {"no", "late", "stop", "error", "page"}]

(* An object is there while it is fed, and until it is closed.             *)
Fits(pc, x) ==
    /\ x.state # "none" <=> Listens(pc) \/ pc \in {"close", "closing"}
    /\ x.state = "none" => x = NoObject
Placed(h) ==
    /\ run[h].pc # "none" => Session(h) \in Sessions
    /\ Fits(run[h].pc, obj[h])
    /\ run[h].behind # {} => run[h].pc = "wait"
Holds(h) == Held(log[Session(h)], run[h], obj[h])

TakenSane(l) == \A p \in 1..Len(l) : l[p].kind = "taken" => l[p].of \in 1..(p - 1)
LogInv == \A s \in Sessions : TakenSane(log[s]) /\ PrefixDealt(log[s], cursor[s])

WInv ==
    /\ IInv
    /\ Typed
    /\ Flagged
    /\ LogInv
    /\ \A h \in Leases : Placed(h) /\ Holds(h)

SessionsKept == \A g \in Leases : lease'[g].session = lease[g].session
LogStep ==
    /\ log' \in [Sessions -> Logs]
    /\ \A s \in Sessions : Extends(log[s], log'[s])
LogKept == LogStep /\ LogInv' /\ cursor' \in [Sessions -> Nat]

(* The statements that grant nothing.                                      *)
QuietTable ==
    \/ UNCHANGED tableVars
    \/ UNCHANGED <<row, lease, calls>> /\ faults' = faults + 1
    \/ \E s \in Sessions : AppendRecord(s)
    \/ \E h \in Leases : \/ RenewSend(h) \/ ReleaseSend(h) \/ QueryFails(h)
                         \/ RenewCommit(h) \/ ReleaseCommit(h)
                         \/ \E beat \in Beats : RenewAnswer(h, beat)
    \/ \E o \in Owners : Crash(o)
    \/ Tick

(* The positions of a kind among what is fed, in the order of the log.     *)
Among(l, f, kind) == InLogOrder({p \in ToSet(f) : l[p].kind = kind})

(* What Feed does to the object, given the inputs and the answer.          *)
FedObject(x, inputs, starts) ==
    LET queued == [x EXCEPT !.bus = @ \o inputs] IN
    IF starts # 0 THEN [queued EXCEPT !.state = "running", !.answering = starts]
    ELSE Woken(queued)

(* The run is over, one way or the other.                                  *)
RunOver(h) ==
    /\ Running(h) /\ UNCHANGED log /\ run' = Settled(h)
    /\ \E state \in {"paused", "idle"} : obj' = [obj EXCEPT ![h] = EndedRun(@, state)]

-----------------------------------------------------------------------------
(* While heartbeats keep up with the clock (no scene with "lapse"), a run  *)
(* under a lease has the session for itself.                               *)
Feeds(pc) == Listens(pc) \/ pc \in {"close", "closing"}
Past(pc) == pc \notin {"none", "start", "wait", "pass", "release"}

(* A lease is good for as long as there is a run under it.                 *)
Alive(h) ==
    /\ lease[h].gone <=> run[h].pc \in {"none", "release"}
    /\ ~lease[h].gone => lease[h].sure >= 0
    /\ "lost" \in calls[h] => lease[h].gone

(* An object knows whether its session waits for an answer.                *)
Asked(i, x) ==
    /\ x.state # "running" => x.answering = 0
    /\ x.state # "none" => (i <=> x.state = "paused" \/ (x.state = "running" /\ x.answering # 0))

(* What is on the bus lies beyond every cancel the cursor has passed.      *)
BeyondCancels(l, r, x) ==
    /\ \A i \in 1..Len(x.bus) : \A q \in (x.bus[i] + 1)..r.cur : l[q].kind # "cancel"
    /\ Listens(r.pc) /\ r.pc # "cancel" => \A i \in 1..Len(r.out) : l[r.out[i]].kind # "cancel"

(* What a run and its object keep to, as values: l is the log, c the       *)
(* cursor, i and o whether the session is interrupted and its turn open, d *)
(* how the wake was lost.                                                  *)
KeepsAs(l, c, i, o, d, r, x) ==
    /\ Asked(i, x)
    /\ Feeds(r.pc) => c = r.cur /\ (r.cancelled \/ BeyondCancels(l, r, x))
    /\ Past(r.pc) /\ o => x.state = "running" \/ d # "no"
Keeps(h) == LET s == Session(h) IN
    KeepsAs(log[s], cursor[s], intr[s], turnOpen[s], dropped[s], run[h], obj[h])

(* The row is given back, or a release is on its way to do so.             *)
Back(s) ==
    \/ row[s].owner = NoOwner
    \/ \E h \in Leases : Session(h) = s /\ Mine(h) /\ "release" \in calls[h]
Turned(s) ==
    /\ turnOpen[s] => ~intr[s]
    /\ turnOpen[s] /\ Back(s) => dropped[s] # "no"

LInv ==
    /\ \A h \in Leases : Alive(h) /\ (run[h].pc # "none" => Keeps(h))
    /\ \A s \in Sessions : Turned(s)

(* The statements that leave every run its lease.                          *)
StillTable ==
    \/ UNCHANGED tableVars
    \/ UNCHANGED <<row, lease, calls>> /\ faults' = faults + 1
    \/ \E s \in Sessions : AppendRecord(s)
    \/ \E h \in Leases : \/ RenewSend(h) \/ QueryFails(h)
                         \/ RenewCommit(h) \/ ReleaseCommit(h)
                         \/ \E beat \in Beats : RenewAnswer(h, beat)
    \/ Tick /\ \A h \in Leases : lease[h].gone \/ lease[h].sure > 0

(* Everything a run refers to is in the log.                               *)
InLog(l, c, r, x) ==
    /\ c \in 0..Len(l) /\ Len(l) \in Nat
    /\ \A i \in 1..Len(x.bus) : x.bus[i] \in 1..Len(l)
    /\ Listens(r.pc) /\ r.pc # "cancel" => \A i \in 1..Len(r.out) : r.out[i] \in 1..Len(l)

(* What does not change what a run and its object keep to.                 *)
SameRun(r, t) == t.pc = r.pc /\ t.cur = r.cur /\ t.out = r.out /\ t.cancelled = r.cancelled
SameObject(x, y) == y.state = x.state /\ y.answering = x.answering /\ y.bus = x.bus

(* What a step of the run of h, or of its object, has to show.             *)
ElsewhereSame(s) ==
    \A u \in Sessions \ {s} : /\ log'[u] = log[u] /\ cursor'[u] = cursor[u] /\ intr'[u] = intr[u]
                              /\ turnOpen'[u] = turnOpen[u] /\ dropped'[u] = dropped[u]

(* A run that goes on with what it has read, at most out of the feed loop. *)
OnTo(r, t) ==
    /\ t.cur = r.cur /\ t.out = r.out /\ t.cancelled = r.cancelled
    /\ Feeds(t.pc) => Feeds(r.pc)
    /\ Listens(t.pc) /\ t.pc # "cancel" => Listens(r.pc) /\ r.pc # "cancel"

-----------------------------------------------------------------------------
(* Accepted work and who minds it, as values: l is the log, c the cursor,  *)
(* stop whether the run's process is stopping, i whether the session is    *)
(* interrupted.                                                            *)
Fresh(l, c, p) == p \in 1..Len(l) /\ c < p /\ l[p].kind \in InboxKinds
Work(l, c) == \E p \in 1..Len(l) : Fresh(l, c, p)
Knows(l, c, r) == \A p \in 1..Len(l) : Fresh(l, c, p) => Has(Line(r), p)

Feeding(pc) == pc \in {"feed", "sleep", "put"}

(* What is outstanding is consumed, or the run in flight answers it, or it *)
(* is on the bus; an idle object has an empty bus; and an object is only   *)
(* closed when nothing goes on in it.                                      *)
Tended(stop, r, x) ==
    /\ Listens(r.pc) => \A i \in 1..Len(r.out) :
          r.out[i] \in r.seen \/ r.out[i] = x.answering \/ Has(x.bus, r.out[i])
    /\ x.answering # 0 => ~x.again
    /\ x.state = "idle" /\ ~x.closing => x.bus = <<>>
    /\ x.closing => stop \/ r.pc = "closing"
    /\ r.pc \in {"close", "closing"} =>
          stop \/ r.cancelled \/ (x.state # "running" /\ ~x.task)

(* The run reads the inbox again before it ends, or fails to by stopping,  *)
(* or has all of it in hand.                                               *)
Carries(l, c, stop, r, x) ==
    \/ stop /\ r.pc \notin {"none", "release"}
    \/ r.pc \in {"start", "wait", "pass", "read", "open", "step", "hold", "cancel"}
    \/ Feeding(r.pc) /\ (x.bus # <<>> \/ r.wake)
    \/ r.pc \in {"feed", "sleep"} /\ Knows(l, c, r)
    \/ r.pc \in {"close", "closing"} /\ (r.cancelled \/ r.wake)
    \/ r.pc = "after" /\ r.wake
Waits(r, x) == x.state # "running" /\ ~Feeding(r.pc)
Local(l, c, i, stop, r, x) == Carries(l, c, stop, r, x) \/ (i /\ Waits(r, x))

(* Who minds the work of a session: its row, or whoever was told by it; a  *)
(* run; the answer it waits for; or the clock, where the holder is dead.   *)
Told(s) ==
    \/ row[s].woken \/ dropped[s] # "no"
    \/ \E h \in Leases : Session(h) = s /\ "woken" \in calls[h]
Carried(s) == \E h \in Leases :
    Session(h) = s /\ Carries(log[s], cursor[s], Host(h) \in stopping, run[h], obj[h])
Asking(s) == intr[s] /\ \A h \in Leases : Session(h) = s => Waits(run[h], obj[h])
Abandoned(s) ==
    /\ row[s].owner # NoOwner
    /\ \A h \in Leases : Session(h) = s /\ Mine(h) => lease[h].gone /\ "release" \notin calls[h]
Minded(s) == Told(s) \/ Carried(s) \/ Asking(s) \/ Abandoned(s)

Tends(h) == run[h].pc # "none" => Tended(Host(h) \in stopping, run[h], obj[h])
TInv ==
    /\ \A h \in Leases : Tends(h)
    /\ \A s \in Sessions : Work(log[s], cursor[s]) => Minded(s)

(* Runs and objects that go nowhere.                                       *)
StaysRun(r, t) ==
    /\ t.pc = r.pc /\ t.out = r.out /\ t.items = r.items /\ t.cancelled = r.cancelled
    /\ r.seen \subseteq t.seen /\ (r.wake => t.wake)
StaysObject(stop, x, y) ==
    /\ y.state = x.state /\ y.bus = x.bus /\ y.answering = x.answering
    /\ y.again = x.again /\ y.task = x.task
    /\ x.closing => y.closing
    /\ y.closing => x.closing \/ stop

(* What a step of the run of h leaves alone.                               *)
Aside(h) ==
    /\ UNCHANGED <<row, lease, calls, stopping>>
    /\ \A u \in Sessions \ {Session(h)} : /\ log'[u] = log[u] /\ cursor'[u] = cursor[u]
                                          /\ intr'[u] = intr[u] /\ dropped'[u] = dropped[u]
    /\ dropped[Session(h)] # "no" => dropped'[Session(h)] # "no"

(* A run that goes where it will read the inbox again.                     *)
GoesOn == {"start", "wait", "pass", "read", "open", "step", "hold", "cancel"}
=============================================================================
