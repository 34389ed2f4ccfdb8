---------------------------- MODULE SessionWork ----------------------------
(***************************************************************************)
(* The work table of the managed server over Postgres                      *)
(* (managed-agents/src/server/work-pg.ts, contract in work.ts): one row    *)
(* per session that says whether its inbox was appended to since a holder  *)
(* last looked (woken) and who holds its lease.  It is both the queue and  *)
(* the lock of the worker fleet.                                           *)
(*                                                                         *)
(* Every operation of the code is one SQL statement; here a statement is   *)
(* one action on row.  What the code leaves between statements is left     *)
(* between actions: a renew or a release that was sent, commits at some    *)
(* later moment, and answers at a moment later still (or never).           *)
(*                                                                         *)
(* Time is the database clock, the only clock the statements consult.  A   *)
(* row keeps lease_until - now(), so that time passes without bound; it    *)
(* saturates at -1, "expired".  A row that does not exist behaves exactly  *)
(* as one that is quiet, free and at fence 0.                              *)
(***************************************************************************)
EXTENDS Integers, FiniteSets

CONSTANTS
    Sessions,   \* session ids
    Owners,     \* ownerIds, one per worker process
    Leases,     \* WorkLease objects: what claim and acquire return
    NoOwner,    \* lease_owner IS NULL
    NoSession,  \* a WorkLease object not handed out
    TTL,        \* ttlMs, in ticks
    MaxFence,   \* bound: takes of one row
    MaxFaults   \* bound: crashes and failed queries

ASSUME NoOwnerAssumption == NoOwner \notin Owners
ASSUME NoSessionAssumption == NoSession \notin Sessions
ASSUME TTLAssumption == TTL \in Nat
ASSUME BoundsAssumption == MaxFence \in Nat /\ MaxFaults \in Nat

VARIABLES
    row,     \* the table
    lease,   \* the WorkLease objects of all processes
    calls,   \* per lease: statements in flight and answers not yet delivered
    faults   \* crashes and failed queries so far

tableVars == <<row, lease, calls, faults>>

Left == -1..TTL

RowType == [woken : BOOLEAN,
            owner : Owners \union {NoOwner},
            left  : Left,
            fence : Nat]

(* sure is a history variable: what is left of the TTL that the last take  *)
(* or renew committed for this lease.                                      *)
LeaseType == [session : Sessions \union {NoSession},
              owner   : Owners \union {NoOwner},
              fence   : Nat,
              gone    : BOOLEAN,
              sure    : Left]

Beats == {"woken", "quiet", "lost"}       \* what renew answers
Statements == {"renew", "release"}        \* sent, not yet committed

NewRow == [woken |-> FALSE, owner |-> NoOwner, left |-> -1, fence |-> 0]
NoLease == [session |-> NoSession, owner |-> NoOwner, fence |-> 0,
            gone |-> TRUE, sure |-> -1]

TableInit ==
    /\ row = [s \in Sessions |-> NewRow]
    /\ lease = [h \in Leases |-> NoLease]
    /\ calls = [h \in Leases |-> {}]
    /\ faults = 0

-----------------------------------------------------------------------------
(* Definitions named Bug... are each the definition that follows with one  *)
(* plausible mistake in it.  No specification uses them: they are what the *)
(* properties below are tried against.                                     *)

(* Bug: takes a lease in its last tick (<= for <).                         *)
BugFreeInLastTick(s) == row[s].owner = NoOwner \/ row[s].left <= 0

(* lease_until IS NULL OR lease_until < now()                              *)
Free(s) == row[s].owner = NoOwner \/ row[s].left < 0

(* Bug: a woken row is claimed whether or not it is held.                  *)
BugClaimableWhileHeld(s) == row[s].woken

(* Bug: the partial index's other half is forgotten; only wakes are work.  *)
BugClaimableOnlyWoken(s) == row[s].woken /\ Free(s)

(* The WHERE of claim: woken and unheld, or held past its TTL by a holder  *)
(* that never released.                                                    *)
Claimable(s) == (row[s].woken \/ row[s].owner # NoOwner) /\ Free(s)

(* Advisory: is a live lease held right now?  Strict, where Free is        *)
(* strict too: in the tick where lease_until = now() the row is neither.   *)
Peek(s) == row[s].owner # NoOwner /\ row[s].left > 0

(* Bug: owner without fence.                                               *)
BugMineByOwner(h) ==
    /\ lease[h].session \in Sessions
    /\ row[lease[h].session].owner = lease[h].owner

(* The WHERE of renew and release: this holder, at this fence.             *)
Mine(h) ==
    /\ lease[h].session \in Sessions
    /\ row[lease[h].session].owner = lease[h].owner
    /\ row[lease[h].session].fence = lease[h].fence

Unused(h) == lease[h].gone /\ calls[h] = {}

(* Bug: a process that takes its own row again does not bump the fence.    *)
BugTakeKeepsFence(h, o, s) ==
    LET fence == IF row[s].owner = o THEN row[s].fence ELSE row[s].fence + 1 IN
    /\ Unused(h)
    /\ row[s].fence < MaxFence
    /\ row' = [row EXCEPT ![s] = [woken |-> FALSE, owner |-> o, left |-> TTL,
                                  fence |-> fence]]
    /\ lease' = [lease EXCEPT ![h] = [session |-> s, owner |-> o, fence |-> fence,
                                      gone |-> FALSE, sure |-> TTL]]
    /\ UNCHANGED <<calls, faults>>

(* What claim and acquire have in common: the SET of both statements and   *)
(* the lease object made from its RETURNING.                               *)
Take(h, o, s) ==
    /\ Unused(h)
    /\ row[s].fence < MaxFence
    /\ row' = [row EXCEPT ![s] = [woken |-> FALSE, owner |-> o, left |-> TTL,
                                  fence |-> row[s].fence + 1]]
    /\ lease' = [lease EXCEPT ![h] = [session |-> s, owner |-> o,
                                      fence |-> row[s].fence + 1,
                                      gone |-> FALSE, sure |-> TTL]]
    /\ UNCHANGED <<calls, faults>>

-----------------------------------------------------------------------------
(* Put a record in the log and wake the row, in one transaction.  The log  *)
(* itself is SessionWorker's.                                              *)
AppendRecord(s) ==
    /\ row' = [row EXCEPT ![s].woken = TRUE]
    /\ UNCHANGED <<lease, calls, faults>>

(* ORDER BY ... SKIP LOCKED LIMIT 1: a row another statement has locked at *)
(* this moment is stepped over, so any claimable row may be the one taken. *)
Claim(h, o, s) == Claimable(s) /\ Take(h, o, s)

Acquire(h, o, s) == Free(s) /\ Take(h, o, s)

(* renew: nothing is sent once the lease is gone.                          *)
RenewSend(h) ==
    /\ ~lease[h].gone
    /\ "renew" \notin calls[h]
    /\ calls' = [calls EXCEPT ![h] = @ \union {"renew"}]
    /\ UNCHANGED <<row, lease, faults>>

(* Bug: RETURNING reads woken after the SET, as without the self-join.     *)
BugRenewReadsAfterClear(h) ==
    /\ "renew" \in calls[h]
    /\ calls' = [calls EXCEPT ![h] =
                    (@ \ {"renew"}) \union {IF Mine(h) THEN "quiet" ELSE "lost"}]
    /\ IF Mine(h)
       THEN /\ row' = [row EXCEPT ![lease[h].session] =
                         [@ EXCEPT !.woken = FALSE, !.left = TTL]]
            /\ lease' = [lease EXCEPT ![h].sure = TTL]
       ELSE UNCHANGED <<row, lease>>
    /\ UNCHANGED faults

(* The UPDATE ... FROM (SELECT ... FOR UPDATE): extends the lease, clears  *)
(* woken and answers what it was; no row, no lease.  It does not look at   *)
(* lease_until: a lapsed lease nobody took is extended like any other.     *)
RenewCommit(h) ==
    /\ "renew" \in calls[h]
    /\ LET s == lease[h].session
           beat == IF ~Mine(h) THEN "lost"
                   ELSE IF row[s].woken THEN "woken" ELSE "quiet"
       IN /\ calls' = [calls EXCEPT ![h] = (@ \ {"renew"}) \union {beat}]
          /\ IF Mine(h)
             THEN /\ row' = [row EXCEPT ![s] = [@ EXCEPT !.woken = FALSE, !.left = TTL]]
                  /\ lease' = [lease EXCEPT ![h].sure = TTL]
             ELSE UNCHANGED <<row, lease>>
    /\ UNCHANGED faults

(* Bug: "lost" is answered, but the signal does not abort.                 *)
BugRenewAnswerNoAbort(h, beat) ==
    /\ beat \in calls[h] \intersect Beats
    /\ calls' = [calls EXCEPT ![h] = @ \ {beat}]
    /\ UNCHANGED <<row, lease, faults>>

(* renew resolves in the holder; "lost" aborts the signal.                 *)
RenewAnswer(h, beat) ==
    /\ beat \in calls[h] \intersect Beats
    /\ calls' = [calls EXCEPT ![h] = @ \ {beat}]
    /\ lease' = [lease EXCEPT ![h].gone = @ \/ beat = "lost"]
    /\ UNCHANGED <<row, faults>>

(* release: the lease is gone locally before the statement is sent.        *)
ReleaseSend(h) ==
    /\ ~lease[h].gone
    /\ lease' = [lease EXCEPT ![h].gone = TRUE]
    /\ calls' = [calls EXCEPT ![h] = @ \union {"release"}]
    /\ UNCHANGED <<row, faults>>

(* woken is left alone: it is the next claim's.                            *)
ReleaseCommit(h) ==
    /\ "release" \in calls[h]
    /\ calls' = [calls EXCEPT ![h] = @ \ {"release"}]
    /\ row' = IF Mine(h)
              THEN [row EXCEPT ![lease[h].session] =
                         [@ EXCEPT !.owner = NoOwner, !.left = -1]]
              ELSE row
    /\ UNCHANGED <<lease, faults>>

(* A query that fails: the statement never runs, or its answer is lost on  *)
(* the way back.  The callers swallow both.                                *)
QueryFails(h) ==
    /\ faults < MaxFaults
    /\ \E c \in calls[h] : calls' = [calls EXCEPT ![h] = @ \ {c}]
    /\ faults' = faults + 1
    /\ UNCHANGED <<row, lease>>

(* A process dies: nobody is left to hear an answer, but a statement it    *)
(* sent may still run.                                                     *)
Crash(o) ==
    /\ faults < MaxFaults
    /\ faults' = faults + 1
    /\ lease' = [h \in Leases |->
                    IF lease[h].owner = o THEN [lease[h] EXCEPT !.gone = TRUE]
                                          ELSE lease[h]]
    /\ calls' = [h \in Leases |->
                    IF lease[h].owner = o THEN calls[h] \intersect Statements
                                          ELSE calls[h]]
    /\ UNCHANGED row

(* A tick of now() against lease_until, which is expired below zero.       *)
Elapse(left) == IF left < 0 THEN left ELSE left - 1

Tick ==
    /\ row' = [s \in Sessions |-> [row[s] EXCEPT !.left = Elapse(@)]]
    /\ lease' = [h \in Leases |-> [lease[h] EXCEPT !.sure = Elapse(@)]]
    /\ UNCHANGED <<calls, faults>>

-----------------------------------------------------------------------------
TableNext ==
    \/ \E s \in Sessions : AppendRecord(s)
    \/ \E h \in Leases, o \in Owners, s \in Sessions : Claim(h, o, s)
    \/ \E h \in Leases, o \in Owners, s \in Sessions : Acquire(h, o, s)
    \/ \E h \in Leases : RenewSend(h)
    \/ \E h \in Leases : RenewCommit(h)
    \/ \E h \in Leases, beat \in Beats : RenewAnswer(h, beat)
    \/ \E h \in Leases : ReleaseSend(h)
    \/ \E h \in Leases : ReleaseCommit(h)
    \/ \E h \in Leases : QueryFails(h)
    \/ \E o \in Owners : Crash(o)
    \/ Tick

TableSpec == TableInit /\ [][TableNext]_tableVars

(* The heartbeat is a timer, the pool answers what it was sent, the claim  *)
(* loop of some worker asks again and again, and the clock runs.           *)
TableFairness ==
    /\ \A h \in Leases : /\ WF_tableVars(RenewSend(h))
                         /\ WF_tableVars(RenewCommit(h))
                         /\ WF_tableVars(ReleaseCommit(h))
                         /\ \A beat \in Beats : WF_tableVars(RenewAnswer(h, beat))
    /\ \A s \in Sessions :
          WF_tableVars(\E h \in Leases, o \in Owners : Claim(h, o, s))
    /\ WF_tableVars(Tick)

FairTableSpec == TableSpec /\ TableFairness

-----------------------------------------------------------------------------
TableTypeOK ==
    /\ row \in [Sessions -> RowType]
    /\ lease \in [Leases -> LeaseType]
    /\ calls \in [Leases -> SUBSET (Beats \union Statements)]
    /\ faults \in Nat

(* A lease that its holder may still believe in: not given back, not known *)
(* to be lost, and not yet a TTL since the last take or renew.             *)
Current(h) == ~lease[h].gone /\ lease[h].sure >= 0

(* What every lease object keeps to: it is about one row, one process and  *)
(* one take, and it sends its release only once it is gone.                *)
LeasesConsistent ==
    \A h \in Leases :
        /\ ~lease[h].gone => /\ lease[h].session \in Sessions
                             /\ lease[h].owner \in Owners
                             /\ lease[h].fence > 0
        /\ "release" \in calls[h] => lease[h].gone

(* One session is never current in two hands, however late the statements  *)
(* of its earlier holders commit: claim and acquire only take what has     *)
(* lapsed, and renew only extends what has not moved on.                   *)
OneHolder ==
    \A g, h \in Leases :
        Current(g) /\ Current(h) /\ lease[g].session = lease[h].session => g = h

(* A holder that kept its heartbeat still owns its row, at its fence, for  *)
(* at least as long as it counts on it: no expiry, takeover or stray       *)
(* release of an earlier holder removes the row under it.                  *)
HolderOwnsRow ==
    \A h \in Leases : Current(h) =>
        /\ Mine(h)
        /\ row[lease[h].session].left >= lease[h].sure

(* The fence tells the takes of one row apart and never runs backwards     *)
(* under a lease: what a stale holder presents can be recognised as stale. *)
FenceTellsTakesApart ==
    \A g, h \in Leases :
        /\ lease[g].session \in Sessions =>
              lease[g].fence <= row[lease[g].session].fence
        /\ (g # h /\ lease[g].session = lease[h].session
                  /\ lease[g].session \in Sessions)
              => lease[g].fence # lease[h].fence

(* Both, as a holder relies on them: what it renewed is its own, and what  *)
(* it presents can be told from what any earlier holder presents.          *)
HoldersOwnTheirRows == HolderOwnsRow /\ FenceTellsTakesApart

(* The table as grants: a row's fence names its last grant, and a grant is *)
(* held while some lease object made by it is current.                     *)
grantEpoch == [s \in Sessions |-> row[s].fence]
grantHeld == [s \in Sessions |->
                {lease[h].fence : h \in {g \in Leases : /\ Current(g)
                                                      /\ lease[g].session = s}}]

Grants == INSTANCE LeaseGrants WITH epoch <- grantEpoch, held <- grantHeld

(* The statements and their delays implement the contract: a session is    *)
(* only granted when no grant of it is held, each grant has a new fence,   *)
(* and no older grant is ever held again.                                  *)
ImplementsGrants == Grants!GrantSpec

(* A wake is never erased: woken is only cleared by handing it on, either  *)
(* to a new hold (which reads the inbox) or as the answer of a renew.      *)
WakeIsHandedOn ==
    [][\A s \in Sessions :
          row[s].woken /\ ~row'[s].woken =>
             \/ row'[s].fence > row[s].fence
             \/ \E h \in Leases : /\ lease[h].session = s
                                  /\ lease[h].fence = row[s].fence
                                  /\ "woken" \in calls'[h]]_tableVars

(* A session whose holder stopped renewing is work: it is taken again, or  *)
(* its holder turns out to be alive (or the bound on takes is reached).    *)
AbandonedIsTaken ==
    \A s \in Sessions :
        (row[s].owner # NoOwner /\ row[s].left < 0)
            ~> (row[s].owner = NoOwner \/ row[s].left >= 0 \/ row[s].fence = MaxFence)

(* A holder whose row has moved on finds out: its signal aborts.           *)
SupersededLearns ==
    \A h \in Leases : (~lease[h].gone /\ ~Mine(h)) ~> lease[h].gone

(* A lease that its holder let lapse ends on both sides: the row is taken  *)
(* on, and the holder stops (work-pg.ts:90-99, 156-162).                   *)
LeasesMoveOn == AbandonedIsTaken /\ SupersededLearns
=============================================================================
