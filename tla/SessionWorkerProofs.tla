------------------------ MODULE SessionWorkerProofs ------------------------
(* Proofs about SessionWorker, on top of those about the work table.  What
   the inductive invariants say, and why they are needed, is told in
   SessionWorkerInvariants. *)
EXTENDS SessionWorkerInvariants, FiniteSetTheorems, SequenceTheorems, TLAPS

USE DEF Left, Beats, Statements

(* Every value the table, the lease objects and the pool hold is of its
   type: the first conjunct of the induction. *)
LEMMA TypeStep ==
  ASSUME TableTypeOK, [TableNext]_tableVars
  PROVE  TableTypeOK'
PROOF
<1> USE TTLAssumption, BoundsAssumption DEF TableTypeOK, RowType, LeaseType
<1>take. ASSUME NEW h \in Leases, NEW o \in Owners, NEW s \in Sessions, Take(h, o, s)
         PROVE  TableTypeOK'
  BY <1>take DEF Take
<1>1. ASSUME NEW s \in Sessions, AppendRecord(s) PROVE TableTypeOK' BY <1>1, ZenonT(60) DEF AppendRecord
<1>2. ASSUME NEW h \in Leases, NEW o \in Owners, NEW s \in Sessions,
             Claim(h, o, s) \/ Acquire(h, o, s)
      PROVE  TableTypeOK'
  BY <1>2, <1>take DEF Claim, Acquire
<1>3. ASSUME NEW h \in Leases, RenewSend(h) PROVE TableTypeOK' BY <1>3 DEF RenewSend
<1>4. ASSUME NEW h \in Leases, RenewCommit(h) PROVE TableTypeOK'
  <2>1. calls' \in [Leases -> SUBSET (Beats \union Statements)] /\ faults' \in Nat
    BY <1>4 DEF RenewCommit
  <2>2. CASE Mine(h)
    <3>1. row' \in [Sessions -> RowType]
      <4>1. row[lease[h].session] \in RowType BY <2>2 DEF Mine
      <4>2. [row[lease[h].session] EXCEPT !.woken = FALSE, !.left = TTL] \in RowType
        <5>1. TTL \in Left OBVIOUS
        <5> QED BY <4>1, <5>1
      <4>3. row' = [row EXCEPT ![lease[h].session] =
                       [row[lease[h].session] EXCEPT !.woken = FALSE, !.left = TTL]]
        BY <1>4, <2>2 DEF RenewCommit
      <4> QED BY <4>2, <4>3
    <3>2. lease' \in [Leases -> LeaseType] BY <1>4, <2>2 DEF RenewCommit, Mine
    <3> QED BY <2>1, <3>1, <3>2
  <2>3. CASE ~Mine(h) BY <1>4, <2>1, <2>3 DEF RenewCommit
  <2> QED BY <2>2, <2>3
<1>5. ASSUME NEW h \in Leases, NEW beat \in Beats, RenewAnswer(h, beat) PROVE TableTypeOK'
  BY <1>5, ZenonT(60) DEF RenewAnswer
<1>6. ASSUME NEW h \in Leases, ReleaseSend(h) PROVE TableTypeOK' BY <1>6 DEF ReleaseSend
<1>7. ASSUME NEW h \in Leases, ReleaseCommit(h) PROVE TableTypeOK'
  <2>1. calls' \in [Leases -> SUBSET (Beats \union Statements)] /\ UNCHANGED <<lease, faults>>
    BY <1>7 DEF ReleaseCommit
  <2>2. row' \in [Sessions -> RowType]
    <3>1. CASE Mine(h)
      <4>1. row[lease[h].session] \in RowType BY <3>1 DEF Mine
      <4>2. [row[lease[h].session] EXCEPT !.owner = NoOwner, !.left = -1] \in RowType
        <5>1. -1 \in Left OBVIOUS
        <5> QED BY <4>1, <5>1
      <4> QED BY <1>7, <3>1, <4>2 DEF ReleaseCommit
    <3>2. CASE ~Mine(h) BY <1>7, <3>2 DEF ReleaseCommit
    <3> QED BY <3>1, <3>2
  <2> QED BY <2>1, <2>2
<1>8. ASSUME NEW h \in Leases, QueryFails(h) PROVE TableTypeOK' BY <1>8 DEF QueryFails
<1>9. ASSUME NEW o \in Owners, Crash(o) PROVE TableTypeOK'
  <2>1. lease' \in [Leases -> LeaseType]
    <3>1. \A h \in Leases : [lease[h] EXCEPT !.gone = TRUE] \in LeaseType OBVIOUS
    <3> QED BY <1>9, <3>1 DEF Crash
  <2>2. calls' \in [Leases -> SUBSET (Beats \union Statements)] BY <1>9 DEF Crash
  <2> QED BY <1>9, <2>1, <2>2 DEF Crash
<1>10. ASSUME Tick PROVE TableTypeOK'
  <2>1. \A left \in Left : Elapse(left) \in Left BY DEF Elapse
  <2>2. \A s \in Sessions : [row[s] EXCEPT !.left = Elapse(row[s].left)] \in RowType BY <2>1
  <2>3. \A h \in Leases : [lease[h] EXCEPT !.sure = Elapse(lease[h].sure)] \in LeaseType BY <2>1
  <2> QED BY <1>10, <2>2, <2>3 DEF Tick
<1>11. CASE UNCHANGED tableVars BY <1>11 DEF tableVars
<1> QED
  BY <1>1, <1>2, <1>3, <1>4, <1>5, <1>6, <1>7, <1>8, <1>9, <1>10, <1>11 DEF TableNext

-----------
(* claim and acquire: what is taken had lapsed, so nobody was current on
   it, and its new fence is above every fence handed out for it. *)
LEMMA TakeStep ==
  ASSUME IInv, TableTypeOK', NEW h \in Leases, NEW o \in Owners, NEW s \in Sessions,
         Free(s), Take(h, o, s)
  PROVE  LeasesConsistent' /\ HolderOwnsRow' /\ FenceTellsTakesApart'
PROOF
<1> USE NoOwnerAssumption, TTLAssumption
<1> DEFINE new == [session |-> s, owner |-> o, fence |-> row[s].fence + 1,
                   gone |-> FALSE, sure |-> TTL]
<1>1. /\ row'[s].owner = o /\ row'[s].left = TTL /\ row'[s].fence = row[s].fence + 1
      /\ \A t \in Sessions : t # s => row'[t] = row[t]
  BY DEF Take, IInv, TableTypeOK
<1>2. lease'[h] = new /\ \A g \in Leases : g # h => lease'[g] = lease[g]
  BY DEF Take, IInv, TableTypeOK
<1>3. calls' = calls /\ calls[h] = {} BY DEF Take, Unused
<1>4. \A g \in Leases : lease[g] \in LeaseType BY DEF IInv, TableTypeOK
<1>4a. \A t \in Sessions : row[t] \in RowType BY DEF IInv, TableTypeOK
<1>5. LeasesConsistent'
  <2>1. row[s].fence + 1 > 0 BY <1>4a DEF RowType
  <2> QED BY <1>2, <1>3, <2>1 DEF LeasesConsistent, IInv
<1>6. \A g \in Leases : Current(g) => lease[g].session # s
  <2> SUFFICES ASSUME NEW g \in Leases, Current(g), lease[g].session = s PROVE FALSE
    OBVIOUS
  <2>1. row[s].owner = lease[g].owner /\ row[s].left >= lease[g].sure
    BY DEF IInv, HolderOwnsRow, Mine
  <2>2. row[s].owner # NoOwner BY <2>1 DEF IInv, LeasesConsistent, Current
  <2>3. row[s].left >= 0 BY <2>1, <1>4, <1>4a DEF Current, LeaseType, RowType
  <2> QED BY <2>2, <2>3, <1>4a DEF Free, RowType
<1>7. HolderOwnsRow'
  <2> SUFFICES ASSUME NEW g \in Leases, Current(g)'
               PROVE  Mine(g)' /\ row'[lease'[g].session].left >= lease'[g].sure
    BY DEF HolderOwnsRow
  <2>1. CASE g = h BY <2>1, <1>1, <1>2 DEF Mine
  <2>2. CASE g # h
    <3>1. lease'[g] = lease[g] /\ Current(g) BY <2>2, <1>2 DEF Current
    <3>2. lease[g].session # s /\ lease[g].session \in Sessions
      BY <3>1, <1>6 DEF IInv, LeasesConsistent, Current
    <3> QED BY <3>1, <3>2, <1>1 DEF IInv, HolderOwnsRow, Mine
  <2> QED BY <2>1, <2>2
<1>8. FenceTellsTakesApart'
  <2>1. \A g \in Leases : lease[g].session = s => lease[g].fence < row[s].fence + 1
    BY <1>4, <1>4a DEF IInv, FenceTellsTakesApart, LeaseType, RowType
  <2> SUFFICES ASSUME NEW f \in Leases, NEW g \in Leases
               PROVE  /\ lease'[f].session \in Sessions =>
                             lease'[f].fence <= row'[lease'[f].session].fence
                      /\ (f # g /\ lease'[f].session = lease'[g].session
                                /\ lease'[f].session \in Sessions)
                            => lease'[f].fence # lease'[g].fence
    BY DEF FenceTellsTakesApart
  <2>2. lease'[f].session \in Sessions => lease'[f].fence <= row'[lease'[f].session].fence
    <3>1. CASE f = h BY <3>1, <1>1, <1>2, <1>4a DEF RowType
    <3>2. CASE f # h
      BY <3>2, <1>1, <1>2, <2>1, <1>4, <1>4a DEF IInv, FenceTellsTakesApart, RowType, LeaseType
    <3> QED BY <3>1, <3>2
  <2>3. ASSUME f # g, lease'[f].session = lease'[g].session, lease'[f].session \in Sessions
        PROVE  lease'[f].fence # lease'[g].fence
    <3>1. CASE f = h BY <3>1, <2>3, <1>2, <2>1, <1>4, <1>4a DEF RowType, LeaseType
    <3>2. CASE g = h BY <3>2, <2>3, <1>2, <2>1, <1>4, <1>4a DEF RowType, LeaseType
    <3>3. CASE f # h /\ g # h BY <3>3, <2>3, <1>2 DEF IInv, FenceTellsTakesApart
    <3> QED BY <3>1, <3>2, <3>3
  <2> QED BY <2>2, <2>3
<1> QED BY <1>5, <1>7, <1>8

LEMMA SameTakesKeepFences ==
  ASSUME FenceTellsTakesApart, SameTakes
  PROVE  FenceTellsTakesApart'
PROOF
  BY DEF FenceTellsTakesApart, SameTakes

(* renew: the row it extends is this lease's, and by the fences nobody
   else's. *)
LEMMA RenewCommitStep ==
  ASSUME IInv, TableTypeOK', NEW h \in Leases, RenewCommit(h)
  PROVE  SameTakes /\ LeasesConsistent' /\ HolderOwnsRow'
PROOF
<1> DEFINE s == lease[h].session
<1>1. \A g \in Leases : "release" \in calls'[g] => "release" \in calls[g]
  BY DEF RenewCommit, IInv, TableTypeOK
<1>2. CASE Mine(h)
  <2>1. /\ row'[s].owner = row[s].owner /\ row'[s].fence = row[s].fence /\ row'[s].left = TTL
        /\ \A t \in Sessions : t # s => row'[t] = row[t]
    <3>1. row' = [row EXCEPT ![s] = [row[s] EXCEPT !.woken = FALSE, !.left = TTL]]
      BY <1>2 DEF RenewCommit
    <3>2. s \in Sessions /\ row \in [Sessions -> RowType] BY <1>2 DEF Mine, IInv, TableTypeOK
    <3>3. /\ row'[s] = [row[s] EXCEPT !.woken = FALSE, !.left = TTL]
          /\ \A t \in Sessions : t # s => row'[t] = row[t]
      BY <3>1, <3>2
    <3>4. row[s] \in RowType BY <3>2
    <3> QED BY <3>3, <3>4 DEF RowType
  <2>2. /\ lease'[h] = [lease[h] EXCEPT !.sure = TTL]
        /\ \A g \in Leases : g # h => lease'[g] = lease[g]
    BY <1>2 DEF RenewCommit, IInv, TableTypeOK
  <2>3. /\ lease'[h].session = lease[h].session /\ lease'[h].owner = lease[h].owner
        /\ lease'[h].fence = lease[h].fence /\ lease'[h].gone = lease[h].gone
        /\ lease'[h].sure = TTL
    BY <2>2 DEF IInv, TableTypeOK, LeaseType
  <2>4. SameTakes
    <3>1. \A t \in Sessions : row'[t].fence = row[t].fence BY <2>1
    <3>2. \A g \in Leases : /\ lease'[g].session = lease[g].session
                            /\ lease'[g].owner = lease[g].owner
                            /\ lease'[g].fence = lease[g].fence
      BY <2>2, <2>3
    <3> QED BY <3>1, <3>2 DEF SameTakes
  <2>5. LeasesConsistent'
    <3>1. \A g \in Leases : /\ lease'[g].session = lease[g].session
                            /\ lease'[g].owner = lease[g].owner
                            /\ lease'[g].fence = lease[g].fence
                            /\ lease'[g].gone = lease[g].gone
      BY <2>2, <2>3
    <3> QED BY <1>1, <3>1 DEF LeasesConsistent, IInv
  <2>6. HolderOwnsRow'
    <3> SUFFICES ASSUME NEW g \in Leases, Current(g)'
                 PROVE  Mine(g)' /\ row'[lease'[g].session].left >= lease'[g].sure
      BY DEF HolderOwnsRow
    <3>1. CASE g = h BY <3>1, <1>2, <2>1, <2>3, TTLAssumption DEF Mine
    <3>2. CASE g # h
      <4>1. lease'[g] = lease[g] /\ Current(g) /\ Mine(g)
        BY <3>2, <2>2 DEF Current, IInv, HolderOwnsRow
      <4>2. lease[g].session # s BY <1>2, <3>2, <4>1 DEF Mine, IInv, FenceTellsTakesApart
      <4> QED BY <4>1, <4>2, <2>1 DEF IInv, HolderOwnsRow, Mine
    <3> QED BY <3>1, <3>2
  <2> QED BY <2>4, <2>5, <2>6
<1>3. CASE ~Mine(h)
  <2>1. row' = row /\ lease' = lease BY <1>3 DEF RenewCommit
  <2> QED BY <2>1, <1>1 DEF SameTakes, LeasesConsistent, HolderOwnsRow, Current, Mine, IInv
<1> QED BY <1>2, <1>3

(* release: it frees a row only at a fence of which nobody is current. *)
LEMMA ReleaseCommitStep ==
  ASSUME IInv, TableTypeOK', NEW h \in Leases, ReleaseCommit(h)
  PROVE  SameTakes /\ LeasesConsistent' /\ HolderOwnsRow'
PROOF
<1> DEFINE s == lease[h].session
<1>1. lease' = lease /\ \A g \in Leases : calls'[g] \subseteq calls[g]
  BY DEF ReleaseCommit, IInv, TableTypeOK
<1>2. lease[h].gone BY DEF ReleaseCommit, IInv, LeasesConsistent
<1>3. LeasesConsistent' BY <1>1 DEF LeasesConsistent, IInv
<1>4. CASE Mine(h)
  <2>1. /\ row'[s].fence = row[s].fence
        /\ \A t \in Sessions : t # s => row'[t] = row[t]
    BY <1>4 DEF ReleaseCommit, IInv, TableTypeOK, RowType, Mine
  <2>2. SameTakes BY <2>1, <1>1 DEF SameTakes
  <2>3. HolderOwnsRow'
    <3> SUFFICES ASSUME NEW g \in Leases, Current(g)'
                 PROVE  Mine(g)' /\ row'[lease'[g].session].left >= lease'[g].sure
      BY DEF HolderOwnsRow
    <3>1. Current(g) /\ Mine(g) /\ g # h BY <1>1, <1>2 DEF Current, IInv, HolderOwnsRow
    <3>2. lease[g].session # s BY <1>4, <3>1 DEF Mine, IInv, FenceTellsTakesApart
    <3> QED BY <1>1, <2>1, <3>1, <3>2 DEF IInv, HolderOwnsRow, Mine
  <2> QED BY <1>3, <2>2, <2>3
<1>5. CASE ~Mine(h)
  <2>1. row' = row BY <1>5 DEF ReleaseCommit
  <2> QED BY <2>1, <1>1, <1>3 DEF SameTakes, HolderOwnsRow, Current, Mine, IInv
<1> QED BY <1>4, <1>5

(* The clock: what a holder counts on and what its row has left run down
   together. *)
LEMMA TickStep ==
  ASSUME IInv, TableTypeOK', Tick
  PROVE  SameTakes /\ LeasesConsistent' /\ HolderOwnsRow'
PROOF
<1>1. \A s \in Sessions : /\ row'[s].owner = row[s].owner
                          /\ row'[s].fence = row[s].fence
                          /\ row'[s].left = Elapse(row[s].left)
  BY DEF Tick, IInv, TableTypeOK, RowType
<1>2. \A h \in Leases : /\ lease'[h].session = lease[h].session
                        /\ lease'[h].owner = lease[h].owner
                        /\ lease'[h].fence = lease[h].fence
                        /\ lease'[h].gone = lease[h].gone
                        /\ lease'[h].sure = Elapse(lease[h].sure)
  BY DEF Tick, IInv, TableTypeOK, LeaseType
<1>3. calls' = calls BY DEF Tick
<1>4. SameTakes BY <1>1, <1>2 DEF SameTakes
<1>5. LeasesConsistent' BY <1>2, <1>3 DEF LeasesConsistent, IInv
<1>6. HolderOwnsRow'
  <2> SUFFICES ASSUME NEW g \in Leases, Current(g)'
               PROVE  Mine(g)' /\ row'[lease'[g].session].left >= lease'[g].sure
    BY DEF HolderOwnsRow
  <2> DEFINE t == lease[g].session
  <2>1. lease[g].sure \in Int /\ lease[g].sure > 0 /\ Current(g)
    BY <1>2, TTLAssumption DEF Current, Elapse, IInv, TableTypeOK, LeaseType
  <2>2. Mine(g) /\ row[t].left >= lease[g].sure /\ t \in Sessions
    BY <2>1 DEF IInv, HolderOwnsRow, Mine
  <2>3. row[t].left \in Int BY <2>2, TTLAssumption DEF IInv, TableTypeOK, RowType
  <2>4. Mine(g)' BY <1>1, <1>2, <2>2 DEF Mine
  <2> QED BY <1>1, <1>2, <2>1, <2>2, <2>3, <2>4 DEF Elapse
<1> QED BY <1>4, <1>5, <1>6

(* The steps that only send, answer or forget: rows keep their hold, and
   no lease becomes current. *)
LEMMA QuietStep ==
  ASSUME IInv, TableTypeOK',
         \/ \E s \in Sessions : AppendRecord(s)
         \/ \E h \in Leases : \/ RenewSend(h) \/ ReleaseSend(h) \/ QueryFails(h)
                              \/ \E beat \in Beats : RenewAnswer(h, beat)
         \/ \E o \in Owners : Crash(o)
         \/ UNCHANGED tableVars
  PROVE  SameTakes /\ LeasesConsistent' /\ HolderOwnsRow'
PROOF
<1> DEFINE SameHold(s) == /\ row'[s].owner = row[s].owner
                          /\ row'[s].fence = row[s].fence
                          /\ row'[s].left = row[s].left
           SameLease(h) == /\ lease'[h].session = lease[h].session
                           /\ lease'[h].owner = lease[h].owner
                           /\ lease'[h].fence = lease[h].fence
                           /\ lease'[h].sure = lease[h].sure
                           /\ lease[h].gone => lease'[h].gone
                           /\ "release" \in calls'[h] =>
                                 "release" \in calls[h] \/ lease'[h].gone
<1>1. /\ \A s \in Sessions : SameHold(s)
      /\ \A h \in Leases : SameLease(h)
  <2>1. CASE \E s \in Sessions : AppendRecord(s)
    BY <2>1 DEF AppendRecord, IInv, TableTypeOK, RowType
  <2>2. CASE \E h \in Leases : RenewSend(h) BY <2>2 DEF RenewSend, IInv, TableTypeOK
  <2>3. CASE \E h \in Leases : ReleaseSend(h)
    BY <2>3 DEF ReleaseSend, IInv, TableTypeOK, LeaseType
  <2>4. CASE \E h \in Leases : QueryFails(h) BY <2>4 DEF QueryFails, IInv, TableTypeOK
  <2>5. CASE \E h \in Leases : \E beat \in Beats : RenewAnswer(h, beat)
    BY <2>5 DEF RenewAnswer, IInv, TableTypeOK, LeaseType
  <2>6. CASE \E o \in Owners : Crash(o) BY <2>6 DEF Crash, IInv, TableTypeOK, LeaseType
  <2>7. CASE UNCHANGED tableVars BY <2>7 DEF tableVars
  <2> QED BY <2>1, <2>2, <2>3, <2>4, <2>5, <2>6, <2>7
<1>2. SameTakes BY <1>1 DEF SameTakes
<1>3. LeasesConsistent' BY <1>1 DEF LeasesConsistent, IInv, TableTypeOK, LeaseType
<1>4. HolderOwnsRow'
  <2> SUFFICES ASSUME NEW g \in Leases, Current(g)'
               PROVE  Mine(g)' /\ row'[lease'[g].session].left >= lease'[g].sure
    BY DEF HolderOwnsRow
  <2>1. Current(g) /\ Mine(g) BY <1>1 DEF Current, IInv, HolderOwnsRow
  <2> QED BY <1>1, <2>1 DEF Mine, IInv, HolderOwnsRow
<1> QED BY <1>2, <1>3, <1>4

-----------
LEMMA InitInv == TableInit => IInv
PROOF
<1> SUFFICES ASSUME TableInit PROVE IInv
  OBVIOUS
<1>1. TableTypeOK
  BY TTLAssumption DEF TableInit, TableTypeOK, NewRow, NoLease, RowType, LeaseType
<1>2. /\ \A h \in Leases : lease[h] = NoLease /\ calls[h] = {}
      /\ \A s \in Sessions : row[s] = NewRow
  BY DEF TableInit
<1>3. LeasesConsistent /\ HolderOwnsRow
  BY <1>2 DEF LeasesConsistent, HolderOwnsRow, Current, NoLease
<1>4. FenceTellsTakesApart
  BY <1>2, NoSessionAssumption DEF FenceTellsTakesApart, NoLease, NewRow
<1> QED BY <1>1, <1>3, <1>4 DEF IInv

LEMMA NextInv == IInv /\ [TableNext]_tableVars => IInv' /\ (GrantStep \/ SameTakes)
PROOF
<1> SUFFICES ASSUME IInv, [TableNext]_tableVars PROVE IInv' /\ (GrantStep \/ SameTakes)
  OBVIOUS
<1>1. TableTypeOK' BY TypeStep DEF IInv
<1>2. CASE \E h \in Leases, o \in Owners, s \in Sessions : Claim(h, o, s) \/ Acquire(h, o, s)
  <2>1. GrantStep BY <1>2 DEF GrantStep, Claim, Acquire, Claimable
  <2>2. LeasesConsistent' /\ HolderOwnsRow' /\ FenceTellsTakesApart'
    BY <2>1, <1>1, TakeStep DEF GrantStep
  <2> QED BY <1>1, <2>1, <2>2 DEF IInv
<1>3. CASE SameTakes /\ LeasesConsistent' /\ HolderOwnsRow'
  BY <1>1, <1>3, SameTakesKeepFences DEF IInv
<1>4. CASE \E h \in Leases : RenewCommit(h) BY <1>1, <1>3, <1>4, RenewCommitStep
<1>5. CASE \E h \in Leases : ReleaseCommit(h) BY <1>1, <1>3, <1>5, ReleaseCommitStep
<1>6. CASE Tick BY <1>1, <1>3, <1>6, TickStep
<1>7. CASE \/ \E s \in Sessions : AppendRecord(s)
           \/ \E h \in Leases : \/ RenewSend(h) \/ ReleaseSend(h) \/ QueryFails(h)
                                \/ \E beat \in Beats : RenewAnswer(h, beat)
           \/ \E o \in Owners : Crash(o)
           \/ UNCHANGED tableVars
  BY <1>1, <1>3, <1>7, QuietStep
<1> QED
  BY <1>2, <1>4, <1>5, <1>6, <1>7 DEF TableNext

(* The inductive invariant holds of the work table. *)
THEOREM TableInvariant == TableSpec => []IInv
PROOF
<1>1. IInv /\ [TableNext]_tableVars => IInv' BY NextInv
<1> QED
  BY <1>1, InitInv, PTL DEF TableSpec

(* Every variable of the work table keeps its type. *)
THEOREM TableTypeCorrect == TableSpec => []TableTypeOK
PROOF
<1>1. IInv => TableTypeOK BY DEF IInv
<1> QED
  BY <1>1, TableInvariant, PTL

LEMMA OneHolderFollows == IInv => OneHolder
PROOF
<1> SUFFICES ASSUME IInv, NEW g \in Leases, NEW h \in Leases,
                    Current(g), Current(h), lease[g].session = lease[h].session
             PROVE  g = h
  BY DEF OneHolder
<1>1. Mine(g) /\ Mine(h) BY DEF IInv, HolderOwnsRow
<1>2. lease[g].fence = lease[h].fence /\ lease[g].session \in Sessions BY <1>1 DEF Mine
<1> QED
  BY <1>2 DEF IInv, FenceTellsTakesApart

(* However late their statements commit, no two lease objects are current
   for one session: the claim of work.ts that taking the lease IS the
   claim. *)
THEOREM SessionHasOneHolder == TableSpec => []OneHolder
PROOF
<1> QED
  BY OneHolderFollows, TableInvariant, PTL

(* A holder that renewed within the TTL still owns its row, and the fence
   a holder presents tells its take from every other. *)
THEOREM HoldersAreFenced == TableSpec => []HoldersOwnTheirRows
PROOF
<1>1. IInv => HoldersOwnTheirRows BY DEF IInv, HoldersOwnTheirRows
<1> QED
  BY <1>1, TableInvariant, PTL

-----------
(* What is held of a session is nothing, or its last grant. *)
LEMMA HeldIsLastGrant ==
  ASSUME IInv, NEW s \in Sessions
  PROVE  /\ grantHeld[s] = {} \/ grantHeld[s] = {row[s].fence}
         /\ grantHeld[s] = {} <=> \A h \in Leases : ~(Current(h) /\ lease[h].session = s)
PROOF
<1>1. grantHeld[s] = {lease[h].fence : h \in {g \in Leases : Current(g) /\ lease[g].session = s}}
  BY DEF grantHeld
<1>2. \A h \in Leases : Current(h) /\ lease[h].session = s => lease[h].fence = row[s].fence
  BY DEF IInv, HolderOwnsRow, Mine
<1> QED
  BY <1>1, <1>2

(* A take grants: nobody held the session, and the new hold is its only
   one. *)
LEMMA TakeGrants ==
  ASSUME IInv, IInv', GrantStep
  PROVE  \E s \in Sessions : Grants!Grant(s)
PROOF
<1>1. PICK h \in Leases, o \in Owners, s \in Sessions : Free(s) /\ Take(h, o, s)
  BY DEF GrantStep
<1>2. /\ row'[s].fence = row[s].fence + 1
      /\ \A t \in Sessions : t # s => row'[t] = row[t]
      /\ lease'[h].session = s /\ Current(h)' /\ ~Current(h)
      /\ \A g \in Leases : g # h => lease'[g] = lease[g]
  BY <1>1, TTLAssumption DEF Take, Unused, Current, IInv, TableTypeOK
<1>3. grantHeld[s] = {}
  <2> SUFFICES ASSUME NEW g \in Leases, Current(g), lease[g].session = s PROVE FALSE
    BY HeldIsLastGrant
  <2>1. row[s].owner = lease[g].owner /\ row[s].left >= lease[g].sure
    BY DEF IInv, HolderOwnsRow, Mine
  <2>2. lease[g].owner \in Owners /\ lease[g].sure \in Int /\ row[s].left \in Int
    BY TTLAssumption DEF Current, IInv, LeasesConsistent, TableTypeOK, LeaseType, RowType
  <2> QED BY <1>1, <2>1, <2>2, NoOwnerAssumption DEF Free, Current
<1>4. grantHeld'[s] = {row[s].fence + 1}
  <2>1. \A g \in Leases : Current(g)' /\ lease'[g].session = s =>
                              lease'[g].fence = row'[s].fence
    BY DEF IInv, HolderOwnsRow, Mine
  <2> QED BY <1>2, <2>1 DEF grantHeld
<1>5. \A t \in Sessions : t # s => grantHeld'[t] = grantHeld[t]
  <2> SUFFICES ASSUME NEW t \in Sessions, t # s PROVE grantHeld'[t] = grantHeld[t]
    OBVIOUS
  <2>1. \A g \in Leases :
            /\ (Current(g)' /\ lease'[g].session = t) <=> (Current(g) /\ lease[g].session = t)
            /\ Current(g) /\ lease[g].session = t => lease'[g].fence = lease[g].fence
    BY <1>2 DEF Current
  <2> QED BY <2>1 DEF grantHeld
<1>6. grantEpoch' = [grantEpoch EXCEPT ![s] = grantEpoch[s] + 1] BY <1>2 DEF grantEpoch
<1>7. grantHeld' = [grantHeld EXCEPT ![s] = {grantEpoch[s] + 1}]
  BY <1>4, <1>5 DEF grantHeld, grantEpoch
<1> QED
  BY <1>3, <1>6, <1>7 DEF Grants!Grant

(* Steps under which nobody becomes current end grants, or leave them. *)
LEMMA EndingStep ==
  ASSUME IInv, IInv', SameTakes, \A h \in Leases : Current(h)' => Current(h)
  PROVE  \E S \in SUBSET Sessions : Grants!End(S)
PROOF
<1> DEFINE S == {s \in Sessions : grantHeld'[s] = {}}
<1>1. \A s \in Sessions : grantHeld'[s] = {} \/ grantHeld'[s] = grantHeld[s]
  <2> SUFFICES ASSUME NEW s \in Sessions, grantHeld'[s] # {} PROVE grantHeld'[s] = grantHeld[s]
    OBVIOUS
  <2>1. PICK h \in Leases : Current(h)' /\ lease'[h].session = s BY DEF grantHeld
  <2>2. Current(h) /\ lease[h].session = s /\ lease'[h].fence = lease[h].fence
    BY <2>1 DEF SameTakes
  <2>3. grantHeld[s] = {lease[h].fence}
    <3>1. \A g \in Leases : Current(g) /\ lease[g].session = s => lease[g].fence = lease[h].fence
      BY <2>2 DEF IInv, HolderOwnsRow, Mine
    <3> QED BY <2>2, <3>1 DEF grantHeld
  <2>4. grantHeld'[s] = {lease'[h].fence}
    <3>1. \A g \in Leases : Current(g)' /\ lease'[g].session = s => lease'[g].fence = lease'[h].fence
      BY <2>1 DEF IInv, HolderOwnsRow, Mine
    <3> QED BY <2>1, <3>1 DEF grantHeld
  <2> QED BY <2>2, <2>3, <2>4
<1>2. grantHeld' = [s \in Sessions |-> IF s \in S THEN {} ELSE grantHeld[s]]
  BY <1>1 DEF grantHeld
<1>3. UNCHANGED grantEpoch BY DEF SameTakes, grantEpoch
<1> QED
  BY <1>2, <1>3 DEF Grants!End

(* A renew that commits extends a grant that was held, or brings back the
   last one when it had lapsed. *)
LEMMA RenewGrants ==
  ASSUME IInv, IInv', SameTakes, NEW h \in Leases, RenewCommit(h)
  PROVE  \/ \E s \in Sessions : Grants!Regain(s)
         \/ \E S \in SUBSET Sessions : Grants!End(S)
PROOF
<1> DEFINE s == lease[h].session
<1>1. \A g \in Leases : g # h => lease'[g] = lease[g] BY DEF RenewCommit, IInv, TableTypeOK
<1>2. CASE \A g \in Leases : Current(g)' => Current(g) BY <1>2, EndingStep
<1>3. CASE ~ \A g \in Leases : Current(g)' => Current(g)
  <2>1. Current(h)' /\ ~Current(h) BY <1>1, <1>3 DEF Current
  <2>2. Mine(h) /\ s \in Sessions /\ Mine(h)' /\ lease'[h].session = s
    BY <2>1 DEF RenewCommit, Current, Mine, IInv, HolderOwnsRow, SameTakes
  <2>3. grantHeld[s] = {}
    <3> SUFFICES ASSUME NEW g \in Leases, Current(g), lease[g].session = s PROVE FALSE
      BY <2>2, HeldIsLastGrant
    <3>1. lease[g].fence = lease[h].fence BY <2>2 DEF IInv, HolderOwnsRow, Mine
    <3> QED BY <2>1, <2>2, <3>1 DEF IInv, FenceTellsTakesApart
  <2>4. grantHeld'[s] = {grantEpoch[s]}
    <3>1. \A g \in Leases : Current(g)' /\ lease'[g].session = s => lease'[g].fence = row'[s].fence
      BY DEF IInv, HolderOwnsRow, Mine
    <3>2. row'[s].fence = grantEpoch[s] BY <2>2 DEF SameTakes, grantEpoch
    <3> QED BY <2>1, <2>2, <3>1, <3>2 DEF grantHeld
  <2>5. \A t \in Sessions : t # s => grantHeld'[t] = grantHeld[t]
    <3> SUFFICES ASSUME NEW t \in Sessions, t # s PROVE grantHeld'[t] = grantHeld[t]
      OBVIOUS
    <3>1. \A g \in Leases :
            /\ (Current(g)' /\ lease'[g].session = t) <=> (Current(g) /\ lease[g].session = t)
            /\ lease'[g].fence = lease[g].fence
      BY <1>1, <2>2 DEF Current, SameTakes
    <3> QED BY <3>1 DEF grantHeld
  <2>6. grantHeld' = [grantHeld EXCEPT ![s] = {grantEpoch[s]}] /\ UNCHANGED grantEpoch
    BY <2>4, <2>5 DEF grantHeld, grantEpoch, SameTakes
  <2>7. grantEpoch[s] > 0
    <3>1. lease[h].fence = row[s].fence /\ lease'[h].fence = lease[h].fence
      BY <2>2 DEF Mine, SameTakes
    <3> QED BY <2>1, <2>2, <3>1 DEF IInv, LeasesConsistent, Current, grantEpoch
  <2> QED BY <2>2, <2>3, <2>6, <2>7 DEF Grants!Regain
<1> QED BY <1>2, <1>3

LEMMA NextGrants ==
  ASSUME IInv, IInv', [TableNext]_tableVars
  PROVE  [Grants!GrantNext]_(Grants!grantVars)
PROOF
<1>1. CASE GrantStep BY <1>1, TakeGrants DEF Grants!GrantNext
<1>2. CASE SameTakes /\ \A h \in Leases : Current(h)' => Current(h)
  BY <1>2, EndingStep DEF Grants!GrantNext
<1>3. CASE SameTakes /\ \E h \in Leases : RenewCommit(h)
  BY <1>3, RenewGrants DEF Grants!GrantNext
<1>4. ASSUME ~GrantStep, ~ \E h \in Leases : RenewCommit(h)
      PROVE  \A h \in Leases : Current(h)' => Current(h)
  <2> USE TTLAssumption DEF IInv, TableTypeOK
  <2>1. CASE \E s \in Sessions : AppendRecord(s) BY <2>1 DEF AppendRecord, Current
  <2>2. CASE \E h \in Leases, o \in Owners, s \in Sessions : Claim(h, o, s) \/ Acquire(h, o, s)
    BY <1>4, <2>2 DEF GrantStep, Claim, Acquire, Claimable
  <2>3. CASE \E h \in Leases : RenewSend(h) BY <2>3 DEF RenewSend, Current
  <2>4. CASE \E h \in Leases : \E beat \in Beats : RenewAnswer(h, beat)
    BY <2>4 DEF RenewAnswer, Current, LeaseType
  <2>5. CASE \E h \in Leases : ReleaseSend(h) BY <2>5 DEF ReleaseSend, Current, LeaseType
  <2>6. CASE \E h \in Leases : ReleaseCommit(h) BY <2>6 DEF ReleaseCommit, Current
  <2>7. CASE \E h \in Leases : QueryFails(h) BY <2>7 DEF QueryFails, Current
  <2>8. CASE \E o \in Owners : Crash(o) BY <2>8 DEF Crash, Current, LeaseType
  <2>9. CASE Tick BY <2>9 DEF Tick, Elapse, Current, LeaseType
  <2>10. CASE UNCHANGED tableVars BY <2>10 DEF tableVars, Current
  <2> QED BY <1>4, <2>1, <2>2, <2>3, <2>4, <2>5, <2>6, <2>7, <2>8, <2>9, <2>10 DEF TableNext
<1> QED BY <1>1, <1>2, <1>3, <1>4, NextInv

LEMMA InitGrants == TableInit => Grants!GrantInit
PROOF
<1> SUFFICES ASSUME TableInit PROVE Grants!GrantInit
  OBVIOUS
<1>1. grantEpoch = [s \in Sessions |-> 0] BY DEF TableInit, grantEpoch, NewRow
<1>2. \A h \in Leases : ~Current(h) BY DEF TableInit, Current, NoLease
<1>3. grantHeld = [s \in Sessions |-> {}] BY <1>2 DEF grantHeld
<1> QED BY <1>1, <1>3 DEF Grants!GrantInit

(* The work table implements its contract: every grant is made of a
   session nobody holds, under a fence never used for it before, and no
   grant but the last is ever held. *)
THEOREM TableImplementsGrants == TableSpec => ImplementsGrants
PROOF
<1>1. IInv /\ IInv' /\ [TableNext]_tableVars => [Grants!GrantNext]_(Grants!grantVars)
  BY NextGrants
<1> QED
  BY <1>1, InitGrants, TableInvariant, PTL DEF TableSpec, ImplementsGrants, Grants!GrantSpec

(* A wake is never erased, whatever commits late: who clears it either
   starts a new hold, which reads the inbox, or tells the present holder
   (work-pg.ts:75-136). *)
THEOREM WakesAreHandedOn == TableSpec => WakeIsHandedOn
<1> DEFINE Handed ==
      \A s \in Sessions :
          row[s].woken /\ ~row'[s].woken =>
             \/ row'[s].fence > row[s].fence
             \/ \E h \in Leases : /\ lease[h].session = s
                                  /\ lease[h].fence = row[s].fence
                                  /\ "woken" \in calls'[h]
<1>1. ASSUME IInv, [TableNext]_tableVars
      PROVE  [Handed]_tableVars
  <2> SUFFICES ASSUME NEW s \in Sessions, row[s].woken, ~row'[s].woken
               PROVE  \/ row'[s].fence > row[s].fence
                      \/ \E h \in Leases : /\ lease[h].session = s
                                           /\ lease[h].fence = row[s].fence
                                           /\ "woken" \in calls'[h]
    OBVIOUS
  <2>0. TableTypeOK BY <1>1 DEF IInv
  <2>1. ASSUME NEW t \in Sessions, AppendRecord(t)  PROVE FALSE
    BY <2>0, <2>1 DEF AppendRecord, TableTypeOK
  <2>2. ASSUME NEW h \in Leases, NEW o \in Owners, NEW t \in Sessions, Take(h, o, t)
        PROVE  row'[s].fence > row[s].fence
    <3>1. row[t].fence \in Nat BY <2>0 DEF TableTypeOK, RowType
    <3>2. s = t BY <2>0, <2>2 DEF Take, TableTypeOK
    <3>3. row'[s].fence = row[s].fence + 1 BY <2>0, <2>2, <3>2 DEF Take, TableTypeOK
    <3> QED BY <3>1, <3>2, <3>3
  <2>3. ASSUME NEW h \in Leases, RenewCommit(h)
        PROVE  /\ lease[h].session = s /\ lease[h].fence = row[s].fence
               /\ "woken" \in calls'[h]
    <3>1. Mine(h) BY <2>3 DEF RenewCommit
    <3>2. row' = [row EXCEPT ![lease[h].session] = [@ EXCEPT !.woken = FALSE, !.left = TTL]]
      BY <2>3, <3>1 DEF RenewCommit
    <3>3. lease[h].session = s BY <2>0, <3>2 DEF TableTypeOK
    <3>4. calls'[h] = (calls[h] \ {"renew"}) \union {"woken"}
      BY <2>0, <2>3, <3>1, <3>3 DEF RenewCommit, TableTypeOK
    <3> QED BY <3>1, <3>3, <3>4 DEF Mine
  <2>4. ASSUME NEW h \in Leases, ReleaseCommit(h)  PROVE FALSE
    BY <2>0, <2>4 DEF ReleaseCommit, TableTypeOK
  <2>5. ASSUME Tick  PROVE FALSE
    <3>1. row'[s] = [row[s] EXCEPT !.left = Elapse(@)] BY <2>5 DEF Tick
    <3> QED BY <2>0, <3>1 DEF TableTypeOK
  <2>6. row' # row OBVIOUS
  <2>7. ~\/ \E h \in Leases : RenewSend(h) \/ QueryFails(h) \/ ReleaseSend(h)
         \/ \E h \in Leases, beat \in Beats : RenewAnswer(h, beat)
         \/ \E o \in Owners : Crash(o)
         \/ UNCHANGED tableVars
    BY <2>6 DEF RenewSend, QueryFails, ReleaseSend, RenewAnswer, Crash, tableVars
  <2> QED BY <1>1, <2>1, <2>2, <2>3, <2>4, <2>5, <2>7 DEF TableNext, Claim, Acquire
<1> QED BY <1>1, TableInvariant, PTL DEF TableSpec, WakeIsHandedOn

HIDE DEF Left, Beats, Statements

-----------
(* InLogOrder lists exactly the positions it is given, in ascending order. *)
LEMMA Ranked ==
    ASSUME NEW S \in SUBSET Nat, IsFiniteSet(S)
    PROVE  Lists(InLogOrder(S), S)
<1> DEFINE n == Cardinality(S)
           upTo(c) == {d \in S : d <= c}
           rank == [c \in S |-> Cardinality(upTo(c))]
<1>1. n \in Nat BY FS_CardinalityType
<1>2. ASSUME NEW c \in S
      PROVE  rank[c] \in 1..n
  <2>1. IsFiniteSet(upTo(c)) /\ Cardinality(upTo(c)) <= n BY FS_Subset
  <2>2. Cardinality(upTo(c)) \in Nat BY <2>1, FS_CardinalityType
  <2>3. Cardinality(upTo(c)) # 0
    <3>1. c \in upTo(c) OBVIOUS
    <3> QED BY <2>1, <3>1, FS_EmptySet
  <2> QED BY <1>1, <2>1, <2>2, <2>3
<1>3. ASSUME NEW c \in S, NEW d \in S, c < d
      PROVE  rank[c] < rank[d]
  <2>0. c \in Nat /\ d \in Nat /\ \A e \in S : e \in Nat OBVIOUS
  <2>a. upTo(c) \in SUBSET upTo(d)
    <3> SUFFICES ASSUME NEW e \in S, e <= c
                 PROVE  e <= d
      OBVIOUS
    <3>1. e \in Nat /\ c \in Nat /\ d \in Nat BY <2>0
    <3> QED BY <1>3, <3>1
  <2>b. IsFiniteSet(upTo(d)) BY FS_Subset
  <2>1. IsFiniteSet(upTo(d)) /\ upTo(c) \in SUBSET upTo(d) BY <2>a, <2>b
  <2>2. upTo(c) # upTo(d) BY <1>3
  <2>3. Cardinality(upTo(c)) <= Cardinality(upTo(d)) /\ Cardinality(upTo(c)) # Cardinality(upTo(d))
    BY <2>1, <2>2, FS_Subset
  <2> QED BY <1>2, <2>3
<1>h. \A c \in S : rank[c] = Cardinality({q \in S : q <= c}) OBVIOUS
<1> HIDE DEF rank
<1>4. rank \in Injection(S, 1..n)
  <2>1. rank \in [S -> 1..n] BY <1>2 DEF rank
  <2>2. ASSUME NEW c \in S, NEW d \in S, rank[c] = rank[d]
        PROVE  c = d
    BY <1>2, <1>3, <2>2
  <2> QED BY <2>1, <2>2 DEF Injection, IsInjective
<1>5. rank \in Surjection(S, 1..n)
  <2>1. IsFiniteSet(1..n) /\ Cardinality(1..n) = n BY <1>1, FS_Interval
  <2> QED BY <1>4, <2>1, FS_Injection
<1>6. \A i \in 1..n : \E c \in S : rank[c] = i BY <1>5 DEF Surjection
<1> DEFINE f == InLogOrder(S)
<1>7. f = [i \in 1..n |-> CHOOSE p \in S : Cardinality({q \in S : q <= p}) = i]
  BY DEF InLogOrder
<1>8. \A i \in 1..n : f[i] \in S /\ rank[f[i]] = i
  <2> SUFFICES ASSUME NEW i \in 1..n PROVE f[i] \in S /\ rank[f[i]] = i
    OBVIOUS
  <2>1. f[i] = CHOOSE p \in S : Cardinality({q \in S : q <= p}) = i BY <1>7
  <2>2. \E p \in S : Cardinality({q \in S : q <= p}) = i BY <1>6, <1>h
  <2>3. f[i] \in S /\ Cardinality({q \in S : q <= f[i]}) = i BY <2>1, <2>2
  <2> QED BY <2>3, <1>h
<1>9. f \in Seq(Nat) /\ Len(f) = n
  <2>1. DOMAIN f = 1..n /\ \A i \in 1..n : f[i] \in Nat BY <1>7, <1>8
  <2>2. f = [i \in 1..n |-> f[i]] BY <1>7
  <2> HIDE DEF f
  <2> QED BY <2>1, <2>2, <1>1
<1> HIDE DEF f
<1>10. ASSUME NEW i \in 1..n, NEW j \in 1..n, i < j
       PROVE  f[i] < f[j]
  <2>1. f[i] \in Nat /\ f[j] \in Nat BY <1>8
  <2>2. rank[f[i]] = i /\ rank[f[j]] = j /\ f[i] \in S /\ f[j] \in S BY <1>8
  <2>5. i \in Int /\ j \in Int BY <1>1
  <2>3. ~(f[j] < f[i])
    <3> SUFFICES ASSUME f[j] < f[i] PROVE FALSE
      OBVIOUS
    <3>1. rank[f[j]] < rank[f[i]] BY <2>2, <1>3
    <3> QED BY <3>1, <2>2, <2>5, <1>10
  <2>4. f[i] # f[j] BY <2>2, <2>5, <1>10
  <2> QED BY <2>1, <2>3, <2>4
<1>11. ASSUME NEW p \in S PROVE \E i \in 1..n : f[i] = p
  <2>1. rank[p] \in 1..n /\ f[rank[p]] \in S /\ rank[f[rank[p]]] = rank[p] BY <1>2, <1>8
  <2>2. f[rank[p]] = p BY <2>1, <1>4 DEF Injection, IsInjective
  <2> QED BY <2>1, <2>2
<1> QED
  <2>1. Ascends(f) BY <1>9, <1>10 DEF Ascends
  <2>2. \A p \in Nat : p \in S <=> \E i \in 1..Len(f) : f[i] = p BY <1>8, <1>9, <1>11
  <2>3. Lists(f, S) BY <1>9, <2>1, <2>2 DEF Lists
  <2> QED BY <2>3 DEF f

(* Max and Min of a finite set that is not empty. *)
LEMMA Extremes ==
    ASSUME NEW S \in SUBSET Nat, IsFiniteSet(S), S # {}
    PROVE  /\ Max(S) \in S /\ \A p \in S : p <= Max(S)
           /\ Min(S) \in S /\ \A p \in S : Min(S) <= p
<1> DEFINE q == InLogOrder(S)
<1>1. Lists(q, S) BY Ranked
<1> HIDE DEF q
<1>2. q \in Seq(Nat) /\ Len(q) \in Nat /\ Ascends(q) BY <1>1 DEF Lists
<1>3. \A p \in S : \E i \in 1..Len(q) : q[i] = p BY <1>1 DEF Lists
<1>4. Len(q) >= 1 /\ Len(q) \in 1..Len(q) /\ 1 \in 1..Len(q)
  <2>1. PICK p \in S : TRUE OBVIOUS
  <2>2. PICK i \in 1..Len(q) : q[i] = p BY <1>3
  <2> QED BY <1>2, <2>2
<1>5. q[1] \in S /\ q[Len(q)] \in S BY <1>1, <1>2, <1>4 DEF Lists
<1>6. \A p \in S : q[1] <= p /\ p <= q[Len(q)]
  <2> SUFFICES ASSUME NEW p \in S PROVE q[1] <= p /\ p <= q[Len(q)]
    OBVIOUS
  <2>1. PICK i \in 1..Len(q) : q[i] = p BY <1>3
  <2>2. q[1] \in Nat /\ q[Len(q)] \in Nat /\ q[i] \in Nat /\ i \in Nat BY <1>2, <1>4
  <2>3. 1 < i => q[1] < q[i] BY <1>2, <1>4 DEF Ascends
  <2>4. i < Len(q) => q[i] < q[Len(q)] BY <1>2, <1>4 DEF Ascends
  <2> QED BY <2>1, <2>2, <2>3, <2>4, <1>2
<1>7. \E m \in S : \A p \in S : m >= p
  <2>1. \A p \in S : q[Len(q)] >= p
    <3> SUFFICES ASSUME NEW p \in S PROVE q[Len(q)] >= p
      OBVIOUS
    <3>1. p <= q[Len(q)] /\ p \in Nat /\ q[Len(q)] \in Nat BY <1>5, <1>6
    <3> QED BY <3>1
  <2> QED BY <1>5, <2>1
<1>8. Max(S) \in S /\ \A p \in S : Max(S) >= p BY <1>7 DEF Max
<1>9. \E m \in S : \A p \in S : m =< p BY <1>5, <1>6
<1>10. Min(S) \in S /\ \A p \in S : Min(S) =< p BY <1>9 DEF Min
<1>11. \A p \in S : p <= Max(S)
  <2> SUFFICES ASSUME NEW p \in S PROVE p <= Max(S)
    OBVIOUS
  <2>1. Max(S) \in Nat /\ p \in Nat /\ Max(S) >= p BY <1>8
  <2> QED BY <2>1
<1> QED BY <1>8, <1>10, <1>11

(* What the two searches of processInbox (session-worker.ts:438-466) find
   in what was read: a position of that kind, or none when there is none. *)
LEMMA Selected ==
    ASSUME NEW q \in Seq(Nat), NEW s \in Sessions
    PROVE  /\ FirstResume(s, q) \in 0..Len(q)
           /\ FirstResume(s, q) = 0 => \A i \in 1..Len(q) : Kind(s, q[i]) # "resume"
           /\ FirstResume(s, q) # 0 => Kind(s, q[FirstResume(s, q)]) = "resume"
           /\ LastCancel(s, q) \in 0..Len(q)
           /\ LastCancel(s, q) = 0 => \A i \in 1..Len(q) : Kind(s, q[i]) # "cancel"
           /\ LastCancel(s, q) # 0 => Kind(s, q[LastCancel(s, q)]) = "cancel"
<1> DEFINE F == {i \in 1..Len(q) : Kind(s, q[i]) = "resume"}
           C == {i \in 1..Len(q) : Kind(s, q[i]) = "cancel"}
<1>1. FirstResume(s, q) = IF F # {} THEN Min(F) ELSE 0 BY DEF FirstResume, SelectInSeq
<1>2. LastCancel(s, q) = IF C # {} THEN Max(C) ELSE 0 BY DEF LastCancel, SelectLastInSeq
<1>3. IsFiniteSet(F) /\ IsFiniteSet(C) /\ F \in SUBSET Nat /\ C \in SUBSET Nat
  <2>1. Len(q) \in Nat /\ IsFiniteSet(1..Len(q)) BY FS_Interval
  <2>2. F \in SUBSET (1..Len(q)) /\ C \in SUBSET (1..Len(q)) OBVIOUS
  <2>3. F \in SUBSET Nat /\ C \in SUBSET Nat BY <2>1, <2>2
  <2> HIDE DEF F, C
  <2>4. IsFiniteSet(F) BY <2>1, <2>2, FS_Subset
  <2>5. IsFiniteSet(C) BY <2>1, <2>2, FS_Subset
  <2> QED BY <2>3, <2>4, <2>5
<1> HIDE DEF F, C
<1>4. F # {} => Min(F) \in F BY <1>3, Extremes
<1>5. C # {} => Max(C) \in C BY <1>3, Extremes
<1> USE DEF F, C
<1> DEFINE r == FirstResume(s, q)
           c == LastCancel(s, q)
<1>6. Len(q) \in Nat OBVIOUS
<1>7. /\ r \in 0..Len(q)
      /\ r = 0 => \A i \in 1..Len(q) : Kind(s, q[i]) # "resume"
      /\ r # 0 => Kind(s, q[r]) = "resume"
  <2> HIDE DEF r
  <2>1. r = IF F # {} THEN Min(F) ELSE 0 BY <1>1 DEF r
  <2>2. CASE F = {} BY <2>1, <2>2, <1>6
  <2>3. CASE F # {} BY <2>1, <2>3, <1>4, <1>6
  <2> QED BY <2>2, <2>3
<1>8. /\ c \in 0..Len(q)
      /\ c = 0 => \A i \in 1..Len(q) : Kind(s, q[i]) # "cancel"
      /\ c # 0 => Kind(s, q[c]) = "cancel"
  <2> HIDE DEF c
  <2>1. c = IF C # {} THEN Max(C) ELSE 0 BY <1>2 DEF c
  <2>2. CASE C = {} BY <2>1, <2>2, <1>6
  <2>3. CASE C # {} BY <2>1, <2>3, <1>5, <1>6
  <2> QED BY <2>2, <2>3
<1> QED BY <1>7, <1>8

(* ConsumedPrefix is the length of the longest consumed prefix. *)
LEMMA Consumed ==
    ASSUME NEW q \in Seq(Nat), NEW S
    PROVE  /\ ConsumedPrefix(q, S) \in 0..Len(q)
           /\ \A i \in 1..ConsumedPrefix(q, S) : q[i] \in S
           /\ \A k \in 1..Len(q) : (\A i \in 1..k : q[i] \in S) => k <= ConsumedPrefix(q, S)
<1> DEFINE K == {0} \union {k \in DOMAIN q : \A i \in 1..k : q[i] \in S}
<1>1. K \in SUBSET (0..Len(q)) /\ Len(q) \in Nat OBVIOUS
<1>2. IsFiniteSet(K) /\ K \in SUBSET Nat /\ K # {}
  <2>1. IsFiniteSet(0..Len(q)) BY <1>1, FS_Interval
  <2>2. IsFiniteSet(K)
    <3> HIDE DEF K
    <3> QED BY <1>1, <2>1, FS_Subset
  <2>3. 0 \in K OBVIOUS
  <2>4. K \in SUBSET Nat BY <1>1
  <2> QED BY <2>2, <2>3, <2>4
<1>3. Max(K) \in K /\ \A k \in K : k <= Max(K) BY <1>2, Extremes
<1>4. ConsumedPrefix(q, S) = Max(K) BY DEF ConsumedPrefix
<1> HIDE DEF ConsumedPrefix
<1>5. DOMAIN q = 1..Len(q) BY LenProperties
<1> DEFINE n == ConsumedPrefix(q, S)
<1>6. n = Max(K) BY <1>4
<1> HIDE DEF n
<1>7. n \in K /\ \A k \in K : k <= n BY <1>3, <1>6
<1>8. n \in 0..Len(q) /\ \A i \in 1..n : q[i] \in S BY <1>1, <1>7
<1>9. \A k \in 1..Len(q) : (\A i \in 1..k : q[i] \in S) => k <= n BY <1>5, <1>7
<1> QED BY <1>8, <1>9 DEF n

-----------
-----------------------------
(* A record of a log is one. *)
LEMMA RecordFacts ==
    ASSUME NEW l \in Logs, NEW p \in 1..Len(l)
    PROVE  l[p] \in RecordTypes /\ l[p].of \in Nat /\ Len(l) \in Nat
<1>1. l[p] \in RecordTypes /\ Len(l) \in Nat BY DEF Logs
<1> QED BY <1>1 DEF RecordTypes

(* What has been dealt with stays so as the log grows. *)
LEMMA DealtGrows ==
    ASSUME NEW l \in Logs, NEW m \in Logs, Extends(l, m),
           NEW p \in 1..Len(l), NEW c \in 0..Len(l), Dealt(l, p, c)
    PROVE  Dealt(m, p, c)
<1>1. Len(l) \in Nat /\ Len(m) \in Nat /\ Len(l) <= Len(m) /\ \A q \in 1..Len(l) : m[q] = l[q]
  BY DEF Extends, Logs
<1>2. CASE TakenIn(l, p) BY <1>1, <1>2 DEF TakenIn, Dealt
<1>3. CASE Between(l, p, c, "cancel") BY <1>1, <1>3 DEF Between, Dealt
<1>4. CASE Between(l, p, Len(l), "resume") BY <1>1, <1>4 DEF Between, Dealt
<1> QED BY <1>2, <1>3, <1>4 DEF Dealt

(* A message taken, or in front of an answer, remains so. *)
LEMMA AnsweredGrows ==
    ASSUME NEW l \in Logs, NEW m \in Logs, Extends(l, m), NEW p \in 1..Len(l)
    PROVE  /\ TakenIn(l, p) => TakenIn(m, p)
           /\ Between(l, p, Len(l), "resume") => Between(m, p, Len(m), "resume")
<1>1. Len(l) \in Nat /\ Len(m) \in Nat /\ Len(l) <= Len(m) /\ \A q \in 1..Len(l) : m[q] = l[q]
  BY DEF Extends, Logs
<1> QED BY <1>1 DEF TakenIn, Between

(* A cursor that is safe stays safe as the log grows. *)
LEMMA PrefixGrows ==
    ASSUME NEW l \in Logs, NEW m \in Logs, Extends(l, m), NEW c, PrefixDealt(l, c)
    PROVE  PrefixDealt(m, c)
<1>1. Len(l) \in Nat /\ Len(m) \in Nat /\ Len(l) <= Len(m) /\ \A q \in 1..Len(l) : m[q] = l[q]
  BY DEF Extends, Logs
<1>2. c \in 0..Len(l) /\ c \in 0..Len(m) BY <1>1 DEF PrefixDealt
<1>3. ASSUME NEW p \in 1..c, m[p].kind = "input" PROVE Dealt(m, p, c)
  <2>1. p \in 1..Len(l) /\ l[p].kind = "input" BY <1>1, <1>2, <1>3
  <2>2. Dealt(l, p, c) BY <2>1 DEF PrefixDealt
  <2> QED BY <2>1, <2>2, <1>2, DealtGrows
<1> QED BY <1>2, <1>3 DEF PrefixDealt

(* What was read without a gap has none in a longer log. *)
LEMMA LinedGrows ==
    ASSUME NEW l \in Logs, NEW m \in Logs, Extends(l, m), NEW q \in Seq(Nat), NEW c \in Nat,
           Lined(l, q, c)
    PROVE  Lined(m, q, c)
<1>1. Len(l) \in Nat /\ Len(m) \in Nat /\ Len(l) <= Len(m) /\ \A p \in 1..Len(l) : m[p] = l[p]
  BY DEF Extends, Logs
<1>2. \A i \in 1..Len(q) : q[i] \in 1..Len(m) /\ c < q[i] /\ m[q[i]].kind \in InboxKinds
  BY <1>1 DEF Lined
<1>3. \A i, j \in 1..Len(q) : i < j => q[i] < q[j] BY DEF Lined
<1>4. ASSUME NEW i \in 1..Len(q), NEW p \in 1..Len(m), c < p, p < q[i], m[p].kind \in InboxKinds
      PROVE  \E j \in 1..Len(q) : q[j] = p
  <2>1. q[i] \in 1..Len(l) BY DEF Lined
  <2>2. p \in 1..Len(l) /\ l[p].kind \in InboxKinds BY <2>1, <1>1, <1>4
  <2> QED BY <2>2, <1>4 DEF Lined
<1> QED BY <1>2, <1>3, <1>4 DEF Lined

(* A prefix of what was read is without a gap too. *)
LEMMA LinedPrefix ==
    ASSUME NEW l \in Logs, NEW q \in Seq(Nat), NEW t \in Seq(Nat), NEW c \in Nat,
           Lined(l, q, c), Len(t) <= Len(q), \A i \in 1..Len(t) : t[i] = q[i]
    PROVE  Lined(l, t, c)
<1>1. Len(t) \in Nat /\ Len(q) \in Nat OBVIOUS
<1>2. \A i \in 1..Len(t) : i \in 1..Len(q) /\ t[i] = q[i] /\ q[i] \in Nat BY <1>1
<1>3. \A i \in 1..Len(t) : t[i] \in 1..Len(l) /\ c < t[i] /\ l[t[i]].kind \in InboxKinds
  BY <1>2 DEF Lined
<1>4. \A i, j \in 1..Len(t) : i < j => t[i] < t[j] BY <1>2 DEF Lined
<1>5. ASSUME NEW i \in 1..Len(t), NEW p \in 1..Len(l), c < p, p < t[i], l[p].kind \in InboxKinds
      PROVE  \E j \in 1..Len(t) : t[j] = p
  <2>1. PICK j \in 1..Len(q) : q[j] = p BY <1>2, <1>5 DEF Lined
  <2>2. ~(i < j) /\ i # j
    <3>1. i < j => q[i] < q[j] BY <1>2 DEF Lined
    <3>2. q[i] \in Nat /\ q[j] \in Nat /\ q[j] < q[i] BY <2>1, <1>2, <1>5, SMTT(30)
    <3> QED BY <3>1, <3>2, SMTT(30)
  <2>3. j \in 1..Len(t) BY <2>2, <1>1
  <2> QED BY <2>1, <2>3
<1> QED BY <1>3, <1>4, <1>5 DEF Lined

(* What remains after a prefix, seen from the end of that prefix. *)
LEMMA LinedTail ==
    ASSUME NEW l \in Logs, NEW q \in Seq(Nat), NEW c \in Nat, NEW k \in 1..Len(q), Lined(l, q, c)
    PROVE  Lined(l, SubSeq(q, k + 1, Len(q)), q[k])
<1> DEFINE t == SubSeq(q, k + 1, Len(q))
<1>1. Len(q) \in Nat /\ k \in Nat /\ k >= 1 /\ k <= Len(q) OBVIOUS
<1>2. t \in Seq(Nat) /\ Len(t) = Len(q) - k /\ \A i \in 1..Len(t) : t[i] = q[k + i]
  <2>1. k + 1 \in 1..(Len(q) + 1) /\ Len(q) \in 0..Len(q) BY <1>1
  <2> QED BY <1>1, <2>1, SubSeqProperties
<1> HIDE DEF t
<1>3. \A i \in 1..Len(t) : k + i \in 1..Len(q) /\ k < k + i BY <1>1, <1>2
<1>4. \A i \in 1..Len(t) : t[i] \in 1..Len(l) /\ q[k] < t[i] /\ l[t[i]].kind \in InboxKinds
  BY <1>2, <1>3 DEF Lined
<1>5. \A i, j \in 1..Len(t) : i < j => t[i] < t[j]
  <2> SUFFICES ASSUME NEW i \in 1..Len(t), NEW j \in 1..Len(t), i < j PROVE t[i] < t[j]
    OBVIOUS
  <2>1. k + i < k + j /\ k + i \in 1..Len(q) /\ k + j \in 1..Len(q) BY <1>1, <1>2, <1>3
  <2> QED BY <2>1, <1>2 DEF Lined
<1>6. ASSUME NEW i \in 1..Len(t), NEW p \in 1..Len(l), q[k] < p, p < t[i], l[p].kind \in InboxKinds
      PROVE  \E j \in 1..Len(t) : t[j] = p
  <2>1. c < q[k] /\ q[k] \in 1..Len(l) /\ Len(l) \in Nat BY DEF Lined, Logs
  <2>2. k + i \in 1..Len(q) /\ p < q[k + i] /\ c < p
    <3>1. k + i \in 1..Len(q) /\ p < q[k + i] BY <1>2, <1>3, <1>6
    <3>2. c \in Nat /\ q[k] \in Nat /\ p \in Nat BY <2>1
    <3> QED BY <3>1, <3>2, <2>1, <1>6
  <2>3. PICK j \in 1..Len(q) : q[j] = p BY <2>2, <1>6 DEF Lined
  <2>4. k < j
    <3>1. j < k => q[j] < q[k] BY DEF Lined
    <3>2. p \in Nat /\ q[k] \in Nat /\ q[k] < q[j] BY <2>1, <2>3, <1>6
    <3>3. j \in Nat /\ k \in Nat /\ j # k BY <1>1, <3>2
    <3>4. ~(j < k) BY <3>1, <3>2, <2>3
    <3> QED BY <3>3, <3>4
  <2>5. j - k \in 1..Len(t) /\ k + (j - k) = j BY <2>4, <1>1, <1>2
  <2> QED BY <2>3, <2>5, <1>2
<1> QED BY <1>4, <1>5, <1>6 DEF Lined, t

(* The types of what a run has read. *)
LEMMA LineType ==
    ASSUME NEW r \in RunTypes
    PROVE  Line(r) \in Seq(Nat) /\ r.cur \in Nat /\ r.out \in Seq(Nat) /\ Len(r.out) \in Nat
           /\ r.items \in Seq(Nat) /\ r.seen \in SUBSET Nat
BY DEF Line, RunTypes

(* What a run and its object hold to does not mind records of others. *)
LEMMA HeldGrows ==
    ASSUME NEW l \in Logs, NEW m \in Logs, Extends(l, m), NEW r \in RunTypes, NEW x \in ObjTypes,
           Held(l, r, x)
    PROVE  Held(m, r, x)
<1>1. Len(l) \in Nat /\ Len(m) \in Nat /\ Len(l) <= Len(m) /\ \A p \in 1..Len(l) : m[p] = l[p]
  BY DEF Extends, Logs
<1>2. Given(m, x) BY <1>1 DEF Held, Given
<1>3. ASSUME Listens(r.pc) PROVE Reads(m, r)
  <2>1. Reads(l, r) BY <1>3 DEF Held
  <2>2. PrefixDealt(m, r.cur) /\ Lined(m, Line(r), r.cur)
    BY <2>1, LineType, PrefixGrows, LinedGrows DEF Reads
  <2>3. r.seen \subseteq 1..Len(m) BY <1>1, <2>1 DEF Reads
  <2>4. Seen(m, r)
    <3>1. CASE r.pc = "cancel"
      <4>1. Len(r.out) \in 1..Len(r.out) /\ Line(r) = r.out
        BY <2>1, <3>1, LineType DEF Reads, Seen, Line
      <4>2. r.out[Len(r.out)] \in 1..Len(l) BY <4>1, <2>1 DEF Reads, Lined
      <4> QED BY <4>2, <1>1, <2>1, <3>1 DEF Reads, Seen
    <3>2. CASE r.pc # "cancel"
      <4> SUFFICES ASSUME NEW p \in r.seen, m[p].kind = "input"
                   PROVE  TakenIn(m, p) \/ Between(m, p, Len(m), "resume")
        BY <3>2 DEF Seen
      <4>1. p \in 1..Len(l) /\ l[p].kind = "input" BY <2>1, <1>1 DEF Reads
      <4> QED BY <4>1, <2>1, <3>2, AnsweredGrows DEF Reads, Seen
    <3> QED BY <3>1, <3>2
  <2> QED BY <2>2, <2>3, <2>4 DEF Reads
<1>4. ASSUME Listens(r.pc), r.pc # "cancel" PROVE Once(m, r, x)
  <2>1. Once(l, r, x) /\ r.seen \subseteq 1..Len(l) /\ Given(l, x) BY <1>4 DEF Held, Reads
  <2>2. \A p \in 1..Len(l) : Foreign(m, p) = Foreign(l, p) BY <1>1 DEF Foreign
  <2>3. \A i \in 1..Len(x.bus) : x.bus[i] \in 1..Len(l) BY <2>1 DEF Given
  <2> QED BY <2>1, <2>2, <2>3 DEF Once
<1> QED BY <1>2, <1>3, <1>4 DEF Held

(* Positions in two sequences one after the other. *)
LEMMA Joined ==
    ASSUME NEW a \in Seq(Nat), NEW b \in Seq(Nat)
    PROVE  /\ a \o b \in Seq(Nat) /\ Len(a \o b) = Len(a) + Len(b)
           /\ Len(a) \in Nat /\ Len(b) \in Nat
           /\ \A i \in 1..Len(a) : (a \o b)[i] = a[i]
           /\ \A i \in 1..Len(b) : (a \o b)[Len(a) + i] = b[i]
           /\ \A i \in 1..Len(a \o b) :
                 \/ i \in 1..Len(a) /\ (a \o b)[i] = a[i]
                 \/ i - Len(a) \in 1..Len(b) /\ (a \o b)[i] = b[i - Len(a)]
OBVIOUS

(* Positions in a part of a sequence. *)
LEMMA CutOut ==
    ASSUME NEW a \in Seq(Nat), NEW m \in 1..(Len(a) + 1), NEW n \in (m - 1)..Len(a)
    PROVE  /\ SubSeq(a, m, n) \in Seq(Nat) /\ Len(SubSeq(a, m, n)) = n - m + 1
           /\ \A i \in 1..(n - m + 1) : SubSeq(a, m, n)[i] = a[m + i - 1]
OBVIOUS

(* A run that moves on with what it has read, and an object that keeps
   what it was given, hold to the same. *)
LEMMA HeldAlike ==
    ASSUME NEW l \in Logs, NEW r \in RunTypes, NEW t \in RunTypes,
           NEW x \in ObjTypes, NEW y \in ObjTypes, Held(l, r, x), Alike(r, t), Likewise(x, y)
    PROVE  Held(l, t, y)
<1>1. Given(l, y) BY DEF Held, Given, Likewise
<1>2. ASSUME Listens(t.pc) PROVE Reads(l, t) /\ (t.pc # "cancel" => Once(l, t, y))
  <2>1. Listens(r.pc) /\ (t.pc = r.pc \/ (r.pc # "cancel" /\ t.pc # "cancel")) BY <1>2 DEF Alike
  <2>2. Reads(l, r) BY <2>1 DEF Held
  <2>3. Lined(l, Line(t), t.cur)
    <3>1. CASE t.pc = r.pc /\ t.items = r.items BY <3>1, <2>2 DEF Line, Alike, Reads
    <3>2. CASE t.pc # "feed" /\ t.pc # r.pc
      <4>1. Line(t) = r.out /\ t.cur = r.cur BY <3>2 DEF Line, Alike
      <4>2. Len(r.out) <= Len(Line(r)) /\ \A i \in 1..Len(r.out) : r.out[i] = Line(r)[i]
        <5>1. r.out \in Seq(Nat) /\ r.items \in Seq(Nat) BY LineType
        <5>2. CASE r.pc = "feed"
          <6>1. Line(r) = r.out \o r.items BY <5>2 DEF Line
          <6>2. \A a, b \in Seq(Nat) : /\ Len(a) <= Len(a \o b)
                                       /\ \A i \in 1..Len(a) : (a \o b)[i] = a[i]
            BY Joined
          <6> HIDE DEF Line
          <6> QED BY <5>1, <6>1, <6>2, ZenonT(60)
        <5>3. CASE r.pc # "feed" BY <5>1, <5>3 DEF Line
        <5> QED BY <5>2, <5>3
      <4>3. Lined(l, r.out, r.cur)
        <5>1. /\ Line(r) \in Seq(Nat) /\ r.out \in Seq(Nat) /\ r.cur \in Nat
              /\ Lined(l, Line(r), r.cur)
          BY <2>2, LineType DEF Reads
        <5> QED BY <4>2, <5>1, LinedPrefix
      <4> QED BY <4>1, <4>3
    <3>3. CASE t.pc # "feed" /\ t.pc = r.pc BY <3>3, <2>2 DEF Line, Alike, Reads
    <3> QED BY <3>1, <3>2, <3>3, <1>2 DEF Alike
  <2>4. Reads(l, t)
    <3>1. t.seen = r.seen /\ t.out = r.out /\ t.cur = r.cur BY DEF Alike
    <3>2. Seen(l, t)
      <4>1. CASE t.pc = "cancel" BY <4>1, <2>1, <2>2, <3>1 DEF Reads, Seen
      <4>2. CASE t.pc # "cancel" BY <4>2, <2>1, <2>2, <3>1 DEF Reads, Seen
      <4> QED BY <4>1, <4>2
    <3> QED BY <2>2, <2>3, <3>1, <3>2 DEF Reads
  <2>5. ASSUME t.pc # "cancel" PROVE Once(l, t, y)
    <3>1. Once(l, r, x) BY <2>1, <2>5 DEF Held
    <3> QED BY <3>1 DEF Once, Outstanding, Alike, Likewise
  <2> QED BY <2>4, <2>5
<1> QED BY <1>1, <1>2 DEF Held

(* Without an object there is nothing to hold to. *)
LEMMA HeldNothing ==
    ASSUME NEW l, NEW r, ~Listens(r.pc)
    PROVE  Held(l, r, NoObject)
BY DEF Held, Given, NoObject

-----------
(* An append extends the log by one record. *)
LEMMA AppendGrows ==
    ASSUME NEW l \in Logs, NEW e \in RecordTypes
    PROVE  /\ Append(l, e) \in Logs /\ Extends(l, Append(l, e))
           /\ Len(Append(l, e)) = Len(l) + 1 /\ Append(l, e)[Len(l) + 1] = e
BY DEF Logs, Extends

(* What is left of a bus when one item is drained. *)
LEMMA Removed ==
    ASSUME NEW b \in Seq(Nat), NEW i \in 1..Len(b)
    PROVE  /\ RemoveAt(b, i) \in Seq(Nat) /\ Len(RemoveAt(b, i)) = Len(b) - 1
           /\ \A j \in 1..Len(RemoveAt(b, i)) :
                 RemoveAt(b, i)[j] = b[IF j < i THEN j ELSE j + 1]
<1> DEFINE a == SubSeq(b, 1, i - 1)
           c == SubSeq(b, i + 1, Len(b))
<1>1. Len(b) \in Nat /\ i \in Nat /\ 1 <= i /\ i <= Len(b) OBVIOUS
<1>2. a \in Seq(Nat) /\ Len(a) = i - 1 /\ \A j \in 1..(i - 1) : a[j] = b[j]
  <2>1. 1 \in 1..(Len(b) + 1) /\ i - 1 \in (1 - 1)..Len(b) BY <1>1
  <2> QED BY <2>1, <1>1, CutOut
<1>3. c \in Seq(Nat) /\ Len(c) = Len(b) - i /\ \A j \in 1..(Len(b) - i) : c[j] = b[i + j]
  <2>1. i + 1 \in 1..(Len(b) + 1) /\ Len(b) \in ((i + 1) - 1)..Len(b) BY <1>1
  <2> QED BY <2>1, <1>1, CutOut
<1>4. RemoveAt(b, i) = a \o c BY DEF RemoveAt
<1> HIDE DEF a, c
<1>5. /\ a \o c \in Seq(Nat) /\ Len(a \o c) = Len(b) - 1 /\ Len(a) = i - 1 /\ Len(c) = Len(b) - i
      /\ \A j \in 1..Len(a \o c) :
            \/ j \in 1..Len(a) /\ (a \o c)[j] = a[j]
            \/ j - Len(a) \in 1..Len(c) /\ (a \o c)[j] = c[j - Len(a)]
  <2>1. /\ a \o c \in Seq(Nat) /\ Len(a \o c) = Len(a) + Len(c)
        /\ \A j \in 1..Len(a \o c) :
            \/ j \in 1..Len(a) /\ (a \o c)[j] = a[j]
            \/ j - Len(a) \in 1..Len(c) /\ (a \o c)[j] = c[j - Len(a)]
    BY <1>2, <1>3, Joined
  <2>2. Len(a \o c) = Len(b) - 1 BY <2>1, <1>1, <1>2, <1>3
  <2> QED BY <2>1, <2>2, <1>2, <1>3
<1>6. ASSUME NEW j \in 1..Len(a \o c) PROVE (a \o c)[j] = b[IF j < i THEN j ELSE j + 1]
  <2>1. CASE j \in 1..Len(a) /\ (a \o c)[j] = a[j]
    <3>1. j < i /\ j \in 1..(i - 1) BY <2>1, <1>1, <1>5
    <3> QED BY <2>1, <3>1, <1>2
  <2>2. CASE j - Len(a) \in 1..Len(c) /\ (a \o c)[j] = c[j - Len(a)]
    <3>1. /\ j - (i - 1) \in 1..(Len(b) - i) /\ i + (j - (i - 1)) = j + 1 /\ ~(j < i)
          /\ (a \o c)[j] = c[j - (i - 1)]
      BY <2>2, <1>1, <1>5
    <3> QED BY <3>1, <1>3
  <2> QED BY <2>1, <2>2, <1>5
<1> QED BY <1>4, <1>5, <1>6

(* A boundary drains a message of the bus into the log. *)
LEMMA TakesHeld ==
    ASSUME NEW l \in Logs, NEW r \in RunTypes, NEW t \in RunTypes, NEW x \in ObjTypes,
           NEW y \in ObjTypes, Held(l, r, x), NEW i \in 1..Len(x.bus),
           y.bus = RemoveAt(x.bus, i), y.answering = x.answering,
           t.pc = r.pc, t.items = r.items, t.out = r.out, t.cur = r.cur,
           t.seen = IF Listens(r.pc) THEN r.seen \union {x.bus[i]} ELSE r.seen
    PROVE  /\ Held(Append(l, Record("taken", x.bus[i])), t, y)
           /\ Record("taken", x.bus[i]) \in RecordTypes /\ x.bus[i] \in 1..Len(l)
<1> DEFINE p == x.bus[i]
           e == Record("taken", p)
           m == Append(l, e)
<1>1. x.bus \in Seq(Nat) /\ p \in 1..Len(l) /\ p \in Nat /\ l[p].kind = "input" /\ Len(l) \in Nat
  BY DEF Held, Given, ObjTypes, Logs
<1>2. e \in RecordTypes BY <1>1 DEF Record, RecordTypes
<1>3. m \in Logs /\ Extends(l, m) /\ Len(m) = Len(l) + 1 /\ m[Len(l) + 1] = e
  BY <1>2, AppendGrows
<1>4. Held(m, r, x) BY <1>3, HeldGrows
<1> HIDE DEF m
<1>5. m[p].kind = "input" /\ p \in 1..Len(m) BY <1>1, <1>3 DEF Extends
<1>6. TakenIn(m, p) BY <1>1, <1>3 DEF TakenIn
<1>7. /\ y.bus \in Seq(Nat) /\ Len(y.bus) = Len(x.bus) - 1 /\ Len(x.bus) \in Nat
      /\ \A j \in 1..Len(y.bus) : y.bus[j] = x.bus[IF j < i THEN j ELSE j + 1]
  <2> DEFINE b == x.bus
  <2>1. b \in Seq(Nat) /\ i \in 1..Len(b) BY <1>1
  <2> HIDE DEF b
  <2>2. /\ RemoveAt(b, i) \in Seq(Nat) /\ Len(RemoveAt(b, i)) = Len(b) - 1 /\ Len(b) \in Nat
        /\ \A j \in 1..Len(RemoveAt(b, i)) :
              RemoveAt(b, i)[j] = b[IF j < i THEN j ELSE j + 1]
    BY <2>1, Removed
  <2>3. y.bus = RemoveAt(b, i) BY DEF b
  <2> QED BY <2>2, <2>3 DEF b
<1>8. \A j \in 1..Len(y.bus) : /\ (IF j < i THEN j ELSE j + 1) \in 1..Len(x.bus)
                               /\ (IF j < i THEN j ELSE j + 1) # i
  BY <1>7
<1>9. Given(m, y) BY <1>4, <1>7, <1>8, ZenonT(60) DEF Held, Given
<1>10. ASSUME Listens(t.pc) PROVE Reads(m, t)
  <2>1. Reads(m, r) /\ t.seen = r.seen \union {p} /\ Line(t) = Line(r)
    BY <1>4, <1>10 DEF Held, Line
  <2>2. t.seen \subseteq 1..Len(m) BY <2>1, <1>5 DEF Reads
  <2>3. Seen(m, t)
    <3>1. CASE t.pc = "cancel" BY <2>1, <3>1 DEF Reads, Seen
    <3>2. CASE t.pc # "cancel" BY <2>1, <3>2, <1>6 DEF Reads, Seen
    <3> QED BY <3>1, <3>2
  <2> QED BY <2>1, <2>2, <2>3 DEF Reads
<1>11. ASSUME Listens(t.pc), t.pc # "cancel" PROVE Once(m, t, y)
  <2>1. Once(m, r, x) /\ t.seen = r.seen \union {p} BY <1>4, <1>11 DEF Held
  <2>2. ASSUME NEW j \in 1..Len(y.bus), Foreign(m, y.bus[j])
        PROVE  /\ Outstanding(t, y.bus[j]) /\ y.bus[j] \notin t.seen
               /\ \A k \in 1..Len(y.bus) : y.bus[k] = y.bus[j] => j = k
    <3> DEFINE at(k) == IF k < i THEN k ELSE k + 1
    <3>1. at(j) \in 1..Len(x.bus) /\ at(j) # i /\ y.bus[j] = x.bus[at(j)] BY <1>7, <1>8
    <3>2. /\ Outstanding(r, y.bus[j]) /\ y.bus[j] \notin r.seen
          /\ \A k \in 1..Len(x.bus) : x.bus[k] = y.bus[j] => at(j) = k
      BY <3>1, <2>1, <2>2 DEF Once
    <3>3. y.bus[j] # p BY <3>1, <3>2
    <3>4. ASSUME NEW k \in 1..Len(y.bus), y.bus[k] = y.bus[j] PROVE j = k
      <4>1. at(k) \in 1..Len(x.bus) /\ y.bus[k] = x.bus[at(k)] BY <1>7, <1>8
      <4>2. at(j) = at(k) BY <3>2, <3>4, <4>1
      <4> QED BY <4>2, <1>7
    <3> QED BY <2>1, <3>2, <3>3, <3>4 DEF Outstanding
  <2>3. ASSUME NEW q \in t.seen, Foreign(m, q) PROVE Outstanding(t, q) \/ q <= t.cur
    <3>1. CASE q \in r.seen BY <3>1, <2>1, <2>3 DEF Once, Outstanding
    <3>2. CASE q = p BY <3>2, <2>1, <2>3 DEF Once, Outstanding
    <3> QED BY <2>1, <3>1, <3>2
  <2> QED BY <2>2, <2>3 DEF Once
<1>12. Held(m, t, y) BY <1>9, <1>10, <1>11 DEF Held
<1> QED BY <1>12, <1>1, <1>2 DEF m

(* A run of the object is over, and with it the resume it answered. *)
LEMMA EndsHeld ==
    ASSUME NEW l \in Logs, NEW r \in RunTypes, NEW t \in RunTypes, NEW x \in ObjTypes,
           NEW y \in ObjTypes, Held(l, r, x), y.bus = x.bus, y.answering = 0,
           t.pc = r.pc, t.items = r.items, t.out = r.out, t.cur = r.cur,
           t.seen = IF Listens(r.pc) /\ x.answering # 0
                    THEN r.seen \union {x.answering} ELSE r.seen
    PROVE  Held(l, t, y)
<1> DEFINE a == x.answering
<1>1. CASE ~(Listens(r.pc) /\ a # 0)
  <2>1. Alike(r, t) /\ Likewise(x, y) BY <1>1 DEF Alike, Likewise
  <2> QED BY <2>1, HeldAlike
<1>2. CASE Listens(r.pc) /\ a # 0
  <2>1. a \in 1..Len(l) /\ l[a].kind = "resume" BY <1>2 DEF Held, Given
  <2>2. Given(l, y) BY DEF Held, Given
  <2>3. Reads(l, t)
    <3>1. Reads(l, r) /\ t.seen = r.seen \union {a} /\ Line(t) = Line(r) BY <1>2 DEF Held, Line
    <3>2. t.seen \subseteq 1..Len(l) BY <3>1, <2>1 DEF Reads
    <3>3. Seen(l, t)
      <4>1. CASE t.pc = "cancel" BY <3>1, <4>1 DEF Reads, Seen
      <4>2. CASE t.pc # "cancel" BY <3>1, <4>2, <2>1 DEF Reads, Seen
      <4> QED BY <4>1, <4>2
    <3> QED BY <3>1, <3>2, <3>3 DEF Reads
  <2>4. ASSUME t.pc # "cancel" PROVE Once(l, t, y)
    <3>1. Once(l, r, x) /\ t.seen = r.seen \union {a} BY <1>2, <2>4 DEF Held
    <3>2. ~Foreign(l, a) BY <2>1 DEF Foreign
    <3>3. \A j \in 1..Len(y.bus) : Foreign(l, y.bus[j]) =>
             /\ Outstanding(t, y.bus[j]) /\ y.bus[j] \notin t.seen
             /\ \A k \in 1..Len(y.bus) : y.bus[k] = y.bus[j] => j = k
      BY <3>1, <3>2 DEF Once, Outstanding
    <3>4. \A q \in t.seen : Foreign(l, q) => Outstanding(t, q) \/ q <= t.cur
      BY <3>1, <3>2 DEF Once, Outstanding
    <3> QED BY <3>3, <3>4 DEF Once
  <2> QED BY <2>2, <2>3, <2>4 DEF Held
<1> QED BY <1>1, <1>2

(* A task settles: its notice is journaled and queued. *)
LEMMA SettlesHeld ==
    ASSUME NEW l \in Logs, NEW r \in RunTypes, NEW t \in RunTypes, NEW x \in ObjTypes,
           NEW y \in ObjTypes, Held(l, r, x),
           y.bus = Append(x.bus, Len(l) + 1), y.answering = x.answering,
           t.pc = r.pc, t.items = r.items, t.out = r.out, t.cur = r.cur, t.seen = r.seen
    PROVE  Held(Append(l, Record("input", Len(l) + 1)), t, y)
<1> DEFINE p == Len(l) + 1
           e == Record("input", p)
           m == Append(l, e)
<1>1. Len(l) \in Nat /\ x.bus \in Seq(Nat) /\ Len(x.bus) \in Nat BY DEF Logs, ObjTypes
<1>2. e \in RecordTypes BY <1>1 DEF Record, RecordTypes, InboxKinds
<1>3. m \in Logs /\ Extends(l, m) /\ Len(m) = Len(l) + 1 /\ m[p] = e BY <1>2, AppendGrows
<1>4. Held(m, r, x) BY <1>3, HeldGrows
<1> HIDE DEF m
<1>5. m[p].kind = "input" /\ p \in 1..Len(m) /\ ~Foreign(m, p) BY <1>1, <1>3 DEF Record, Foreign
<1>6. /\ Len(y.bus) = Len(x.bus) + 1 /\ y.bus[Len(x.bus) + 1] = p
      /\ \A j \in 1..Len(x.bus) : y.bus[j] = x.bus[j]
  BY <1>1
<1>7. \A j \in 1..Len(y.bus) : j \in 1..Len(x.bus) \/ j = Len(x.bus) + 1 BY <1>1, <1>6
<1>8. Given(m, y) BY <1>4, <1>5, <1>6, <1>7 DEF Held, Given
<1>9. ASSUME Listens(t.pc) PROVE Reads(m, t)
  <2>1. Reads(m, r) /\ Line(t) = Line(r) BY <1>4, <1>9 DEF Held, Line
  <2>2. Seen(m, t) BY <2>1 DEF Reads, Seen
  <2> QED BY <2>1, <2>2 DEF Reads
<1>10. ASSUME Listens(t.pc), t.pc # "cancel" PROVE Once(m, t, y)
  <2>1. Once(m, r, x) BY <1>4, <1>10 DEF Held
  <2>2. ASSUME NEW j \in 1..Len(y.bus), Foreign(m, y.bus[j])
        PROVE  /\ Outstanding(t, y.bus[j]) /\ y.bus[j] \notin t.seen
               /\ \A k \in 1..Len(y.bus) : y.bus[k] = y.bus[j] => j = k
    <3>1. j \in 1..Len(x.bus) /\ y.bus[j] = x.bus[j] /\ y.bus[j] # p BY <2>2, <1>5, <1>6, <1>7
    <3> QED BY <3>1, <2>1, <2>2, <1>6, <1>7 DEF Once, Outstanding
  <2> QED BY <2>1, <2>2 DEF Once, Outstanding
<1>11. Held(m, t, y) BY <1>8, <1>9, <1>10 DEF Held
<1> QED BY <1>11 DEF m

-----------
(* A new object has been given nothing, and its run has read nothing. *)
LEMMA OpenHeld ==
    ASSUME NEW l \in Logs, NEW c \in Nat, PrefixDealt(l, c), NEW t \in RunTypes,
           t.pc = "step", t.seen = {}, t.out = <<>>, t.cur = c,
           NEW y \in ObjTypes, y.bus = <<>>, y.answering = 0
    PROVE  Held(l, t, y)
<1>1. Line(t) = <<>> BY DEF Line
<1>2. Reads(l, t) BY <1>1 DEF Reads, Lined, Seen
<1>3. Given(l, y) /\ Once(l, t, y) BY DEF Given, Once
<1> QED BY <1>2, <1>3 DEF Held

(* One page after what was read before, and less it, leaves no gap. *)
LEMMA LinedRead ==
    ASSUME NEW l \in Logs, NEW a \in Seq(Nat), NEW c \in Nat, Lined(l, a, c),
           NEW q, PageOf(l, q, c, a)
    PROVE  Lined(l, a \o q, c)
<1> DEFINE b == a \o q
<1>1. q \in Seq(Nat) /\ Len(l) \in Nat BY DEF PageOf, Logs
<1>2. /\ b \in Seq(Nat) /\ Len(b) = Len(a) + Len(q) /\ Len(a) \in Nat /\ Len(q) \in Nat
      /\ \A i \in 1..Len(a) : b[i] = a[i]
      /\ \A i \in 1..Len(q) : b[Len(a) + i] = q[i]
      /\ \A i \in 1..Len(b) :
            \/ i \in 1..Len(a) /\ b[i] = a[i]
            \/ i - Len(a) \in 1..Len(q) /\ b[i] = q[i - Len(a)]
  BY <1>1, Joined
<1> HIDE DEF b
<1>3. \A i \in 1..Len(b) : b[i] \in 1..Len(l) /\ c < b[i] /\ l[b[i]].kind \in InboxKinds
  BY <1>2 DEF Lined, PageOf
<1>4. ASSUME NEW i \in 1..Len(a), NEW j \in 1..Len(q) PROVE a[i] < q[j]
  <2>1. a[i] # q[j] /\ a[i] \in Nat /\ q[j] \in Nat BY <1>1 DEF PageOf
  <2>2. ~(q[j] < a[i])
    <3> SUFFICES ASSUME q[j] < a[i] PROVE FALSE
      OBVIOUS
    <3>1. q[j] \in 1..Len(l) /\ c < q[j] /\ l[q[j]].kind \in InboxKinds BY DEF PageOf
    <3>2. \E k \in 1..Len(a) : a[k] = q[j] BY <3>1 DEF Lined
    <3> QED BY <3>2 DEF PageOf
  <2> QED BY <2>1, <2>2
<1>5. \A i, j \in 1..Len(b) : i < j => b[i] < b[j]
  <2> SUFFICES ASSUME NEW i \in 1..Len(b), NEW j \in 1..Len(b), i < j PROVE b[i] < b[j]
    OBVIOUS
  <2>1. CASE j \in 1..Len(a)
    <3>1. i \in 1..Len(a) BY <2>1, <1>2
    <3> QED BY <2>1, <3>1, <1>2 DEF Lined
  <2>2. CASE i \in 1..Len(a) /\ j - Len(a) \in 1..Len(q) /\ b[j] = q[j - Len(a)]
    BY <2>2, <1>2, <1>4
  <2>3. CASE i - Len(a) \in 1..Len(q) /\ b[i] = q[i - Len(a)]
    <3>0. j \notin 1..Len(a) BY <2>3, <1>2
    <3>1. j - Len(a) \in 1..Len(q) /\ b[j] = q[j - Len(a)] /\ i - Len(a) < j - Len(a)
      BY <2>3, <3>0, <1>2
    <3> QED BY <2>3, <3>1 DEF PageOf, Ascends
  <2> QED BY <2>1, <2>2, <2>3, <1>2
<1>6. ASSUME NEW i \in 1..Len(b), NEW p \in 1..Len(l), c < p, p < b[i], l[p].kind \in InboxKinds
      PROVE  \E j \in 1..Len(b) : b[j] = p
  <2>1. CASE i \in 1..Len(a) /\ b[i] = a[i]
    <3>1. PICK j \in 1..Len(a) : a[j] = p BY <2>1, <1>6 DEF Lined
    <3> QED BY <3>1, <1>2, SMTT(30)
  <2>2. CASE i - Len(a) \in 1..Len(q) /\ b[i] = q[i - Len(a)]
    <3>1. CASE \E j \in 1..Len(a) : a[j] = p BY <3>1, <1>2, SMTT(30)
    <3>2. CASE \A j \in 1..Len(a) : a[j] # p
      <4>1. PICK j \in 1..Len(q) : q[j] = p BY <2>2, <3>2, <1>6 DEF PageOf
      <4>2. Len(a) + j \in 1..Len(b) BY <1>2
      <4> QED BY <4>1, <4>2, <1>2
    <3> QED BY <3>1, <3>2
  <2> QED BY <2>1, <2>2, <1>2
<1> QED BY <1>3, <1>5, <1>6 DEF Lined, b

(* The next read of the inbox (session-worker.ts:433). *)
LEMMA StepHeld ==
    ASSUME NEW l \in Logs, NEW r \in RunTypes, NEW t \in RunTypes, NEW x \in ObjTypes,
           Held(l, r, x), r.pc = "step", t.pc = "feed",
           t.seen = r.seen, t.out = r.out, t.cur = r.cur, PageOf(l, t.items, r.cur, r.out)
    PROVE  Held(l, t, x)
<1>1. Reads(l, r) /\ Once(l, r, x) /\ Given(l, x) /\ Line(r) = r.out BY DEF Held, Listens, Line
<1>2. Lined(l, Line(t), t.cur)
  <2>1. Line(t) = r.out \o t.items BY DEF Line
  <2> QED BY <1>1, <2>1, LineType, LinedRead DEF Reads
<1>3. Reads(l, t) BY <1>1, <1>2 DEF Reads, Seen
<1>4. Once(l, t, x) BY <1>1 DEF Once, Outstanding
<1> QED BY <1>1, <1>3, <1>4 DEF Held

(* The items are read, up to one of them: they are outstanding now. *)
LEMMA FedLine ==
    ASSUME NEW l \in Logs, NEW r \in RunTypes, Reads(l, r), r.pc = "feed",
           NEW a \in Seq(Nat), Len(a) <= Len(r.items), \A i \in 1..Len(a) : a[i] = r.items[i]
    PROVE  /\ Lined(l, r.out \o a, r.cur) /\ r.out \o a \in Seq(Nat)
           /\ Len(r.out \o a) = Len(r.out) + Len(a) /\ Len(r.out) \in Nat /\ Len(a) \in Nat
           /\ \A i \in 1..Len(r.out) : (r.out \o a)[i] = r.out[i]
           /\ \A i \in 1..Len(a) : (r.out \o a)[Len(r.out) + i] = a[i]
           /\ \A i \in 1..Len(r.out \o a) :
                 \/ i \in 1..Len(r.out) /\ (r.out \o a)[i] = r.out[i]
                 \/ i - Len(r.out) \in 1..Len(a) /\ (r.out \o a)[i] = a[i - Len(r.out)]
<1> DEFINE u == r.out
           v == r.items
<1>1. u \in Seq(Nat) /\ v \in Seq(Nat) /\ r.cur \in Nat BY LineType
<1>2. Lined(l, u \o v, r.cur) BY DEF Reads, Line
<1>3. Len(a) <= Len(v) /\ \A i \in 1..Len(a) : a[i] = v[i] OBVIOUS
<1> HIDE DEF u, v
<1>4. /\ u \o a \in Seq(Nat) /\ Len(u \o a) = Len(u) + Len(a) /\ Len(u) \in Nat /\ Len(a) \in Nat
      /\ \A i \in 1..Len(u) : (u \o a)[i] = u[i]
      /\ \A i \in 1..Len(a) : (u \o a)[Len(u) + i] = a[i]
      /\ \A i \in 1..Len(u \o a) :
            \/ i \in 1..Len(u) /\ (u \o a)[i] = u[i]
            \/ i - Len(u) \in 1..Len(a) /\ (u \o a)[i] = a[i - Len(u)]
  BY <1>1, Joined
<1>5. /\ u \o v \in Seq(Nat) /\ Len(u \o v) = Len(u) + Len(v) /\ Len(v) \in Nat
      /\ \A i \in 1..Len(u) : (u \o v)[i] = u[i]
      /\ \A i \in 1..Len(v) : (u \o v)[Len(u) + i] = v[i]
  BY <1>1, Joined
<1>6. Len(u \o a) <= Len(u \o v) BY <1>3, <1>4, <1>5
<1>7. ASSUME NEW i \in 1..Len(u \o a) PROVE (u \o a)[i] = (u \o v)[i]
  <2>1. CASE i \in 1..Len(u) BY <2>1, <1>4, <1>5
  <2>2. CASE i - Len(u) \in 1..Len(a) /\ (u \o a)[i] = a[i - Len(u)]
    <3>1. i - Len(u) \in 1..Len(v) /\ Len(u) + (i - Len(u)) = i BY <2>2, <1>3, <1>4, <1>5
    <3> QED BY <2>2, <3>1, <1>3, <1>5
  <2> QED BY <2>1, <2>2, <1>4
<1>8. Lined(l, u \o a, r.cur) BY <1>1, <1>2, <1>4, <1>5, <1>6, <1>7, LinedPrefix
<1> QED BY <1>4, <1>8 DEF u

(* A cancel discards what is outstanding and what was read with it. *)
LEMMA CancelHeld ==
    ASSUME NEW l \in Logs, NEW r \in RunTypes, NEW t \in RunTypes, NEW x \in ObjTypes,
           NEW y \in ObjTypes, Held(l, r, x), r.pc = "feed", t.pc = "cancel",
           NEW a \in Seq(Nat), Len(a) <= Len(r.items), \A i \in 1..Len(a) : a[i] = r.items[i],
           Len(a) # 0, l[a[Len(a)]].kind = "cancel",
           t.out = r.out \o a, t.cur = r.cur, y.bus = x.bus, y.answering = x.answering,
           t.seen = r.seen \union {r.out[i] : i \in 1..Len(r.out)} \union {a[i] : i \in 1..Len(a)}
    PROVE  Held(l, t, y)
<1>1. Reads(l, r) /\ Given(l, y) BY DEF Held, Listens, Given
<1>2. /\ Lined(l, t.out, r.cur) /\ t.out \in Seq(Nat)
      /\ Len(t.out) = Len(r.out) + Len(a) /\ Len(r.out) \in Nat /\ Len(a) \in Nat
      /\ \A i \in 1..Len(r.out) : t.out[i] = r.out[i]
      /\ \A i \in 1..Len(a) : t.out[Len(r.out) + i] = a[i]
      /\ \A i \in 1..Len(t.out) : \/ i \in 1..Len(r.out) /\ t.out[i] = r.out[i]
                                  \/ i - Len(r.out) \in 1..Len(a) /\ t.out[i] = a[i - Len(r.out)]
  <2>1. /\ Lined(l, r.out \o a, r.cur) /\ r.out \o a \in Seq(Nat)
        /\ Len(r.out \o a) = Len(r.out) + Len(a) /\ Len(r.out) \in Nat /\ Len(a) \in Nat
        /\ \A i \in 1..Len(r.out) : (r.out \o a)[i] = r.out[i]
        /\ \A i \in 1..Len(a) : (r.out \o a)[Len(r.out) + i] = a[i]
        /\ \A i \in 1..Len(r.out \o a) :
              \/ i \in 1..Len(r.out) /\ (r.out \o a)[i] = r.out[i]
              \/ i - Len(r.out) \in 1..Len(a) /\ (r.out \o a)[i] = a[i - Len(r.out)]
    BY <1>1, FedLine
  <2> QED BY <2>1
<1>3. Line(t) = t.out BY DEF Line
<1>4. t.seen \subseteq 1..Len(l)
  <2>1. \A i \in 1..Len(r.out) : r.out[i] \in 1..Len(l)
    <3> SUFFICES ASSUME NEW i \in 1..Len(r.out) PROVE r.out[i] \in 1..Len(l)
      OBVIOUS
    <3>1. i \in 1..Len(t.out) /\ t.out[i] = r.out[i] BY <1>2
    <3> QED BY <3>1, <1>2 DEF Lined
  <2>2. \A i \in 1..Len(a) : a[i] \in 1..Len(l)
    <3> SUFFICES ASSUME NEW i \in 1..Len(a) PROVE a[i] \in 1..Len(l)
      OBVIOUS
    <3>1. Len(r.out) + i \in 1..Len(t.out) /\ t.out[Len(r.out) + i] = a[i] BY <1>2
    <3> QED BY <3>1, <1>2 DEF Lined
  <2> QED BY <1>1, <2>1, <2>2 DEF Reads
<1>5. Seen(l, t)
  <2>1. Len(t.out) = Len(r.out) + Len(a) /\ Len(a) \in 1..Len(a) /\ t.out[Len(t.out)] = a[Len(a)]
    BY <1>2
  <2>2. t.out # <<>> BY <2>1, <1>2
  <2>3. \A i \in 1..Len(t.out) : t.out[i] \in t.seen BY <1>2
  <2> QED BY <2>1, <2>2, <2>3 DEF Seen
<1>6. Reads(l, t) BY <1>1, <1>2, <1>3, <1>4, <1>5 DEF Reads
<1> QED BY <1>1, <1>6 DEF Held

(* What is fed was not fed before. *)
LEMMA FedApart ==
    ASSUME NEW l \in Logs, NEW r \in RunTypes, Reads(l, r), r.pc = "feed",
           NEW a \in Seq(Nat), Len(a) <= Len(r.items), \A i \in 1..Len(a) : a[i] = r.items[i]
    PROVE  /\ \A p : Has(r.out \o a, p) <=> Has(r.out, p) \/ Has(a, p)
           /\ \A p : Has(a, p) => p \in 1..Len(l) /\ r.cur < p /\ ~Has(r.out, p)
<1> DEFINE n == Len(r.out)
           b == r.out \o a
<1>2. /\ Lined(l, b, r.cur) /\ b \in Seq(Nat)
      /\ Len(b) = n + Len(a) /\ n \in Nat /\ Len(a) \in Nat
      /\ \A i \in 1..n : b[i] = r.out[i]
      /\ \A i \in 1..Len(a) : b[n + i] = a[i]
      /\ \A i \in 1..Len(b) : \/ i \in 1..n /\ b[i] = r.out[i]
                              \/ i - n \in 1..Len(a) /\ b[i] = a[i - n]
  BY FedLine
<1> HIDE DEF b, n
<1>3. \A i \in 1..Len(a) : n + i \in 1..Len(b) /\ b[n + i] = a[i]
  <2> SUFFICES ASSUME NEW i \in 1..Len(a) PROVE n + i \in 1..Len(b) /\ b[n + i] = a[i]
    OBVIOUS
  <2>1. i \in Nat /\ 1 <= i /\ i <= Len(a) /\ Len(b) = n + Len(a) /\ n \in Nat /\ Len(a) \in Nat
    BY <1>2
  <2>2. n + i \in 1..Len(b) BY <2>1
  <2> QED BY <2>2, <1>2
<1>4. \A i \in 1..n : i \in 1..Len(b) /\ b[i] = r.out[i] BY <1>2
<1>5. \A p : Has(b, p) <=> Has(r.out, p) \/ Has(a, p)
  <2>1. ASSUME NEW p, Has(b, p) PROVE Has(r.out, p) \/ Has(a, p)
    <3>1. PICK i \in 1..Len(b) : b[i] = p BY <2>1 DEF Has
    <3>2. CASE i \in 1..n /\ b[i] = r.out[i] BY <3>1, <3>2 DEF Has, n
    <3>3. CASE i - n \in 1..Len(a) /\ b[i] = a[i - n] BY <3>1, <3>3 DEF Has
    <3> QED BY <3>2, <3>3, <1>2
  <2>2. ASSUME NEW p, Has(r.out, p) PROVE Has(b, p) BY <2>2, <1>4 DEF Has, n
  <2>3. ASSUME NEW p, Has(a, p) PROVE Has(b, p)
    <3>1. PICK i \in 1..Len(a) : a[i] = p BY <2>3 DEF Has
    <3> QED BY <3>1, <1>3 DEF Has
  <2> QED BY <2>1, <2>2, <2>3
<1>6. ASSUME NEW p, Has(a, p) PROVE p \in 1..Len(l) /\ r.cur < p /\ ~Has(r.out, p)
  <2>1. PICK i \in 1..Len(a) : a[i] = p BY <1>6 DEF Has
  <2>2. n + i \in 1..Len(b) /\ b[n + i] = p BY <2>1, <1>3
  <2>3. p \in 1..Len(l) /\ r.cur < p BY <2>2, <1>2 DEF Lined
  <2>4. ASSUME NEW j \in 1..n PROVE r.out[j] # p
    <3>1. j \in 1..Len(b) /\ b[j] = r.out[j] /\ j < n + i BY <1>2, <1>4
    <3>2. b[j] < b[n + i] BY <3>1, <2>2, <1>2 DEF Lined
    <3>3. b[j] \in Nat BY <3>1, <1>2, SMTT(30)
    <3> QED BY <3>1, <3>2, <3>3, <2>2, <2>3
  <2> QED BY <2>3, <2>4 DEF Has, n
<1> QED BY <1>5, <1>6 DEF b

(* Feeding what was read: skipped and refused items are consumed, the
   inputs are on the bus. *)
LEMMA FeedHeld ==
    ASSUME NEW l \in Logs, NEW r \in RunTypes, NEW t \in RunTypes, NEW x \in ObjTypes,
           NEW y \in ObjTypes, Held(l, r, x), NEW a \in Seq(Nat), NEW S, NEW inputs \in Seq(Nat),
           FedAs(l, r, t, x, y, a, S, inputs)
    PROVE  Held(l, t, y)
<1> USE DEF FedAs
<1>1. Reads(l, r) /\ Given(l, x) /\ Once(l, r, x) BY DEF Held, Listens
<1>2. Lined(l, t.out, r.cur)
  <2>1. Len(a) <= Len(r.items) /\ (\A i \in 1..Len(a) : a[i] = r.items[i]) /\ r.pc = "feed"
        /\ t.out = r.out \o a
    OBVIOUS
  <2> QED BY <1>1, <2>1, FedLine
<1>3. Line(t) = t.out BY DEF Line
<1>4. /\ \A p : Outstanding(t, p) <=> Outstanding(r, p) \/ Has(a, p)
      /\ \A p : Has(a, p) => p \in 1..Len(l) /\ r.cur < p /\ ~Outstanding(r, p)
  <2>1. Len(a) <= Len(r.items) /\ (\A i \in 1..Len(a) : a[i] = r.items[i]) /\ r.pc = "feed"
        /\ t.out = r.out \o a
    OBVIOUS
  <2> HIDE DEF FedAs
  <2> QED BY <1>1, <2>1, FedApart DEF Outstanding
<1>6. t.seen \subseteq 1..Len(l) BY <1>1, <1>4 DEF Reads
<1>7. Reads(l, t)
  <2>1. Seen(l, t) BY <1>1 DEF Seen, Reads
  <2> QED BY <1>1, <1>2, <1>3, <1>6, <2>1 DEF Reads
<1>8. /\ y.bus \in Seq(Nat) /\ Len(y.bus) = Len(x.bus) + Len(inputs)
      /\ Len(x.bus) \in Nat /\ Len(inputs) \in Nat
      /\ \A i \in 1..Len(y.bus) :
            \/ i \in 1..Len(x.bus) /\ y.bus[i] = x.bus[i]
            \/ i - Len(x.bus) \in 1..Len(inputs) /\ y.bus[i] = inputs[i - Len(x.bus)]
  <2>1. x.bus \in Seq(Nat) BY DEF ObjTypes
  <2> QED BY <2>1, Joined
<1>9. \A i \in 1..Len(inputs) : inputs[i] \in 1..Len(l) BY <1>4
<1>10. Given(l, y)
  <2>1. \A i \in 1..Len(y.bus) : y.bus[i] \in 1..Len(l) /\ l[y.bus[i]].kind = "input"
    BY <1>1, <1>8, <1>9, ZenonT(60) DEF Given
  <2> QED BY <1>1, <2>1 DEF Given
<1>11. r.cur \in Nat /\ \A p \in r.seen : p \in Nat BY LineType
<1>12. ASSUME NEW p, Foreign(l, p), Outstanding(r, p), p \notin r.seen PROVE p \notin t.seen
  BY <1>4, <1>12
<1>13. ASSUME NEW p, Foreign(l, p), Has(a, p) PROVE p \notin r.seen
  <2>1. r.cur < p /\ ~Outstanding(r, p) /\ p \in 1..Len(l) /\ Len(l) \in Nat
    BY <1>4, <1>13 DEF Logs
  <2>2. p \in r.seen => Outstanding(r, p) \/ p <= r.cur BY <1>1, <1>13 DEF Once
  <2>3. ~(p <= r.cur) BY <2>1, <1>11
  <2> QED BY <2>1, <2>2, <2>3
<1>14. ASSUME NEW i \in 1..Len(y.bus), Foreign(l, y.bus[i])
       PROVE  /\ Outstanding(t, y.bus[i]) /\ y.bus[i] \notin t.seen
              /\ \A k \in 1..Len(y.bus) : y.bus[k] = y.bus[i] => i = k
  <2>1. CASE i \in 1..Len(x.bus) /\ y.bus[i] = x.bus[i]
    <3>1. /\ Outstanding(r, y.bus[i]) /\ y.bus[i] \notin r.seen
          /\ \A k \in 1..Len(x.bus) : x.bus[k] = y.bus[i] => i = k
      BY <2>1, <1>14, <1>1 DEF Once
    <3>2. Outstanding(t, y.bus[i]) /\ y.bus[i] \notin t.seen BY <3>1, <1>4, <1>12, <1>14
    <3>3. \A k \in 1..Len(inputs) : inputs[k] # y.bus[i] BY <3>1, <1>4
    <3>4. ASSUME NEW k \in 1..Len(y.bus), y.bus[k] = y.bus[i] PROVE i = k
      <4>1. CASE k \in 1..Len(x.bus) /\ y.bus[k] = x.bus[k] BY <4>1, <3>1, <3>4
      <4>2. CASE k - Len(x.bus) \in 1..Len(inputs) /\ y.bus[k] = inputs[k - Len(x.bus)]
        BY <4>2, <3>3, <3>4
      <4> QED BY <4>1, <4>2, <1>8
    <3> QED BY <3>2, <3>4
  <2>2. CASE i - Len(x.bus) \in 1..Len(inputs) /\ y.bus[i] = inputs[i - Len(x.bus)]
    <3> DEFINE p == y.bus[i]
               b == i - Len(x.bus)
    <3>1. Has(a, p) /\ p \notin S BY <2>2
    <3>2. Outstanding(t, p) /\ ~Outstanding(r, p) /\ p \notin t.seen BY <3>1, <1>4, <1>13, <1>14
    <3>4. ASSUME NEW k \in 1..Len(y.bus), y.bus[k] = p PROVE i = k
      <4>1. CASE k \in 1..Len(x.bus) /\ y.bus[k] = x.bus[k]
        <5>1. Outstanding(r, x.bus[k]) BY <4>1, <3>4, <1>14, <1>1 DEF Once
        <5> QED BY <4>1, <5>1, <3>2, <3>4
      <4>2. CASE k - Len(x.bus) \in 1..Len(inputs) /\ y.bus[k] = inputs[k - Len(x.bus)]
        <5> DEFINE d == k - Len(x.bus)
        <5>1. inputs[d] = inputs[b] /\ d \in 1..Len(inputs) /\ b \in 1..Len(inputs)
          BY <2>2, <4>2, <3>4
        <5> HIDE DEF d, b
        <5>2. (d < b => inputs[d] < inputs[b]) /\ (b < d => inputs[b] < inputs[d])
          BY <5>1 DEF Ascends
        <5>3. inputs[b] \in Nat /\ inputs[d] \in Nat /\ d \in Int /\ b \in Int
          <6>1. \A e \in 1..Len(inputs) : inputs[e] \in Nat /\ e \in Int BY <1>8
          <6> QED BY <5>1, <6>1
        <5>4. ~(d < b) /\ ~(b < d) BY <5>1, <5>2, <5>3
        <5>5. d = b BY <5>3, <5>4
        <5> QED BY <5>5, <1>8 DEF d, b
      <4> QED BY <4>1, <4>2, <1>8
    <3> QED BY <3>2, <3>4
  <2> QED BY <2>1, <2>2, <1>8
<1>15. ASSUME NEW q \in t.seen, Foreign(l, q) PROVE Outstanding(t, q) \/ q <= t.cur
  <2>1. CASE q \in r.seen BY <2>1, <1>1, <1>4, <1>15 DEF Once
  <2>2. CASE q \in S BY <2>2, <1>4
  <2> QED BY <2>1, <2>2
<1>16. Once(l, t, y) BY <1>14, <1>15 DEF Once
<1> QED BY <1>7, <1>10, <1>16 DEF Held

-----------
(* Everything up to the last of a consumed prefix is dealt with. *)
LEMMA PrefixConsumed ==
    ASSUME NEW l \in Logs, NEW r \in RunTypes, Reads(l, r), r.pc # "feed",
           NEW k \in 1..Len(r.out), \A i \in 1..k : r.out[i] \in r.seen,
           r.pc = "cancel" => k = Len(r.out)
    PROVE  PrefixDealt(l, r.out[k])
<1> DEFINE q == r.out
           c == q[k]
<1>1. /\ q \in Seq(Nat) /\ Len(l) \in Nat /\ r.cur \in Nat /\ Lined(l, q, r.cur)
      /\ PrefixDealt(l, r.cur) /\ Seen(l, r) /\ r.seen \subseteq 1..Len(l)
  BY LineType DEF Reads, Line, Logs
<1>2. k \in 1..Len(q) /\ \A i \in 1..k : q[i] \in r.seen OBVIOUS
<1> HIDE DEF q
<1>3. c \in 1..Len(l) /\ r.cur < c /\ c \in Nat /\ r.cur \in 0..Len(l)
  BY <1>1, <1>2 DEF Lined, PrefixDealt
<1>4. ASSUME NEW p \in 1..c, l[p].kind = "input" PROVE Dealt(l, p, c)
  <2>0. p \in Nat /\ 1 <= p /\ p <= c /\ p \in 1..Len(l) BY <1>3, <1>1
  <2>1. CASE p <= r.cur
    <3>1. p \in 1..r.cur BY <2>0, <2>1, <1>1
    <3>2. Dealt(l, p, r.cur) BY <3>1, <1>1, <1>4 DEF PrefixDealt
    <3>3. \A d \in (p + 1)..r.cur : d \in (p + 1)..c BY <1>3, <1>1
    <3>4. Between(l, p, r.cur, "cancel") => Between(l, p, c, "cancel") BY <3>3 DEF Between
    <3> QED BY <3>2, <3>4 DEF Dealt
  <2>2. CASE ~(p <= r.cur) /\ r.pc = "cancel"
    <3>1. l[c].kind = "cancel" BY <2>2, <1>1 DEF Seen, q
    <3>2. p # c BY <3>1, <1>4
    <3>3. c \in (p + 1)..c BY <3>2, <2>0, <1>3
    <3> QED BY <3>1, <3>3 DEF Dealt, Between
  <2>3. CASE ~(p <= r.cur) /\ r.pc # "cancel"
    <3>1. r.cur < p BY <2>3, <2>0, <1>1
    <3>2. PICK j \in 1..Len(q) : q[j] = p /\ j <= k
      <4>1. CASE p = c BY <4>1, <1>2
      <4>2. CASE p # c
        <5>1. p < c /\ l[p].kind \in InboxKinds BY <4>2, <2>0, <1>3, <1>4 DEF InboxKinds
        <5>2. PICK j \in 1..Len(q) : q[j] = p BY <5>1, <3>1, <2>0, <1>1, <1>2 DEF Lined
        <5>3. k < j => q[k] < q[j] BY <1>1, <1>2 DEF Lined
        <5>4. ~(k < j) BY <5>1, <5>2, <5>3, <2>0, <1>3
        <5>5. j \in Nat /\ k \in Nat BY <1>1, <1>2
        <5> QED BY <5>2, <5>4, <5>5
      <4> QED BY <4>1, <4>2
    <3>3. p \in r.seen
      <4>1. j \in 1..k BY <3>2, <1>1, <1>2
      <4> QED BY <4>1, <3>2, <1>2
    <3> QED BY <2>3, <3>3, <1>1, <1>4 DEF Seen, Dealt
  <2> QED BY <2>1, <2>2, <2>3
<1> QED BY <1>3, <1>4, <1>1 DEF PrefixDealt, q

(* The advance of the cursor. *)
LEMMA AdvancedFacts ==
    ASSUME NEW r \in RunTypes
    PROVE  LET k == ConsumedPrefix(r.out, r.seen) IN
           /\ k \in 0..Len(r.out) /\ k \in Nat
           /\ \A i \in 1..k : r.out[i] \in r.seen
           /\ \A j \in 1..Len(r.out) : (\A i \in 1..j : r.out[i] \in r.seen) => j <= k
           /\ Advanced(r).out \in Seq(Nat) /\ Advanced(r).cur \in Nat
           /\ Advanced(r) \in RunTypes
           /\ k = 0 => Advanced(r).out = r.out /\ Advanced(r).cur = r.cur
           /\ k # 0 => /\ k \in 1..Len(r.out)
                       /\ Advanced(r).out = SubSeq(r.out, k + 1, Len(r.out))
                       /\ Advanced(r).cur = r.out[k]
           /\ Advanced(r).seen = r.seen /\ Advanced(r).items = r.items /\ Advanced(r).pc = r.pc
           /\ Advanced(r).behind = r.behind
<1> DEFINE q == r.out
           k == ConsumedPrefix(q, r.seen)
           t == SubSeq(q, k + 1, Len(q))
<1>1. q \in Seq(Nat) /\ Len(q) \in Nat /\ r.cur \in Nat BY LineType
<1>2. /\ k \in 0..Len(q)
      /\ \A i \in 1..k : q[i] \in r.seen
      /\ \A j \in 1..Len(q) : (\A i \in 1..j : q[i] \in r.seen) => j <= k
  BY <1>1, Consumed
<1>3. Advanced(r) = [r EXCEPT !.out = t, !.cur = IF k = 0 THEN r.cur ELSE q[k]] BY DEF Advanced
<1> HIDE DEF k, q
<1>4. k \in Nat /\ (k # 0 => k \in 1..Len(q)) /\ k + 1 \in 1..(Len(q) + 1) BY <1>1, <1>2
<1>5. t \in Seq(Nat)
  <2>1. Len(q) \in ((k + 1) - 1)..Len(q) BY <1>1, <1>2
  <2> QED BY <1>1, <1>4, <2>1, CutOut
<1>6. k = 0 => t = q BY <1>1
<1>7. (IF k = 0 THEN r.cur ELSE q[k]) \in Nat BY <1>1, <1>4
<1> HIDE DEF t
<1>8. /\ Advanced(r) \in RunTypes /\ Advanced(r).out = t
      /\ Advanced(r).cur = (IF k = 0 THEN r.cur ELSE q[k])
      /\ Advanced(r).seen = r.seen /\ Advanced(r).items = r.items /\ Advanced(r).pc = r.pc
      /\ Advanced(r).behind = r.behind
  BY <1>3, <1>5, <1>7 DEF RunTypes
<1> QED BY <1>1, <1>2, <1>4, <1>5, <1>6, <1>7, <1>8 DEF t, k, q

(* The advance of the cursor passes only what was dealt with. *)
LEMMA AdvancedDealt ==
    ASSUME NEW l \in Logs, NEW r \in RunTypes, Reads(l, r), r.pc # "feed"
    PROVE  PrefixDealt(l, Advanced(r).cur)
<1> DEFINE k == ConsumedPrefix(r.out, r.seen)
<1>1. /\ k \in 0..Len(r.out)
      /\ \A i \in 1..k : r.out[i] \in r.seen
      /\ \A j \in 1..Len(r.out) : (\A i \in 1..j : r.out[i] \in r.seen) => j <= k
      /\ k = 0 => Advanced(r).cur = r.cur
      /\ k # 0 => k \in 1..Len(r.out) /\ Advanced(r).cur = r.out[k]
  BY AdvancedFacts
<1> HIDE DEF k
<1>2. CASE k = 0 BY <1>1, <1>2 DEF Reads
<1>3. CASE k # 0
  <2>1. r.pc = "cancel" => k = Len(r.out)
    <3> SUFFICES ASSUME r.pc = "cancel" PROVE k = Len(r.out)
      OBVIOUS
    <3>1. \A i \in 1..Len(r.out) : r.out[i] \in r.seen BY DEF Reads, Seen
    <3>2. Len(r.out) \in 1..Len(r.out) /\ Len(r.out) \in Nat BY <1>1, <1>3, LineType
    <3>3. Len(r.out) <= k BY <3>1, <3>2, <1>1
    <3> QED BY <3>2, <3>3, <1>1
  <2>2. PrefixDealt(l, r.out[k]) BY <2>1, <1>1, <1>3, PrefixConsumed
  <2> QED BY <2>2, <1>1, <1>3
<1> QED BY <1>2, <1>3

(* After an advance the rest is outstanding as before. *)
LEMMA AdvancedHeld ==
    ASSUME NEW l \in Logs, NEW r \in RunTypes, NEW t \in RunTypes, NEW x \in ObjTypes,
           Held(l, r, x), r.pc = "sleep", t.pc \in {"step", "put", "hold", "close"},
           t.out = Advanced(r).out, t.cur = Advanced(r).cur, t.seen = r.seen
    PROVE  Held(l, t, x)
<1> DEFINE k == ConsumedPrefix(r.out, r.seen)
           q == r.out
<1>1. /\ k \in 0..Len(q) /\ k \in Nat
      /\ \A i \in 1..k : q[i] \in r.seen
      /\ k = 0 => t.out = q /\ t.cur = r.cur
      /\ k # 0 => k \in 1..Len(q) /\ t.out = SubSeq(q, k + 1, Len(q)) /\ t.cur = q[k]
  BY AdvancedFacts
<1>2. Given(l, x) /\ Reads(l, r) /\ Once(l, r, x) BY DEF Held, Listens
<1>3. q \in Seq(Nat) /\ r.cur \in Nat /\ Line(r) = q /\ Line(t) = t.out /\ Len(q) \in Nat
  BY LineType DEF Line
<1>4. PrefixDealt(l, t.cur) BY <1>2, AdvancedDealt
<1> HIDE DEF k, q
<1>5. Lined(l, q, r.cur) BY <1>2, <1>3 DEF Reads
<1>6. CASE k = 0
  <2>1. Alike(r, t) /\ Likewise(x, x) BY <1>1, <1>6 DEF Alike, Likewise, Listens, q
  <2> QED BY <2>1, HeldAlike
<1>7. CASE k # 0
  <2>1. Lined(l, t.out, t.cur) BY <1>1, <1>3, <1>5, <1>7, LinedTail
  <2>2. Reads(l, t)
    <3>1. Seen(l, t) BY <1>2 DEF Reads, Seen
    <3> QED BY <2>1, <3>1, <1>2, <1>3, <1>4 DEF Reads
  <2>3. /\ Len(t.out) = Len(q) - k
        /\ \A i \in 1..(Len(q) - k) : t.out[i] = q[k + i]
    <3>1. k + 1 \in 1..(Len(q) + 1) /\ Len(q) \in ((k + 1) - 1)..Len(q) BY <1>1, <1>3, <1>7
    <3>2. /\ Len(SubSeq(q, k + 1, Len(q))) = Len(q) - (k + 1) + 1
          /\ \A i \in 1..(Len(q) - (k + 1) + 1) : SubSeq(q, k + 1, Len(q))[i] = q[(k + 1) + i - 1]
      <4> DEFINE m == k + 1
      <4>1. m \in 1..(Len(q) + 1) /\ Len(q) \in (m - 1)..Len(q) BY <3>1
      <4> HIDE DEF m
      <4>2. /\ Len(SubSeq(q, m, Len(q))) = Len(q) - m + 1
            /\ \A i \in 1..(Len(q) - m + 1) : SubSeq(q, m, Len(q))[i] = q[m + i - 1]
        BY <4>1, <1>3, CutOut
      <4> QED BY <4>2 DEF m
    <3>3. Len(q) - (k + 1) + 1 = Len(q) - k /\ \A i \in Nat : (k + 1) + i - 1 = k + i
      BY <1>1, <1>3
    <3>4. Len(t.out) = Len(q) - k BY <3>2, <3>3, <1>1, <1>7, ZenonT(60)
    <3>5. ASSUME NEW i \in 1..(Len(q) - k) PROVE t.out[i] = q[k + i]
      <4>1. i \in Nat /\ i \in 1..(Len(q) - (k + 1) + 1) BY <3>3, <1>1, <1>3
      <4>2. t.out[i] = q[(k + 1) + i - 1] BY <4>1, <3>2, <1>1, <1>7
      <4> QED BY <4>1, <4>2, <3>3
    <3> QED BY <3>4, <3>5
  <2>4. ASSUME NEW p, Has(q, p), ~Has(t.out, p) PROVE p \in r.seen /\ p <= t.cur
    <3>1. PICK i \in 1..Len(q) : q[i] = p BY <2>4 DEF Has
    <3>2. i <= k
      <4> SUFFICES ASSUME ~(i <= k) PROVE FALSE
        OBVIOUS
      <4>1. i - k \in 1..(Len(q) - k) /\ k + (i - k) = i BY <1>1, <1>3
      <4>2. t.out[i - k] = p /\ i - k \in 1..Len(t.out) BY <4>1, <3>1, <2>3
      <4> QED BY <4>2, <2>4 DEF Has
    <3>3. i \in 1..k BY <3>2, <1>1, <1>3
    <3>4. i < k => q[i] < q[k] BY <1>1, <1>5, <1>7 DEF Lined
    <3>5. q[i] \in Nat /\ q[k] \in Nat BY <1>1, <1>3, <1>7
    <3>6. q[i] <= q[k] BY <3>2, <3>4, <3>5, <3>3, <1>1
    <3> QED BY <3>1, <3>3, <3>6, <1>1, <1>7
  <2>5. r.cur < t.cur /\ r.cur \in Nat /\ t.cur \in Nat BY <1>1, <1>3, <1>5, <1>7 DEF Lined
  <2>6. Once(l, t, x)
    <3>1. \A p : Outstanding(r, p) => Outstanding(t, p) \/ (p \in r.seen /\ p <= t.cur)
      BY <2>4 DEF Outstanding, q
    <3>2. \A p \in Nat : p <= r.cur => p <= t.cur BY <2>5
    <3>3. \A p \in r.seen : p \in Nat BY LineType
    <3> QED BY <3>1, <3>2, <3>3, <1>2 DEF Once
  <2>7. t.pc # "feed" /\ t.pc # "cancel" OBVIOUS
  <2> QED BY <1>2, <2>2, <2>6 DEF Held
<1> QED BY <1>6, <1>7

-----------
(* A log extends itself. *)
LEMMA ExtendsItself ==
    ASSUME NEW l \in Logs
    PROVE  Extends(l, l)
BY DEF Extends, Logs

(* Steps that leave log and cursor alone. *)
LEMMA LogSame ==
    ASSUME WInv, UNCHANGED <<log, cursor>>
    PROVE  LogKept
<1>1. \A s \in Sessions : log[s] \in Logs BY DEF WInv, Typed
<1>2. \A s \in Sessions : Extends(log[s], log'[s]) BY <1>1, ExtendsItself
<1>3. LogInv' BY DEF WInv, LogInv
<1> QED BY <1>2, <1>3 DEF WInv, Typed, LogKept, LogStep

(* Steps that append one record. *)
LEMMA LogAppend ==
    ASSUME WInv, NEW s \in Sessions, NEW e \in RecordTypes,
           e.kind = "taken" => e.of \in 1..Len(log[s]),
           log' = [log EXCEPT ![s] = Append(log[s], e)], cursor' = cursor
    PROVE  /\ LogKept /\ log'[s] = Append(log[s], e) /\ \A u \in Sessions \ {s} : log'[u] = log[u]
           /\ Len(log'[s]) = Len(log[s]) + 1 /\ log'[s][Len(log[s]) + 1] = e
<1>1. log \in [Sessions -> Logs] /\ \A u \in Sessions : log[u] \in Logs BY DEF WInv, Typed
<1>2. log'[s] = Append(log[s], e) /\ \A u \in Sessions \ {s} : log'[u] = log[u] BY <1>1
<1>3. /\ Append(log[s], e) \in Logs /\ Extends(log[s], Append(log[s], e))
      /\ Len(Append(log[s], e)) = Len(log[s]) + 1 /\ Append(log[s], e)[Len(log[s]) + 1] = e
  BY <1>1, AppendGrows
<1>4. LogStep
  <2>1. log' \in [Sessions -> Logs] BY <1>1, <1>3
  <2>2. \A u \in Sessions : Extends(log[u], log'[u]) BY <1>1, <1>2, <1>3, ExtendsItself
  <2> QED BY <2>1, <2>2 DEF LogStep
<1>5. ASSUME NEW u \in Sessions PROVE TakenSane(log'[u]) /\ PrefixDealt(log'[u], cursor'[u])
  <2>1. PrefixDealt(log[u], cursor[u]) /\ TakenSane(log[u]) BY DEF WInv, LogInv
  <2>2. PrefixDealt(log'[u], cursor'[u]) BY <2>1, <1>1, <1>4, PrefixGrows DEF LogStep
  <2>3. CASE u # s BY <2>1, <2>2, <2>3, <1>2
  <2>4. CASE u = s
    <3> DEFINE l == log[s]
               m == log'[s]
    <3>1. Len(m) = Len(l) + 1 /\ m[Len(l) + 1] = e /\ Len(l) \in Nat /\ \A p \in 1..Len(l) : m[p] = l[p]
      BY <1>1, <1>2, <1>3 DEF Extends, Logs
    <3>2. TakenSane(l) /\ (e.kind = "taken" => e.of \in 1..Len(l)) BY <2>1, <2>4
    <3> HIDE DEF l, m
    <3>3. TakenSane(m)
      <4> SUFFICES ASSUME NEW p \in 1..Len(m), m[p].kind = "taken" PROVE m[p].of \in 1..(p - 1)
        BY DEF TakenSane
      <4>1. CASE p \in 1..Len(l) BY <4>1, <3>1, <3>2 DEF TakenSane
      <4>2. CASE p = Len(l) + 1 BY <4>2, <3>1, <3>2
      <4> QED BY <4>1, <4>2, <3>1
    <3> QED BY <2>2, <2>4, <3>3 DEF m
  <2> QED BY <2>3, <2>4
<1>6. LogInv' BY <1>5 DEF LogInv
<1>7. cursor' \in [Sessions -> Nat] BY DEF WInv, Typed
<1> QED BY <1>2, <1>3, <1>4, <1>6, <1>7 DEF LogKept

(* Steps that move the cursor of one session to a safe place. *)
LEMMA CursorStep ==
    ASSUME WInv, NEW s \in Sessions, NEW c \in Nat, PrefixDealt(log[s], c),
           log' = log, cursor' = [cursor EXCEPT ![s] = c] \/ cursor' = cursor
    PROVE  LogKept
<1>1. \A u \in Sessions : log[u] \in Logs BY DEF WInv, Typed
<1>2. LogStep BY <1>1, ExtendsItself DEF LogStep, WInv, Typed
<1>3. LogInv'
  <2>1. \A u \in Sessions : cursor'[u] = cursor[u] \/ (u = s /\ cursor'[u] = c)
    BY DEF WInv, Typed
  <2> QED BY <2>1 DEF WInv, LogInv
<1> QED BY <1>2, <1>3 DEF LogKept, WInv, Typed

(* What a step of the run of h, or of its object, has to show. *)
LEMMA ActorStep ==
    ASSUME WInv, IInv', SessionsKept, Flagged', LogKept,
           NEW h \in Leases, run[h].pc # "none",
           NEW t \in RunTypes, NEW y \in ObjTypes,
           run' = [run EXCEPT ![h] = t], obj' = [obj EXCEPT ![h] = y],
           Fits(t.pc, y), t.behind # {} => t.pc = "wait",
           Held(log'[Session(h)], t, y)
    PROVE  WInv'
<1>1. /\ run \in [Leases -> RunTypes] /\ obj \in [Leases -> ObjTypes] /\ log \in [Sessions -> Logs]
      /\ log' \in [Sessions -> Logs]
  BY DEF WInv, Typed, LogKept, LogStep
<1>2. /\ run'[h] = t /\ obj'[h] = y
      /\ \A g \in Leases \ {h} : run'[g] = run[g] /\ obj'[g] = obj[g]
  BY <1>1
<1>3. Typed' BY <1>1 DEF Typed, LogKept
<1>4. ASSUME NEW g \in Leases PROVE Placed(g)' /\ Holds(g)'
  <2>1. lease'[g].session = lease[g].session /\ Placed(g) /\ Holds(g) BY DEF SessionsKept, WInv
  <2>2. CASE g = h BY <2>1, <2>2, <1>2 DEF Placed, Holds, Session
  <2>3. CASE g # h
    <3>1. run'[g] = run[g] /\ obj'[g] = obj[g] /\ run[g] \in RunTypes /\ obj[g] \in ObjTypes
      BY <2>3, <1>1, <1>2
    <3>2. Placed(g)' BY <2>1, <3>1 DEF Placed, Session
    <3>3. CASE run[g].pc = "none"
      <4>1. obj[g] = NoObject /\ ~Listens(run[g].pc)
        BY <3>3, <2>1, <3>1 DEF Placed, Fits, Listens
      <4>2. Held(log'[Session(g)'], run'[g], obj'[g]) BY <3>1, <4>1, HeldNothing
      <4> QED BY <3>2, <4>2 DEF Holds, Session
    <3>4. CASE run[g].pc # "none"
      <4> DEFINE s == lease[g].session
      <4>1. s \in Sessions /\ log[s] \in Logs /\ log'[s] \in Logs /\ Extends(log[s], log'[s])
        BY <3>4, <2>1, <1>1 DEF Placed, Session, LogKept, LogStep
      <4>2. Held(log[s], run[g], obj[g]) BY <2>1 DEF Holds, Session
      <4>3. Held(log'[s], run[g], obj[g]) BY <4>1, <4>2, <3>1, HeldGrows
      <4> QED BY <3>1, <3>2, <4>3, <2>1 DEF Holds, Session
    <3> QED BY <3>3, <3>4
  <2> QED BY <2>2, <2>3
<1> QED BY <1>3, <1>4 DEF WInv, LogKept

(* A step in which every run stays where it is, only goes elsewhere, or
   has no object. *)
LEMMA CalmStep ==
    ASSUME WInv, IInv', Flagged', LogKept, Typed',
           \A g \in Leases :
              /\ Placed(g)'
              /\ \/ /\ run[g].pc # "none" /\ lease'[g].session = lease[g].session
                    /\ Alike(run[g], run'[g]) /\ Likewise(obj[g], obj'[g])
                 \/ ~Listens(run'[g].pc) /\ obj'[g] = NoObject
    PROVE  WInv'
<1>1. ASSUME NEW g \in Leases PROVE Holds(g)'
  <2>1. CASE ~Listens(run'[g].pc) /\ obj'[g] = NoObject
    <3>1. Held(log'[Session(g)'], run'[g], obj'[g]) BY <2>1, HeldNothing
    <3> QED BY <3>1 DEF Holds, Session
  <2>2. CASE /\ run[g].pc # "none" /\ lease'[g].session = lease[g].session
             /\ Alike(run[g], run'[g]) /\ Likewise(obj[g], obj'[g])
    <3> DEFINE s == lease[g].session
    <3>1. s \in Sessions /\ log[s] \in Logs /\ log'[s] \in Logs /\ Extends(log[s], log'[s])
      BY <2>2 DEF WInv, Placed, Session, LogKept, LogStep, Typed
    <3>2. run[g] \in RunTypes /\ obj[g] \in ObjTypes /\ run'[g] \in RunTypes /\ obj'[g] \in ObjTypes
      BY DEF WInv, Typed
    <3>3. Held(log[s], run[g], obj[g]) BY DEF WInv, Holds, Session
    <3>4. Held(log[s], run'[g], obj'[g]) BY <2>2, <3>1, <3>2, <3>3, HeldAlike
    <3>5. Held(log'[s], run'[g], obj'[g]) BY <3>1, <3>2, <3>4, HeldGrows
    <3> QED BY <3>5, <2>2 DEF Holds, Session
  <2> QED BY <2>1, <2>2
<1> QED BY <1>1 DEF WInv, LogKept

-----------
(* They keep the table's invariant and every lease's session. *)
LEMMA QuietTableStep ==
    ASSUME IInv, QuietTable
    PROVE  IInv' /\ SameTakes /\ SessionsKept
<1>1. CASE UNCHANGED <<row, lease, calls>> /\ faults' = faults + 1
  <2>1. TableTypeOK' BY <1>1 DEF IInv, TableTypeOK
  <2>2. LeasesConsistent' /\ HolderOwnsRow' /\ FenceTellsTakesApart'
    BY <1>1 DEF IInv, LeasesConsistent, HolderOwnsRow, FenceTellsTakesApart, Current, Mine
  <2> QED BY <2>1, <2>2, <1>1 DEF IInv, SameTakes, SessionsKept
<1>2. CASE ~(UNCHANGED <<row, lease, calls>> /\ faults' = faults + 1)
  <2>1. [TableNext]_tableVars BY <1>2 DEF QuietTable, TableNext
  <2>2. IInv' /\ TableTypeOK' BY <2>1, NextInv DEF IInv
  <2>3. SameTakes
    <3>1. CASE \E h \in Leases : RenewCommit(h) BY <3>1, <2>2, RenewCommitStep
    <3>2. CASE \E h \in Leases : ReleaseCommit(h) BY <3>2, <2>2, ReleaseCommitStep
    <3>3. CASE Tick BY <3>3, <2>2, TickStep
    <3>4. CASE \/ \E s \in Sessions : AppendRecord(s)
               \/ \E h \in Leases : \/ RenewSend(h) \/ ReleaseSend(h) \/ QueryFails(h)
                                    \/ \E beat \in Beats : RenewAnswer(h, beat)
               \/ \E o \in Owners : Crash(o)
               \/ UNCHANGED tableVars
      BY <3>4, <2>2, QuietStep
    <3> QED BY <1>2, <3>1, <3>2, <3>3, <3>4 DEF QuietTable
  <2> QED BY <2>2, <2>3 DEF SameTakes, SessionsKept
<1> QED BY <1>1, <1>2

(* The two statements that grant. *)
LEMMA TakeTable ==
    ASSUME IInv, NEW h \in Leases, NEW o \in Owners, NEW s \in Sessions,
           Claim(h, o, s) \/ Acquire(h, o, s)
    PROVE  /\ IInv' /\ lease'[h].session = s /\ lease'[h].owner = o /\ ~lease'[h].gone
           /\ \A g \in Leases \ {h} : lease'[g] = lease[g]
<1>1. TableNext BY DEF TableNext
<1>2. IInv' BY <1>1, NextInv
<1>3. Take(h, o, s) BY DEF Claim, Acquire
<1> QED BY <1>2, <1>3 DEF Take, IInv, TableTypeOK

(* The steps in which no run of a session does anything. *)
LEMMA NobodyMoves ==
    ASSUME WInv, QuietTable, Flagged', LogKept, obj' = obj,
           run' \in [Leases -> RunTypes],
           \A g \in Leases :
              /\ run'[g].pc = run[g].pc /\ run'[g].behind = run[g].behind
              /\ run'[g].seen = run[g].seen /\ run'[g].out = run[g].out
              /\ run'[g].items = run[g].items /\ run'[g].cur = run[g].cur
    PROVE  WInv'
<1>1. IInv' /\ SessionsKept BY QuietTableStep DEF WInv
<1>2. Typed' BY DEF WInv, Typed, LogKept, LogStep
<1>3. ASSUME NEW g \in Leases
      PROVE  /\ Placed(g)'
             /\ \/ /\ run[g].pc # "none" /\ lease'[g].session = lease[g].session
                   /\ Alike(run[g], run'[g]) /\ Likewise(obj[g], obj'[g])
                \/ ~Listens(run'[g].pc) /\ obj'[g] = NoObject
  <2>1. Placed(g) /\ lease'[g].session = lease[g].session BY <1>1 DEF WInv, SessionsKept
  <2>2. Placed(g)' BY <2>1 DEF Placed, Session
  <2>3. CASE run[g].pc = "none" BY <2>1, <2>3 DEF Placed, Fits, Listens
  <2>4. CASE run[g].pc # "none"
    <3>1. Alike(run[g], run'[g]) BY DEF Alike
    <3>2. obj'[g] = obj[g] OBVIOUS
    <3>3. Likewise(obj[g], obj'[g]) BY <3>2 DEF Likewise
    <3> QED BY <2>1, <2>2, <2>4, <3>1, <3>3
  <2> QED BY <2>2, <2>3, <2>4
<1> QED BY <1>1, <1>2, <1>3, CalmStep

(* Steps in which no run and no object takes part. *)
LEMMA NoRunMoves ==
    ASSUME WInv, QuietTable, Flagged', LogKept, obj' = obj, run' = run
    PROVE  WInv'
BY NobodyMoves DEF WInv, Typed

(* Steps that only set the wake of one run. *)
LEMMA WakeRises ==
    ASSUME WInv, QuietTable, Flagged', UNCHANGED <<log, cursor>>, obj' = obj,
           NEW h \in Leases, NEW b \in BOOLEAN, run' = [run EXCEPT ![h].wake = b]
    PROVE  WInv'
<1>1. run \in [Leases -> RunTypes] BY DEF WInv, Typed
<1>2. \A r \in RunTypes : LET t == [r EXCEPT !.wake = b] IN
         /\ t \in RunTypes /\ t.pc = r.pc /\ t.behind = r.behind
         /\ t.seen = r.seen /\ t.out = r.out /\ t.items = r.items /\ t.cur = r.cur
  BY DEF RunTypes
<1>3. /\ run'[h] = [run[h] EXCEPT !.wake = b] /\ \A g \in Leases \ {h} : run'[g] = run[g]
      /\ run[h] \in RunTypes
  BY <1>1
<1>4. run' \in [Leases -> RunTypes] BY <1>1, <1>2, <1>3
<1>5. \A g \in Leases :
              /\ run'[g].pc = run[g].pc /\ run'[g].behind = run[g].behind
              /\ run'[g].seen = run[g].seen /\ run'[g].out = run[g].out
              /\ run'[g].items = run[g].items /\ run'[g].cur = run[g].cur
  BY <1>2, <1>3
<1> QED BY <1>4, <1>5, LogSame, NobodyMoves

-----------
(* An API node has looked at the state. *)
LEMMA CheckStateStep ==
    ASSUME WInv, NEW s \in Sessions, NEW kind \in {"input", "resume"}, CheckState(s, kind)
    PROVE  WInv'
<1>1. UNCHANGED <<tableVars, logVars, nudged, stopping, run, obj, dropped>>
      /\ pending' = [pending EXCEPT ![s] = kind]
  BY DEF CheckState
<1>2. Flagged' BY <1>1 DEF WInv, Flagged, logVars
<1>3. QuietTable BY <1>1 DEF QuietTable
<1> QED BY <1>1, <1>2, <1>3, LogSame, NoRunMoves DEF logVars

(* A record is accepted. *)
LEMMA AcceptStep ==
    ASSUME WInv, NEW s \in Sessions, NEW kind \in {"input", "resume", "cancel"}, Accept(s, kind),
           pending' \in [Sessions -> {"none", "input", "resume"}]
    PROVE  WInv'
<1>1. /\ log' = [log EXCEPT ![s] = Append(log[s], Record(kind, 0))] /\ cursor' = cursor
      /\ UNCHANGED <<intr, turnOpen, stopping, run, obj, dropped>>
      /\ nudged' = nudged \/ nudged' = nudged \union {s}
      /\ AppendRecord(s)
  BY DEF Accept
<1>2. Record(kind, 0) \in RecordTypes /\ Record(kind, 0).kind # "taken"
  BY DEF Record, RecordTypes, InboxKinds
<1>3. LogKept BY <1>1, <1>2, LogAppend
<1>4. Flagged' BY <1>1 DEF WInv, Flagged
<1>5. QuietTable BY <1>1 DEF QuietTable
<1> QED BY <1>1, <1>3, <1>4, <1>5, NoRunMoves

(* The steps of the API nodes. *)
LEMMA ServiceSteps ==
    ASSUME WInv, NEW s \in Sessions, ServiceStep(s)
    PROVE  WInv'
<1>1. CASE \E kind \in {"input", "resume"} : CheckState(s, kind) BY <1>1, CheckStateStep
<1>2. CASE AppendChecked(s)
  <2>1. /\ pending[s] \in {"input", "resume"} /\ Accept(s, pending[s])
        /\ pending' \in [Sessions -> {"none", "input", "resume"}]
    BY <1>2 DEF AppendChecked, WInv, Flagged
  <2> QED BY <2>1, AcceptStep
<1>3. CASE RequestCancel(s)
  <2>1. Accept(s, "cancel") /\ pending' \in [Sessions -> {"none", "input", "resume"}]
    BY <1>3 DEF RequestCancel, WInv, Flagged
  <2> QED BY <2>1, AcceptStep
<1> QED BY <1>1, <1>2, <1>3 DEF ServiceStep

(* A nudge that finds nothing to do. *)
LEMMA NudgeLostStep ==
    ASSUME WInv, NEW s \in Sessions, NudgeLost(s)
    PROVE  WInv'
<1>1. UNCHANGED <<tableVars, logVars, pending, stopping, run, obj, dropped>>
      /\ nudged' = nudged \ {s}
  BY DEF NudgeLost
<1>2. Flagged' BY <1>1 DEF WInv, Flagged, logVars
<1>3. QuietTable BY <1>1 DEF QuietTable
<1> QED BY <1>1, <1>2, <1>3, LogSame, NoRunMoves DEF logVars

(* A nudge that raises a wake. *)
LEMMA NudgeRaisesStep ==
    ASSUME WInv, NEW h \in Leases, NudgeRaises(h)
    PROVE  WInv'
<1>1. UNCHANGED <<tableVars, logVars, pending, stopping, obj, dropped>>
      /\ nudged' \subseteq nudged /\ run' = [run EXCEPT ![h].wake = TRUE]
  BY DEF NudgeRaises
<1>2. Flagged' BY <1>1 DEF WInv, Flagged, logVars
<1>3. QuietTable BY <1>1 DEF QuietTable
<1> QED BY <1>1, <1>2, <1>3, WakeRises DEF logVars

(* A heartbeat is sent. *)
LEMMA HeartbeatStep ==
    ASSUME WInv, NEW h \in Leases, Heartbeat(h)
    PROVE  WInv'
<1>1. UNCHANGED <<logVars, apiVars, run, obj, dropped>> /\ RenewSend(h) BY DEF Heartbeat
<1>2. Flagged' BY <1>1 DEF WInv, Flagged, logVars, apiVars
<1>3. QuietTable BY <1>1 DEF QuietTable
<1> QED BY <1>1, <1>2, <1>3, LogSame, NoRunMoves DEF logVars

(* A statement commits, or the clock ticks. *)
LEMMA TableStepStep ==
    ASSUME WInv, TableStep
    PROVE  WInv'
<1>1. UNCHANGED <<logVars, apiVars, run, obj, dropped>> /\ QuietTable
  BY DEF TableStep, QuietTable
<1>2. Flagged' BY <1>1 DEF WInv, Flagged, logVars, apiVars
<1> QED BY <1>1, <1>2, LogSame, NoRunMoves DEF logVars

(* A heartbeat is answered. *)
LEMMA BeatAnsweredStep ==
    ASSUME WInv, NEW h \in Leases, NEW beat \in Beats, BeatAnswered(h, beat)
    PROVE  WInv'
<1>1. /\ UNCHANGED <<logVars, apiVars, obj>> /\ RenewAnswer(h, beat)
      /\ run' = [run EXCEPT ![h].wake = @ \/ beat = "woken"]
      /\ dropped' = dropped \/ dropped' = [dropped EXCEPT ![Session(h)] = "late"]
  BY DEF BeatAnswered
<1>2. Flagged' BY <1>1 DEF WInv, Flagged, logVars, apiVars
<1>3. QuietTable BY <1>1 DEF QuietTable
<1>4. (run[h].wake \/ beat = "woken") \in BOOLEAN OBVIOUS
<1>5. run' = [run EXCEPT ![h].wake = (run[h].wake \/ beat = "woken")] BY <1>1
<1> QED BY <1>1, <1>2, <1>3, <1>4, <1>5, WakeRises DEF logVars

(* A statement or its answer is lost. *)
LEMMA CallFailsStep ==
    ASSUME WInv, NEW h \in Leases, CallFails(h)
    PROVE  WInv'
<1>1. /\ UNCHANGED <<logVars, apiVars, run, obj>> /\ QueryFails(h)
      /\ dropped' = dropped \/ dropped' = [dropped EXCEPT ![Session(h)] = "error"]
  BY DEF CallFails
<1>2. Flagged' BY <1>1 DEF WInv, Flagged, logVars, apiVars
<1>3. QuietTable BY <1>1 DEF QuietTable
<1> QED BY <1>1, <1>2, <1>3, LogSame, NoRunMoves DEF logVars

-----------
(* A lease object without a run, and without a session object. *)
LEMMA Nothing == NoRun \in RunTypes /\ NoObject \in ObjTypes /\ NoRun.pc = "none" /\ NoRun.behind = {}
                 /\ NoObject.state = "none" /\ NoObject.bus = <<>> /\ NoObject.answering = 0
BY DEF NoRun, NoObject, RunTypes, ObjTypes, Places

(* The lease is granted: a run starts. *)
LEMMA StartStep ==
    ASSUME WInv, NEW h \in Leases, NEW o \in Owners, NEW s \in Sessions, NEW looped \in BOOLEAN,
           Claim(h, o, s) \/ Acquire(h, o, s), Started(h, o, s, looped),
           UNCHANGED <<logVars, pending, stopping, obj>>, nudged' \subseteq nudged
    PROVE  WInv'
<1>1. /\ IInv' /\ lease'[h].session = s
      /\ \A g \in Leases \ {h} : lease'[g] = lease[g]
  BY TakeTable DEF WInv
<1>2. /\ run[h].pc = "none" /\ dropped' = [dropped EXCEPT ![s] = "no"]
      /\ run' = [run EXCEPT ![h] = [NoRun EXCEPT !.pc = "start", !.looped = looped]]
  BY DEF Started
<1> DEFINE t == [NoRun EXCEPT !.pc = "start", !.looped = looped]
<1>3. t \in RunTypes /\ t.pc = "start" /\ t.behind = {}
  <2>1. \A r \in RunTypes, b \in BOOLEAN :
           LET q == [r EXCEPT !.pc = "start", !.looped = b] IN
           q \in RunTypes /\ q.pc = "start" /\ q.behind = r.behind
    BY DEF RunTypes, Places
  <2> QED BY <2>1, Nothing
<1> HIDE DEF t
<1>4. run \in [Leases -> RunTypes] /\ obj' = obj BY DEF WInv, Typed
<1>t. run' = [run EXCEPT ![h] = t] BY <1>2 DEF t
<1>5. run'[h] = t /\ \A g \in Leases \ {h} : run'[g] = run[g] BY <1>t, <1>4
<1>6. Typed'
  <2>1. run' \in [Leases -> RunTypes] BY <1>t, <1>3, <1>4
  <2> QED BY <2>1 DEF WInv, Typed, logVars
<1>7. Flagged' BY <1>2 DEF WInv, Flagged, logVars
<1>8. ASSUME NEW g \in Leases
      PROVE  /\ Placed(g)'
             /\ \/ /\ run[g].pc # "none" /\ lease'[g].session = lease[g].session
                   /\ Alike(run[g], run'[g]) /\ Likewise(obj[g], obj'[g])
                \/ ~Listens(run'[g].pc) /\ obj'[g] = NoObject
  <2>1. Placed(g) /\ Placed(h) BY DEF WInv
  <2>2. CASE g = h
    <3>1. obj[h] = NoObject /\ obj'[h] = NoObject /\ NoObject.state = "none"
      BY <2>1, <1>2, <1>4 DEF Placed, Fits, Listens, NoObject
    <3> QED BY <2>2, <3>1, <1>1, <1>3, <1>5 DEF Placed, Fits, Listens, Session
  <2>3. CASE g # h
    <3>1. run'[g] = run[g] /\ lease'[g] = lease[g] /\ obj'[g] = obj[g] BY <2>3, <1>1, <1>4, <1>5
    <3>2. Placed(g)' BY <2>1, <3>1 DEF Placed, Session
    <3>3. CASE run[g].pc = "none" BY <2>1, <3>1, <3>2, <3>3 DEF Placed, Fits, Listens
    <3>4. CASE run[g].pc # "none"
      <4>1. Alike(run[g], run'[g]) /\ Likewise(obj[g], obj'[g]) BY <3>1 DEF Alike, Likewise
      <4> QED BY <3>1, <3>2, <3>4, <4>1
    <3> QED BY <3>3, <3>4
  <2> QED BY <2>2, <2>3
<1>9. LogKept BY LogSame DEF logVars
<1> QED BY <1>1, <1>6, <1>7, <1>8, <1>9, CalmStep

(* The claim loop takes a row. *)
LEMMA ClaimRunStep ==
    ASSUME WInv, NEW h \in Leases, NEW o \in Owners, NEW s \in Sessions, ClaimRun(h, o, s)
    PROVE  WInv'
BY StartStep DEF ClaimRun, apiVars

(* A nudge takes a row. *)
LEMMA NudgeTakesStep ==
    ASSUME WInv, NEW h \in Leases, NEW o \in Owners, NEW s \in Sessions, NudgeTakes(h, o, s)
    PROVE  WInv'
BY StartStep DEF NudgeTakes

(* A worker is stopped. *)
LEMMA StopStep ==
    ASSUME WInv, NEW o \in Owners, Stop(o)
    PROVE  WInv'
<1>1. UNCHANGED <<tableVars, logVars, pending, nudged, dropped>> /\ stopping' = stopping \union {o}
  BY DEF Stop
<1>2. Flagged' BY <1>1 DEF WInv, Flagged, logVars
<1>3. IInv' /\ lease' = lease
  <2>1. QuietTable BY <1>1 DEF QuietTable
  <2> QED BY <1>1, <2>1, QuietTableStep DEF WInv, tableVars
<1>4. LogKept BY <1>1, LogSame DEF logVars
<1>5. \A g \in Leases : /\ run'[g] = run[g] \/ run'[g] = [run[g] EXCEPT !.wake = TRUE]
                        /\ \/ obj'[g] = obj[g]
                           \/ obj[g].state # "none" /\ obj'[g] = [Aborted(obj[g]) EXCEPT !.closing = TRUE]
  BY DEF Stop
<1>6. ASSUME NEW r \in RunTypes
      PROVE  LET t == [r EXCEPT !.wake = TRUE] IN
             t \in RunTypes /\ t.pc = r.pc /\ t.behind = r.behind /\ Alike(r, t)
  BY DEF RunTypes, Alike
<1>7. ASSUME NEW x \in ObjTypes
      PROVE  LET y == [Aborted(x) EXCEPT !.closing = TRUE] IN
             y \in ObjTypes /\ y.state = x.state /\ Likewise(x, y)
  BY DEF ObjTypes, Likewise, Aborted
<1>8. ASSUME NEW g \in Leases
      PROVE  /\ run'[g] \in RunTypes /\ obj'[g] \in ObjTypes
             /\ run'[g].pc = run[g].pc /\ run'[g].behind = run[g].behind
             /\ obj'[g].state = obj[g].state /\ (obj[g].state = "none" => obj'[g] = obj[g])
             /\ Alike(run[g], run'[g]) /\ Likewise(obj[g], obj'[g])
  <2>1. run[g] \in RunTypes /\ obj[g] \in ObjTypes BY DEF WInv, Typed
  <2>2. Alike(run[g], run[g]) /\ Likewise(obj[g], obj[g]) BY DEF Alike, Likewise
  <2>3. run'[g] \in RunTypes /\ run'[g].pc = run[g].pc /\ run'[g].behind = run[g].behind /\ Alike(run[g], run'[g])
    BY <2>1, <2>2, <1>5, <1>6
  <2>4. /\ obj'[g] \in ObjTypes /\ obj'[g].state = obj[g].state
        /\ (obj[g].state = "none" => obj'[g] = obj[g]) /\ Likewise(obj[g], obj'[g])
    BY <2>1, <2>2, <1>5, <1>7
  <2> QED BY <2>3, <2>4
<1>9. Typed'
  <2>1. run' \in [Leases -> RunTypes] /\ obj' \in [Leases -> ObjTypes]
    <3>1. run' = [g \in Leases |-> run'[g]] /\ obj' = [g \in Leases |-> obj'[g]] BY DEF Stop
    <3> QED BY <3>1, <1>8
  <2> QED BY <2>1, <1>1 DEF WInv, Typed, logVars
<1>10. ASSUME NEW g \in Leases
       PROVE  /\ Placed(g)'
              /\ \/ /\ run[g].pc # "none" /\ lease'[g].session = lease[g].session
                    /\ Alike(run[g], run'[g]) /\ Likewise(obj[g], obj'[g])
                 \/ ~Listens(run'[g].pc) /\ obj'[g] = NoObject
  <2>1. Placed(g) BY DEF WInv
  <2>2. Placed(g)' BY <2>1, <1>3, <1>8 DEF Placed, Fits, Session
  <2>3. CASE run[g].pc = "none" BY <2>1, <2>2, <2>3, <1>8 DEF Placed, Fits, Listens
  <2>4. CASE run[g].pc # "none" BY <2>2, <2>4, <1>3, <1>8
  <2> QED BY <2>3, <2>4
<1> QED BY <1>2, <1>3, <1>4, <1>9, <1>10, CalmStep

(* A worker dies. *)
LEMMA WorkerCrashStep ==
    ASSUME WInv, NEW o \in Owners, WorkerCrash(o)
    PROVE  WInv'
<1>1. /\ UNCHANGED <<logVars, pending, nudged>> /\ stopping' \subseteq stopping /\ Crash(o)
      /\ run' = [h \in Leases |-> IF Host(h) = o THEN NoRun ELSE run[h]]
      /\ obj' = [h \in Leases |-> IF Host(h) = o THEN NoObject ELSE obj[h]]
      /\ \A s \in Sessions : dropped'[s] = "late" \/ dropped'[s] = dropped[s]
      /\ dropped' = [s \in Sessions |-> dropped'[s]]
  BY DEF WorkerCrash
<1>2. Flagged'
  <2>1. dropped' \in [Sessions -> {"no", "late", "stop", "error", "page"}] BY <1>1 DEF WInv, Flagged
  <2> QED BY <1>1, <2>1 DEF WInv, Flagged, logVars
<1>3. IInv' /\ SessionsKept
  <2>1. QuietTable BY <1>1 DEF QuietTable
  <2> QED BY <2>1, QuietTableStep DEF WInv
<1>4. LogKept BY <1>1, LogSame DEF logVars
<1>5. Typed' BY <1>1, Nothing DEF WInv, Typed, logVars
<1>6. ASSUME NEW g \in Leases
      PROVE  /\ Placed(g)'
             /\ \/ /\ run[g].pc # "none" /\ lease'[g].session = lease[g].session
                   /\ Alike(run[g], run'[g]) /\ Likewise(obj[g], obj'[g])
                \/ ~Listens(run'[g].pc) /\ obj'[g] = NoObject
  <2>1. Placed(g) /\ lease'[g].session = lease[g].session BY <1>3 DEF WInv, SessionsKept
  <2>2. CASE Host(g) = o
    <3>1. run'[g] = NoRun /\ obj'[g] = NoObject BY <1>1, <2>2
    <3> QED BY <3>1, Nothing DEF Placed, Fits, Listens
  <2>3. CASE Host(g) # o
    <3>1. run'[g] = run[g] /\ obj'[g] = obj[g] BY <1>1, <2>3
    <3>2. Placed(g)' BY <2>1, <3>1 DEF Placed, Session
    <3>3. CASE run[g].pc = "none" BY <2>1, <3>1, <3>2, <3>3 DEF Placed, Fits, Listens
    <3>4. CASE run[g].pc # "none"
      <4>1. Alike(run[g], run'[g]) /\ Likewise(obj[g], obj'[g]) BY <3>1 DEF Alike, Likewise
      <4> QED BY <2>1, <3>2, <3>4, <4>1
    <3> QED BY <3>3, <3>4
  <2> QED BY <2>2, <2>3
<1> QED BY <1>2, <1>3, <1>4, <1>5, <1>6, CalmStep

(* Runs that waited go on; one of them is listed. *)
LEMMA DoneStep ==
    ASSUME WInv, NEW h \in Leases, Done(h)
    PROVE  WInv'
<1> DEFINE waiting == {g \in Leases : h \in run[g].behind}
<1>1. UNCHANGED <<tableVars, logVars, apiVars, obj, dropped>> /\ run[h].pc = "release"
  BY ZenonT(60) DEF Done
<1>2. /\ run' = [g \in Leases |-> run'[g]] /\ run'[h] = NoRun
      /\ \A g \in Leases \ {h} :
            \/ run'[g] = run[g]
            \/ \E b \in BOOLEAN : run'[g] = [run[g] EXCEPT !.listed = b]
            \/ g \in waiting /\ \E b \in BOOLEAN :
                  run'[g] = [run[g] EXCEPT !.pc = "pass", !.behind = {}, !.listed = b]
  BY DEF Done
<1>3. ASSUME NEW r \in RunTypes, NEW b \in BOOLEAN
      PROVE  LET t == [r EXCEPT !.listed = b] IN
             t \in RunTypes /\ t.pc = r.pc /\ t.behind = r.behind /\ Alike(r, t)
  BY DEF RunTypes, Alike
<1>4. ASSUME NEW r \in RunTypes, NEW b \in BOOLEAN, NEW t,
             t = [r EXCEPT !.pc = "pass", !.behind = {}, !.listed = b]
      PROVE  t \in RunTypes /\ t.pc = "pass" /\ t.behind = {} /\ Alike(r, t)
  BY <1>4 DEF RunTypes, Alike, Places, Listens
<1>5. Flagged' BY <1>1 DEF WInv, Flagged, logVars, apiVars
<1>6. IInv' /\ lease' = lease
  <2>1. QuietTable BY <1>1 DEF QuietTable
  <2> QED BY <1>1, <2>1, QuietTableStep DEF WInv, tableVars
<1>7. LogKept BY <1>1, LogSame DEF logVars
<1>8. ASSUME NEW g \in Leases
      PROVE  /\ run'[g] \in RunTypes /\ Placed(g)'
             /\ \/ /\ run[g].pc # "none" /\ lease'[g].session = lease[g].session
                   /\ Alike(run[g], run'[g]) /\ Likewise(obj[g], obj'[g])
                \/ ~Listens(run'[g].pc) /\ obj'[g] = NoObject
  <2>1. Placed(g) /\ run[g] \in RunTypes /\ obj'[g] = obj[g] /\ lease'[g].session = lease[g].session
    BY <1>1, <1>6 DEF WInv, Typed
  <2>2. CASE g = h
    <3>1. obj'[h] = NoObject BY <2>1, <2>2, <1>1 DEF Placed, Fits, Listens
    <3> QED BY <2>2, <3>1, <1>2, Nothing DEF Placed, Fits, Listens
  <2>3. Likewise(obj[g], obj'[g]) BY <2>1 DEF Likewise
  <2>4. CASE run'[g] = run[g]
    <3>1. Placed(g)' /\ Alike(run[g], run'[g]) BY <2>1, <2>4 DEF Placed, Session, Alike
    <3>2. CASE run[g].pc = "none" BY <2>1, <2>4, <3>1, <3>2 DEF Placed, Fits, Listens
    <3> QED BY <2>1, <2>3, <2>4, <3>1, <3>2
  <2>5. CASE g # h /\ \E b \in BOOLEAN : run'[g] = [run[g] EXCEPT !.listed = b]
    <3>1. /\ run'[g] \in RunTypes /\ run'[g].pc = run[g].pc /\ run'[g].behind = run[g].behind
          /\ Alike(run[g], run'[g])
      BY <2>1, <2>5, <1>3
    <3>2. Placed(g)' BY <2>1, <3>1 DEF Placed, Session
    <3>3. CASE run[g].pc = "none" BY <2>1, <3>1, <3>2, <3>3 DEF Placed, Fits, Listens
    <3> QED BY <2>1, <2>3, <3>1, <3>2, <3>3
  <2>6. CASE /\ g # h /\ g \in waiting
             /\ \E b \in BOOLEAN :
                   run'[g] = [run[g] EXCEPT !.pc = "pass", !.behind = {}, !.listed = b]
    <3>1. /\ run'[g] \in RunTypes /\ run'[g].pc = "pass" /\ run'[g].behind = {}
          /\ Alike(run[g], run'[g])
      <4>1. PICK b \in BOOLEAN :
               run'[g] = [run[g] EXCEPT !.pc = "pass", !.behind = {}, !.listed = b]
        BY <2>6
      <4>2. run[g] \in RunTypes BY <2>1
      <4> DEFINE r == run[g]
                 t == run'[g]
      <4>3. r \in RunTypes /\ t = [r EXCEPT !.pc = "pass", !.behind = {}, !.listed = b]
        BY <4>1, <4>2
      <4> HIDE DEF waiting, r, t
      <4>4. t \in RunTypes /\ t.pc = "pass" /\ t.behind = {} /\ Alike(r, t) BY <4>3, <1>4
      <4> QED BY <4>4 DEF r, t
    <3>2. run[g].pc = "wait" BY <2>1, <2>6 DEF Placed
    <3>3. Placed(g)' BY <2>1, <3>1, <3>2 DEF Placed, Session, Fits, Listens
    <3> QED BY <2>1, <2>3, <3>1, <3>2, <3>3
  <2> QED BY <2>2, <2>4, <2>5, <2>6, <1>2
<1>9. Typed'
  <2>1. run' \in [Leases -> RunTypes] BY <1>2, <1>8
  <2> QED BY <2>1, <1>1 DEF WInv, Typed, logVars
<1> QED BY <1>5, <1>6, <1>7, <1>8, <1>9, CalmStep

-----------
(* A run, or its object, goes on with what it has read and been given. *)
LEMMA ActorMoves ==
    ASSUME WInv, QuietTable, Flagged', LogKept,
           NEW h \in Leases, run[h].pc # "none",
           NEW t \in RunTypes, NEW y \in ObjTypes,
           run' = [run EXCEPT ![h] = t], obj' = [obj EXCEPT ![h] = y],
           Fits(t.pc, y), t.behind # {} => t.pc = "wait",
           \/ Alike(run[h], t) /\ Likewise(obj[h], y)
           \/ ~Listens(t.pc) /\ y = NoObject
    PROVE  WInv'
<1> DEFINE s == Session(h)
<1>1. IInv' /\ SessionsKept BY QuietTableStep DEF WInv
<1>2. s \in Sessions /\ run[h] \in RunTypes /\ obj[h] \in ObjTypes /\ Held(log[s], run[h], obj[h])
  BY DEF WInv, Placed, Typed, Holds
<1>3. log[s] \in Logs /\ log'[s] \in Logs /\ Extends(log[s], log'[s])
  BY <1>2 DEF WInv, Typed, LogKept, LogStep
<1> HIDE DEF s
<1>4. Held(log'[s], t, y)
  <2>1. CASE Alike(run[h], t) /\ Likewise(obj[h], y)
    <3>1. Held(log[s], t, y) BY <2>1, <1>2, <1>3, HeldAlike
    <3> QED BY <3>1, <1>3, HeldGrows
  <2>2. CASE ~Listens(t.pc) /\ y = NoObject BY <2>2, HeldNothing
  <2> QED BY <2>1, <2>2
<1>5. Held(log'[Session(h)], t, y) BY <1>4 DEF s
<1> QED BY <1>1, <1>5, ActorStep

(* The same when the object stays as it is. *)
LEMMA RunMoves ==
    ASSUME WInv, QuietTable, Flagged', LogKept,
           NEW h \in Leases, run[h].pc # "none", NEW t \in RunTypes,
           run' = [run EXCEPT ![h] = t], obj' = obj,
           Fits(t.pc, obj[h]), t.behind # {} => t.pc = "wait", Alike(run[h], t)
    PROVE  WInv'
<1>1. obj[h] \in ObjTypes /\ obj' = [obj EXCEPT ![h] = obj[h]] BY DEF WInv, Typed
<1>2. Likewise(obj[h], obj[h]) BY DEF Likewise
<1> QED BY <1>1, <1>2, ActorMoves

(* The same when the run stays where it is. *)
LEMMA ObjMoves ==
    ASSUME WInv, QuietTable, Flagged', LogKept,
           NEW h \in Leases, run[h].pc # "none", NEW y \in ObjTypes,
           run' = run, obj' = [obj EXCEPT ![h] = y],
           Fits(run[h].pc, y), Likewise(obj[h], y)
    PROVE  WInv'
<1>1. run[h] \in RunTypes /\ run' = [run EXCEPT ![h] = run[h]] /\ Placed(h) BY DEF WInv, Typed
<1>2. Alike(run[h], run[h]) BY DEF Alike
<1> QED BY <1>1, <1>2, ActorMoves DEF Placed

(* A run goes elsewhere. *)
LEMMA Going ==
    ASSUME NEW r \in RunTypes, NEW pc \in Places, NEW t, t = [r EXCEPT !.pc = pc]
    PROVE  /\ t \in RunTypes /\ t.pc = pc /\ t.behind = r.behind /\ t.seen = r.seen
           /\ t.out = r.out /\ t.items = r.items /\ t.cur = r.cur
BY DEF RunTypes

(* What is known of a run that is there. *)
LEMMA Here ==
    ASSUME WInv, NEW h \in Leases, run[h].pc # "none"
    PROVE  /\ Session(h) \in Sessions /\ Fits(run[h].pc, obj[h])
           /\ run[h].behind # {} => run[h].pc = "wait"
           /\ run \in [Leases -> RunTypes] /\ obj \in [Leases -> ObjTypes]
           /\ run[h] \in RunTypes /\ obj[h] \in ObjTypes
           /\ Held(log[Session(h)], run[h], obj[h])
           /\ log[Session(h)] \in Logs /\ cursor[Session(h)] \in Nat
           /\ PrefixDealt(log[Session(h)], cursor[Session(h)])
BY DEF WInv, Typed, Placed, Holds, LogInv

(* An object that is there is that of a run. *)
LEMMA ObjectHasRun ==
    ASSUME WInv, NEW h \in Leases, obj[h].state # "none"
    PROVE  run[h].pc # "none" /\ (Listens(run[h].pc) \/ run[h].pc \in {"close", "closing"})
BY DEF WInv, Placed, Fits, Listens

(* Steps that change nothing but runs and objects. *)
LEMMA NoChange ==
    ASSUME WInv, UNCHANGED <<tableVars, logVars, apiVars, dropped>>
    PROVE  QuietTable /\ Flagged' /\ LogKept
<1>1. LogKept BY LogSame DEF logVars
<1> QED BY <1>1 DEF QuietTable, WInv, Flagged, logVars, apiVars

-----------
(* The run, outside the feed loop. *)
LEMMA GotoStep ==
    ASSUME WInv, NEW h \in Leases, NEW pc \in Places, Goto(h, pc),
           QuietTable, Flagged', LogKept, obj' = obj,
           run[h].pc \notin {"none", "wait"}, pc \notin {"feed", "cancel"},
           Listens(run[h].pc) \/ run[h].pc \in {"close", "closing"} <=>
              Listens(pc) \/ pc \in {"close", "closing"},
           Listens(pc) => Listens(run[h].pc) /\ run[h].pc # "cancel"
    PROVE  WInv'
<1> DEFINE t == [run[h] EXCEPT !.pc = pc]
<1>1. run[h] \in RunTypes /\ Fits(run[h].pc, obj[h]) /\ run[h].behind = {} BY Here
<1>2. /\ t \in RunTypes /\ t.pc = pc /\ t.behind = run[h].behind /\ t.seen = run[h].seen
      /\ t.out = run[h].out /\ t.items = run[h].items /\ t.cur = run[h].cur
  BY <1>1, Going
<1>3. run' = [run EXCEPT ![h] = t] BY DEF Goto
<1> HIDE DEF t
<1>4. Alike(run[h], t) BY <1>2 DEF Alike
<1>5. Fits(t.pc, obj[h]) BY <1>1, <1>2 DEF Fits
<1> QED BY <1>1, <1>2, <1>3, <1>4, <1>5, RunMoves

(* A run lists itself, or waits. *)
LEMMA EnterStep ==
    ASSUME WInv, NEW h \in Leases, Enter(h)
    PROVE  WInv'
<1>1. run[h].pc = "start" /\ UNCHANGED <<tableVars, logVars, apiVars, obj, dropped>>
  BY DEF Enter
<1>2. run[h] \in RunTypes /\ Fits(run[h].pc, obj[h]) BY <1>1, Here
<1>3. PICK t : /\ run' = [run EXCEPT ![h] = t]
               /\ \/ t = [run[h] EXCEPT !.pc = "pass", !.listed = TRUE]
                  \/ t = [run[h] EXCEPT !.pc = "wait", !.behind = Listed(Host(h), Session(h))]
  BY DEF Enter
<1>4. Listed(Host(h), Session(h)) \in SUBSET Leases BY DEF Listed
<1>5. /\ t \in RunTypes /\ t.pc \in {"pass", "wait"} /\ (t.pc = "pass" => t.behind = run[h].behind)
      /\ t.seen = run[h].seen /\ t.out = run[h].out /\ t.cur = run[h].cur
  BY <1>2, <1>3, <1>4, ZenonT(60) DEF RunTypes, Places
<1>6. Alike(run[h], t) /\ Fits(t.pc, obj[h]) BY <1>1, <1>2, <1>5 DEF Alike, Fits, Listens
<1>7. run[h].behind = {} BY <1>1, Here
<1> QED BY <1>1, <1>3, <1>5, <1>6, <1>7, NoChange, RunMoves

(* A pass begins. *)
LEMMA PassStep ==
    ASSUME WInv, NEW h \in Leases, Pass(h)
    PROVE  WInv'
<1>1. /\ run[h].pc = "pass" /\ UNCHANGED <<tableVars, log, cursor, intr, apiVars, obj, dropped>>
      /\ run' = [run EXCEPT ![h] = [run[h] EXCEPT !.pc = "read", !.wake = FALSE]]
      /\ turnOpen' = [turnOpen EXCEPT ![Session(h)] = @ /\ intr[Session(h)]]
  BY DEF Pass
<1>2. /\ run[h] \in RunTypes /\ Fits(run[h].pc, obj[h]) /\ Session(h) \in Sessions
      /\ run[h].behind = {}
  BY <1>1, Here
<1>3. PICK t : t = [run[h] EXCEPT !.pc = "read", !.wake = FALSE] OBVIOUS
<1>4. /\ t \in RunTypes /\ t.pc = "read" /\ t.behind = run[h].behind
      /\ t.seen = run[h].seen /\ t.out = run[h].out /\ t.cur = run[h].cur
  BY <1>2, <1>3 DEF RunTypes, Places
<1>5. Alike(run[h], t) /\ Fits(t.pc, obj[h]) BY <1>1, <1>2, <1>4 DEF Alike, Fits, Listens
<1>6. Flagged'
  <2>1. turnOpen' \in [Sessions -> BOOLEAN] BY <1>1, <1>2 DEF WInv, Flagged
  <2> QED BY <1>1, <2>1 DEF WInv, Flagged, apiVars
<1>7. QuietTable BY <1>1 DEF QuietTable
<1>8. LogKept BY <1>1, LogSame
<1> QED BY <1>1, <1>2, <1>3, <1>4, <1>5, <1>6, <1>7, <1>8, RunMoves

(* A read may overlook what is behind its page, and then is marked so. *)
LEMMA PageReadIs ==
    ASSUME WInv, NEW h \in Leases, NEW from, PageRead(h, from), Session(h) \in Sessions
    PROVE  LET s == Session(h) IN
           /\ dropped' \in [Sessions -> {"no", "late", "stop", "error", "page"}]
           /\ dropped' = dropped \/ dropped' = [dropped EXCEPT ![s] = "page"]
           /\ \A u \in Sessions \ {s} : dropped'[u] = dropped[u]
           /\ dropped[s] # "no" => dropped'[s] # "no"
           /\ ~Halted(h) /\ Overlooks(s, from) => dropped'[s] # "no"
BY DEF PageRead, WInv, Flagged

LEMMA PageReadCalm ==
    ASSUME WInv, NEW h \in Leases, NEW from, PageRead(h, from), Session(h) \in Sessions,
           UNCHANGED <<tableVars, logVars, apiVars>>
    PROVE  QuietTable /\ Flagged' /\ LogKept
<1>1. Flagged' BY PageReadIs DEF WInv, Flagged, logVars, apiVars
<1> QED BY <1>1, LogSame DEF QuietTable, logVars

(* Steps that only go elsewhere. *)
LEMMA GoingSteps ==
    ASSUME WInv, NEW h \in Leases,
           ReadNothing(h) \/ ReadWork(h) \/ HoldEnds(h)
    PROVE  WInv'
<1>1. CASE ReadNothing(h)
  <2>1. /\ run[h].pc = "read" /\ Goto(h, "after") /\ "after" \in Places
        /\ UNCHANGED <<tableVars, logVars, apiVars, obj>>
        /\ PageRead(h, cursor[Session(h)])
    BY <1>1 DEF ReadNothing, Places
  <2>2. QuietTable /\ Flagged' /\ LogKept BY <2>1, Here, PageReadCalm
  <2> QED BY <2>1, <2>2, GotoStep DEF Listens
<1>2. CASE ReadWork(h)
  <2>1. /\ run[h].pc = "read" /\ Goto(h, "open") /\ "open" \in Places
        /\ UNCHANGED <<tableVars, logVars, apiVars, obj, dropped>>
    BY <1>2 DEF ReadWork, Places
  <2> QED BY <2>1, NoChange, GotoStep DEF Listens
<1>3. CASE HoldEnds(h)
  <2>1. /\ run[h].pc = "hold" /\ Goto(h, IF Halted(h) THEN "close" ELSE "step")
        /\ UNCHANGED <<tableVars, logVars, apiVars, obj, dropped>>
    BY <1>3 DEF HoldEnds
  <2>2. PICK pc \in {"close", "step"} : Goto(h, pc) BY <2>1
  <2>3. pc \in Places BY DEF Places
  <2>4. QuietTable /\ Flagged' /\ LogKept BY <2>1, NoChange
  <2> QED BY <2>1, <2>2, <2>3, <2>4, GotoStep DEF Listens
<1> QED BY <1>1, <1>2, <1>3

(* A run fails outside a turn. *)
LEMMA FailsStep ==
    ASSUME WInv, NEW h \in Leases, Fails(h)
    PROVE  WInv'
<1>1. /\ run[h].pc \in {"pass", "read", "open"} /\ Goto(h, "finish") /\ "finish" \in Places
      /\ UNCHANGED <<row, lease, calls, logVars, apiVars, obj>>
      /\ faults' = faults \/ faults' = faults + 1
      /\ dropped' = [dropped EXCEPT ![Session(h)] = "error"]
  BY DEF Fails, Places
<1>2. QuietTable BY <1>1 DEF QuietTable, tableVars
<1>3. Flagged' BY <1>1 DEF WInv, Flagged, logVars, apiVars
<1>4. LogKept BY <1>1, LogSame DEF logVars
<1> QED BY <1>1, <1>2, <1>3, <1>4, GotoStep DEF Listens

(* The last look at the wake. *)
LEMMA AfterStep ==
    ASSUME WInv, NEW h \in Leases, After(h)
    PROVE  WInv'
<1>1. run[h].pc = "after" /\ UNCHANGED <<tableVars, logVars, apiVars, obj, dropped>>
  BY DEF After
<1>2. run[h] \in RunTypes /\ Fits(run[h].pc, obj[h]) /\ run[h].behind = {} BY <1>1, Here
<1>3. PICK t : /\ run' = [run EXCEPT ![h] = t]
               /\ \/ t = [run[h] EXCEPT !.wake = FALSE, !.pc = "pass"]
                  \/ t = [run[h] EXCEPT !.wake = FALSE, !.pc = "finish"]
  <2>1. CASE run[h].wake /\ ~Halted(h) BY <2>1 DEF After
  <2>2. CASE ~(run[h].wake /\ ~Halted(h)) BY <2>2 DEF After
  <2> QED BY <2>1, <2>2
<1>4. /\ t \in RunTypes /\ t.pc \in {"pass", "finish"} /\ t.behind = run[h].behind
      /\ t.seen = run[h].seen /\ t.out = run[h].out /\ t.cur = run[h].cur
  BY <1>2, <1>3 DEF RunTypes, Places
<1>5. Alike(run[h], t) /\ Fits(t.pc, obj[h]) BY <1>1, <1>2, <1>4 DEF Alike, Fits, Listens
<1> QED BY <1>1, <1>2, <1>3, <1>4, <1>5, NoChange, RunMoves

(* A run gives its lease back. *)
LEMMA FinishStep ==
    ASSUME WInv, NEW h \in Leases, Finish(h)
    PROVE  WInv'
<1>1. /\ run[h].pc = "finish" /\ UNCHANGED <<logVars, apiVars, obj>>
      /\ UNCHANGED tableVars \/ ReleaseSend(h)
      /\ run' = [run EXCEPT ![h] = [run[h] EXCEPT !.pc = "release", !.listed = FALSE]]
      /\ dropped' = dropped \/ dropped' = [dropped EXCEPT ![Session(h)] = "stop"]
  BY DEF Finish
<1>2. run[h] \in RunTypes /\ Fits(run[h].pc, obj[h]) /\ run[h].behind = {} BY <1>1, Here
<1>3. PICK t : t = [run[h] EXCEPT !.pc = "release", !.listed = FALSE] OBVIOUS
<1>4. /\ t \in RunTypes /\ t.pc = "release" /\ t.behind = run[h].behind
      /\ t.seen = run[h].seen /\ t.out = run[h].out /\ t.cur = run[h].cur
  BY <1>2, <1>3 DEF RunTypes, Places
<1>5. Alike(run[h], t) /\ Fits(t.pc, obj[h]) BY <1>1, <1>2, <1>4 DEF Alike, Fits, Listens
<1>6. Flagged' BY <1>1 DEF WInv, Flagged, logVars, apiVars
<1>7. QuietTable BY <1>1 DEF QuietTable
<1>8. LogKept BY <1>1, LogSame DEF logVars
<1> QED BY <1>1, <1>2, <1>3, <1>4, <1>5, <1>6, <1>7, <1>8, RunMoves

-----------
(* ActorStep for a step that the work table hardly notices. *)
LEMMA RunsOn ==
    ASSUME WInv, QuietTable, Flagged', LogKept,
           NEW h \in Leases, run[h].pc # "none",
           NEW t \in RunTypes, NEW y \in ObjTypes,
           run' = [run EXCEPT ![h] = t], obj' = [obj EXCEPT ![h] = y],
           Fits(t.pc, y), t.behind = run[h].behind, run[h].pc # "wait",
           Held(log'[Session(h)], t, y)
    PROVE  WInv'
<1>1. IInv' /\ SessionsKept BY QuietTableStep DEF WInv
<1>2. t.behind = {} BY Here
<1> QED BY <1>1, <1>2, ActorStep

(* Where holdOpen leads. *)
LEMMA HoldOrCloseWhere ==
    ASSUME NEW h
    PROVE  HoldOrClose(h) \in {"step", "hold", "close"}
BY DEF HoldOrClose

(* holdOpen decides. *)
LEMMA HoldingStep ==
    ASSUME WInv, NEW h \in Leases, run[h].pc \in {"put", "feed"},
           run' = [run EXCEPT ![h] = [@ EXCEPT !.pc = HoldOrClose(h), !.settled = FALSE]],
           UNCHANGED <<tableVars, logVars, apiVars, obj, dropped>>
    PROVE  WInv'
<1>2. run[h] \in RunTypes /\ Fits(run[h].pc, obj[h]) /\ run[h].behind = {} BY Here
<1>3. PICK pc \in {"step", "hold", "close"} : pc = HoldOrClose(h) BY HoldOrCloseWhere
<1>4. PICK t : t = [run[h] EXCEPT !.pc = pc, !.settled = FALSE] OBVIOUS
<1>5. run' = [run EXCEPT ![h] = t] BY <1>3, <1>4
<1>6. /\ t \in RunTypes /\ t.pc = pc /\ t.behind = run[h].behind
      /\ t.seen = run[h].seen /\ t.out = run[h].out /\ t.cur = run[h].cur
  BY <1>2, <1>4 DEF RunTypes, Places
<1>7. Alike(run[h], t) /\ Fits(t.pc, obj[h]) BY <1>2, <1>6 DEF Alike, Fits, Listens
<1> QED BY <1>2, <1>5, <1>6, <1>7, NoChange, RunMoves

(* The two steps in which it does so on its own. *)
LEMMA HoldingSteps ==
    ASSUME WInv, NEW h \in Leases, CursorStored(h) \/ FeedPaused(h)
    PROVE  WInv'
BY HoldingStep DEF CursorStored, FeedPaused

(* A page of the inbox, in the order of the log and with nothing left out. *)
LEMMA PageFinite ==
    ASSUME WInv, NEW s \in Sessions, NEW c \in Nat
    PROVE  /\ PageAfter(s, c) \in SUBSET (1..Len(log[s])) /\ IsFiniteSet(1..Len(log[s]))
           /\ Len(log[s]) \in Nat /\ DOMAIN log[s] = 1..Len(log[s])
<1>1. log[s] \in Logs BY DEF WInv, Typed
<1>2. Len(log[s]) \in Nat /\ DOMAIN log[s] = 1..Len(log[s]) BY <1>1, LenProperties DEF Logs
<1>3. IsFiniteSet(1..Len(log[s]))
  <2> DEFINE n == Len(log[s])
  <2> HIDE DEF n
  <2>1. n \in Nat BY <1>2 DEF n
  <2>2. IsFiniteSet(1..n) BY <2>1, FS_Interval
  <2> QED BY <2>2 DEF n
<1>4. PageAfter(s, c) \in SUBSET (1..Len(log[s])) BY <1>2 DEF PageAfter
<1> QED BY <1>2, <1>3, <1>4

(* A read of the inbox is a page of it, less what is excluded. *)
LEMMA ReadPage ==
    ASSUME WInv, NEW s \in Sessions, NEW c \in Nat, NEW a \in Seq(Nat)
    PROVE  PageOf(log[s], readInbox(s, c, ToSet(a)), c, a)
<1> DEFINE S == {p \in PageAfter(s, c) : Kind(s, p) \in InboxKinds /\ p \notin ToSet(a)}
           q == readInbox(s, c, ToSet(a))
           l == log[s]
<1>1. /\ PageAfter(s, c) \in SUBSET (1..Len(l)) /\ IsFiniteSet(1..Len(l))
      /\ Len(l) \in Nat /\ DOMAIN l = 1..Len(l)
  BY PageFinite
<1>2. \A p : p \in ToSet(a) <=> \E j \in 1..Len(a) : a[j] = p BY DEF ToSet
<1>3. S \in SUBSET (1..Len(l)) /\ IsFiniteSet(S) /\ S \in SUBSET Nat
  <2>1. S \in SUBSET (1..Len(l)) BY <1>1
  <2>2. S \in SUBSET Nat BY <1>1, <2>1
  <2>3. IsFiniteSet(S)
    <3> DEFINE D == 1..Len(l)
    <3>1. S \in SUBSET D /\ IsFiniteSet(D) BY <1>1, <2>1
    <3> HIDE DEF S, D
    <3> QED BY <3>1, FS_Subset
  <2> QED BY <2>1, <2>2, <2>3
<1>4. \A p : p \in S <=> /\ p \in 1..Len(l) /\ c < p /\ p <= c + PageSize
                         /\ l[p].kind \in InboxKinds
                         /\ \A j \in 1..Len(a) : a[j] # p
  BY <1>1, <1>2 DEF PageAfter, Kind
<1>5. q = InLogOrder(S) BY DEF readInbox
<1>6. Lists(q, S)
  <2> HIDE DEF S
  <2> QED BY <1>3, <1>5, Ranked
<1> HIDE DEF q, S
<1>7. q \in Seq(Nat) /\ Ascends(q) /\ Len(q) \in Nat /\ \A i \in 1..Len(q) : q[i] \in S /\ q[i] \in Nat
  BY <1>6 DEF Lists
<1>8. PageSize \in Nat BY WorkerBounds DEF PageSize
<1>9. ASSUME NEW i \in 1..Len(q), NEW p \in 1..Len(l),
             c < p, p < q[i], l[p].kind \in InboxKinds, \A j \in 1..Len(a) : a[j] # p
      PROVE  \E j \in 1..Len(q) : q[j] = p
  <2>1. q[i] <= c + PageSize /\ q[i] \in Nat /\ p \in Nat BY <1>4, <1>7
  <2>2. p <= c + PageSize BY <2>1, <1>8, <1>9
  <2>3. p \in S BY <2>2, <1>4, <1>9
  <2> QED BY <2>1, <2>3, <1>6 DEF Lists
<1>10. PageOf(l, q, c, a) BY <1>4, <1>7, <1>9 DEF PageOf
<1> QED BY <1>10 DEF q, l

(* Stepping over cancels passes nothing else. *)
LEMMA StepOverCancelsStep ==
    ASSUME WInv, NEW h \in Leases, StepOverCancels(h)
    PROVE  WInv'
<1> DEFINE s == Session(h)
           q == Unread(h)
           l == log[s]
           c == cursor[s]
<1>1. /\ run[h].pc = "read" /\ q # <<>> /\ OnlyCancels(h)
      /\ cursor' = [cursor EXCEPT ![s] = Last(q)]
      /\ UNCHANGED <<tableVars, log, intr, turnOpen, apiVars, run, obj, dropped>>
  BY DEF StepOverCancels
<1>2. s \in Sessions /\ c \in Nat /\ l \in Logs /\ PrefixDealt(l, c) BY <1>1, Here
<1>3. PageOf(l, q, c, <<>>)
  <2>1. readInbox(s, c, ToSet(<<>>)) = q BY DEF Unread, ToSet
  <2>2. <<>> \in Seq(Nat) OBVIOUS
  <2> HIDE DEF q, s
  <2> QED BY <1>2, <2>1, <2>2, ReadPage
<1>4. \A i \in DOMAIN q : l[q[i]].kind = "cancel" BY <1>1 DEF OnlyCancels, Kind
<1> HIDE DEF q, s, l, c
<1>5. q \in Seq(Nat) /\ Len(q) \in 1..Len(q) /\ Last(q) = q[Len(q)] /\ DOMAIN q = 1..Len(q)
  BY <1>1, <1>3 DEF PageOf, Last
<1>6. q[Len(q)] \in 1..Len(l) /\ c < q[Len(q)] /\ Len(l) \in Nat
  BY <1>2, <1>3, <1>5 DEF PageOf, Logs
<1>7. PICK n : n = q[Len(q)] OBVIOUS
<1>8. ASSUME NEW p \in 1..n, l[p].kind = "input" PROVE Dealt(l, p, n)
  <2>1. CASE p = n BY <2>1, <1>4, <1>5, <1>7, <1>8
  <2>2. CASE p < n
    <3>1. n \in (p + 1)..n /\ l[n].kind = "cancel" BY <2>2, <1>4, <1>5, <1>6, <1>7
    <3>2. Between(l, p, n, "cancel") BY <3>1 DEF Between
    <3> QED BY <3>2 DEF Dealt
  <2> QED BY <2>1, <2>2, <1>6, <1>7
<1>9. PrefixDealt(l, n) /\ n \in Nat BY <1>6, <1>7, <1>8 DEF PrefixDealt
<1>10. LogKept BY <1>1, <1>2, <1>5, <1>7, <1>9, CursorStep DEF l
<1>11. QuietTable /\ Flagged' /\ obj' = obj /\ run' = run
  BY <1>1 DEF QuietTable, WInv, Flagged, apiVars
<1> QED BY <1>10, <1>11, NoRunMoves

-----------
(* close: no more runs, and the object is what it was otherwise. *)
LEMMA CloseStep ==
    ASSUME WInv, NEW h \in Leases, Close(h)
    PROVE  WInv'
<1>1. run[h].pc = "close" /\ Goto(h, "closing")
      /\ UNCHANGED <<tableVars, logVars, apiVars, dropped>>
  BY DEF Close
<1>2. /\ run[h] \in RunTypes /\ Fits(run[h].pc, obj[h]) /\ run[h].behind = {}
      /\ obj[h] \in ObjTypes
  BY <1>1, Here
<1>3. PICK t : t = [run[h] EXCEPT !.pc = "closing"] OBVIOUS
<1>4. PICK y : y = [Aborted(obj[h]) EXCEPT !.closing = TRUE] OBVIOUS
<1>5. run' = [run EXCEPT ![h] = t] /\ obj' = [obj EXCEPT ![h] = y]
  BY <1>1, <1>3, <1>4 DEF Goto, Close
<1>6. /\ t \in RunTypes /\ t.pc = "closing" /\ t.behind = run[h].behind
      /\ t.seen = run[h].seen /\ t.out = run[h].out /\ t.cur = run[h].cur
  <2>1. "closing" \in Places BY DEF Places
  <2> QED BY <1>2, <1>3, <2>1, Going
<1>7. y \in ObjTypes /\ y.bus = obj[h].bus /\ y.answering = obj[h].answering /\ y.state = obj[h].state
  BY <1>2, <1>4 DEF ObjTypes, Aborted
<1>8. Alike(run[h], t) /\ Likewise(obj[h], y) BY <1>6, <1>7 DEF Alike, Likewise, Listens
<1>9. Fits(t.pc, y)
  <2>1. obj[h].state # "none" BY <1>1, <1>2 DEF Fits
  <2> QED BY <2>1, <1>6, <1>7 DEF Fits
<1> QED BY <1>1, <1>2, <1>5, <1>6, <1>7, <1>8, <1>9, NoChange, ActorMoves

(* The object is gone. *)
LEMMA ClosedStep ==
    ASSUME WInv, NEW h \in Leases, Closed(h)
    PROVE  WInv'
<1>1. /\ run[h].pc = "closing" /\ UNCHANGED <<tableVars, logVars, apiVars, dropped>>
      /\ obj' = [obj EXCEPT ![h] = NoObject]
      /\ Goto(h, IF run[h].cancelled THEN "read" ELSE "after")
  BY DEF Closed
<1>2. /\ run[h] \in RunTypes /\ run[h].behind = {} BY <1>1, Here
<1>3. PICK pc \in {"read", "after"} : Goto(h, pc) BY <1>1
<1>4. PICK t : t = [run[h] EXCEPT !.pc = pc] OBVIOUS
<1>5. /\ t \in RunTypes /\ t.pc = pc /\ t.behind = run[h].behind
  <2>1. pc \in Places BY DEF Places
  <2> QED BY <1>2, <1>4, <2>1, Going
<1>6. run' = [run EXCEPT ![h] = t] BY <1>3, <1>4 DEF Goto
<1>7. Fits(t.pc, NoObject) /\ ~Listens(t.pc) /\ NoObject \in ObjTypes
  BY <1>5, Nothing DEF Fits, Listens
<1> QED BY <1>1, <1>2, <1>5, <1>6, <1>7, NoChange, ActorMoves

(* A session object is opened at the cursor. *)
LEMMA OpenStep ==
    ASSUME WInv, NEW h \in Leases, Open(h)
    PROVE  WInv'
<1> DEFINE s == Session(h)
           c == cursor[s]
<1>1. /\ run[h].pc = "open"
      /\ obj' = [obj EXCEPT ![h] = [NoObject EXCEPT !.state = IF intr[s] THEN "paused" ELSE "idle"]]
      /\ run' = [run EXCEPT ![h] =
                    [@ EXCEPT !.pc = "step", !.seen = {}, !.out = <<>>, !.items = <<>>,
                              !.cur = cursor[s], !.resuming = FALSE,
                              !.cancelled = FALSE, !.settled = FALSE]]
      /\ turnOpen' = [turnOpen EXCEPT ![s] = @ /\ intr[s]]
      /\ UNCHANGED <<tableVars, log, cursor, intr, apiVars, dropped>>
  BY DEF Open
<1>2. /\ s \in Sessions /\ run[h] \in RunTypes /\ run[h].behind = {} /\ c \in Nat
      /\ log[s] \in Logs /\ PrefixDealt(log[s], c) /\ run \in [Leases -> RunTypes]
  BY <1>1, Here
<1> HIDE DEF s, c
<1>3. PICK t : t = [run[h] EXCEPT !.pc = "step", !.seen = {}, !.out = <<>>, !.items = <<>>,
                              !.cur = c, !.resuming = FALSE,
                              !.cancelled = FALSE, !.settled = FALSE]
  OBVIOUS
<1>4. PICK y : y = [NoObject EXCEPT !.state = IF intr[s] THEN "paused" ELSE "idle"] OBVIOUS
<1>5. run' = [run EXCEPT ![h] = t] /\ obj' = [obj EXCEPT ![h] = y]
  BY <1>1, <1>2, <1>3, <1>4 DEF c
<1>6. t \in RunTypes /\ t.pc = "step" /\ t.seen = {} /\ t.out = <<>> /\ t.cur = c
      /\ t.behind = run[h].behind
  <2>1. <<>> \in Seq(Nat) /\ {} \in SUBSET Nat /\ "step" \in Places BY DEF Places
  <2>2. \A r \in RunTypes : \A n \in Nat :
           LET u == [r EXCEPT !.pc = "step", !.seen = {}, !.out = <<>>, !.items = <<>>,
                              !.cur = n, !.resuming = FALSE,
                              !.cancelled = FALSE, !.settled = FALSE]
           IN u \in RunTypes /\ u.pc = "step" /\ u.seen = {} /\ u.out = <<>> /\ u.cur = n
              /\ u.behind = r.behind
    BY <2>1, ZenonT(60) DEF RunTypes
  <2> QED BY <1>2, <1>3, <2>2
<1>7. y \in ObjTypes /\ y.bus = <<>> /\ y.answering = 0 /\ y.state \in {"paused", "idle"}
  <2>1. PICK st \in {"paused", "idle"} : y = [NoObject EXCEPT !.state = st] BY <1>4
  <2>2. <<>> \in Seq(Nat) /\ 0 \in Nat OBVIOUS
  <2>3. \A x \in ObjTypes : \A a \in {"paused", "idle"} :
           LET z == [x EXCEPT !.state = a]
           IN z \in ObjTypes /\ z.bus = x.bus /\ z.answering = x.answering /\ z.state = a
    BY DEF ObjTypes
  <2> QED BY <2>1, <2>3, Nothing
<1>8. Held(log[s], t, y) BY <1>2, <1>6, <1>7, OpenHeld
<1>9. Fits(t.pc, y) BY <1>6, <1>7 DEF Fits, Listens
<1>10. Flagged'
  <2>1. turnOpen' \in [Sessions -> BOOLEAN] BY <1>1, <1>2 DEF WInv, Flagged
  <2> QED BY <1>1, <2>1 DEF WInv, Flagged, apiVars
<1>11. QuietTable /\ LogKept BY <1>1, LogSame DEF QuietTable
<1>12. Held(log'[Session(h)], t, y) BY <1>1, <1>8 DEF s
<1> QED BY <1>1, <1>2, <1>5, <1>6, <1>7, <1>9, <1>10, <1>11, <1>12, RunsOn

(* The top of the feed loop: a page behind what is outstanding. *)
LEMMA StepStep ==
    ASSUME WInv, NEW h \in Leases, Step(h)
    PROVE  WInv'
<1> DEFINE s == Session(h)
           q == readInbox(s, run[h].cur, ToSet(run[h].out))
<1>1. /\ run[h].pc = "step" /\ UNCHANGED <<tableVars, logVars, apiVars, obj>>
      /\ PageRead(h, run[h].cur)
  BY DEF Step
<1>2. /\ s \in Sessions /\ run[h] \in RunTypes /\ run[h].behind = {} /\ log[s] \in Logs
      /\ Fits(run[h].pc, obj[h]) /\ obj[h] \in ObjTypes /\ Held(log[s], run[h], obj[h])
      /\ obj \in [Leases -> ObjTypes]
  BY <1>1, Here
<1>3. QuietTable /\ Flagged' /\ LogKept BY <1>1, <1>2, PageReadCalm
<1>4. CASE Halted(h)
  <2>1. Goto(h, "close") /\ "close" \in Places BY <1>4 DEF Step, Goto, Places
  <2> QED BY <1>1, <1>3, <2>1, GotoStep DEF Listens
<1>5. CASE ~Halted(h)
  <2>1. PICK t : t = [run[h] EXCEPT !.pc = "feed", !.wake = FALSE, !.items = q] OBVIOUS
  <2>2. run' = [run EXCEPT ![h] = t] BY <1>5, <2>1 DEF Step
  <2>3. run[h].cur \in Nat /\ run[h].out \in Seq(Nat) BY <1>2 DEF RunTypes
  <2>4. PageOf(log[s], q, run[h].cur, run[h].out)
    <3> HIDE DEF s
    <3> QED BY <1>2, <2>3, ReadPage
  <2> HIDE DEF q, s
  <2>5. q \in Seq(Nat) BY <2>4 DEF PageOf
  <2>6. /\ t \in RunTypes /\ t.pc = "feed" /\ t.seen = run[h].seen /\ t.out = run[h].out
        /\ t.cur = run[h].cur /\ t.items = q /\ t.behind = run[h].behind
    BY <1>2, <2>1, <2>5 DEF RunTypes, Places
  <2>7. Held(log[s], t, obj[h]) BY <1>1, <1>2, <2>4, <2>6, StepHeld
  <2>8. Held(log'[Session(h)], t, obj[h]) /\ obj' = [obj EXCEPT ![h] = obj[h]]
    BY <1>1, <1>2, <2>7 DEF s, logVars
  <2>9. Fits(t.pc, obj[h]) BY <1>1, <1>2, <2>6 DEF Fits, Listens
  <2> QED BY <1>1, <1>2, <1>3, <2>2, <2>6, <2>8, <2>9, RunsOn
<1> QED BY <1>4, <1>5

-----------
(* A cancel is fed: all that was read up to it counts as consumed. *)
LEMMA FeedCancelStep ==
    ASSUME WInv, NEW h \in Leases, FeedCancel(h)
    PROVE  WInv'
<1> DEFINE s == Session(h)
           q == run[h].items
           n == LastCancel(s, q)
           a == SubSeq(q, 1, n)
           T == run[h].seen \union ToSet(run[h].out) \union ToSet(a)
<1>1. /\ run[h].pc = "feed" /\ n # 0
      /\ UNCHANGED <<tableVars, logVars, apiVars, dropped>>
      /\ run' = [run EXCEPT ![h] = [run[h] EXCEPT !.pc = "cancel", !.out = run[h].out \o a, !.seen = T]]
      /\ obj' = [obj EXCEPT ![h] = [Aborted(obj[h]) EXCEPT !.again = FALSE]]
  BY DEF FeedCancel
<1>2. /\ s \in Sessions /\ run[h] \in RunTypes /\ run[h].behind = {} /\ log[s] \in Logs
      /\ Fits(run[h].pc, obj[h]) /\ obj[h] \in ObjTypes /\ Held(log[s], run[h], obj[h])
      /\ obj \in [Leases -> ObjTypes]
  BY <1>1, Here
<1>3. q \in Seq(Nat) /\ run[h].out \in Seq(Nat) /\ run[h].seen \in SUBSET Nat
  BY <1>2 DEF RunTypes
<1>4. n \in 1..Len(q) /\ log[s][q[n]].kind = "cancel" /\ n \in Nat /\ Len(q) \in Nat
  <2>1. n \in 0..Len(q) /\ (n # 0 => Kind(s, q[n]) = "cancel")
    <3> HIDE DEF s, q
    <3> QED BY <1>2, <1>3, Selected
  <2>2. Len(q) \in Nat BY <1>3
  <2> HIDE DEF n, q
  <2> QED BY <1>1, <2>1, <2>2 DEF Kind
<1>5. a \in Seq(Nat) /\ Len(a) = n /\ \A i \in 1..Len(a) : a[i] = q[i]
  <2>1. 1 \in 1..(Len(q) + 1) /\ n \in (1 - 1)..Len(q)
    <3> HIDE DEF n, q
    <3> QED BY <1>4
  <2> HIDE DEF n, q
  <2>2. /\ SubSeq(q, 1, n) \in Seq(Nat) /\ Len(SubSeq(q, 1, n)) = n - 1 + 1
        /\ \A i \in 1..(n - 1 + 1) : SubSeq(q, 1, n)[i] = q[1 + i - 1]
    BY <1>3, <2>1, CutOut
  <2>3. n - 1 + 1 = n /\ \A i \in 1..n : 1 + i - 1 = i BY <1>4
  <2> QED BY <2>2, <2>3
<1> HIDE DEF n, a
<1>6. ToSet(a) = {a[i] : i \in 1..Len(a)} /\ ToSet(run[h].out) = {run[h].out[i] : i \in 1..Len(run[h].out)}
      /\ ToSet(a) \in SUBSET Nat /\ ToSet(run[h].out) \in SUBSET Nat
  <2>1. \A b \in Seq(Nat) : ToSet(b) = {b[i] : i \in 1..Len(b)} /\ ToSet(b) \in SUBSET Nat
    BY DEF ToSet
  <2> QED BY <1>3, <1>5, <2>1
<1>7. T \in SUBSET Nat /\ run[h].out \o a \in Seq(Nat) BY <1>3, <1>5, <1>6
<1>t. T = run[h].seen \union {run[h].out[i] : i \in 1..Len(run[h].out)} \union {a[i] : i \in 1..Len(a)}
  BY <1>6
<1> HIDE DEF T, s
<1>8. PICK t : t = [run[h] EXCEPT !.pc = "cancel", !.out = @ \o a, !.seen = T] OBVIOUS
<1>9. PICK y : y = [Aborted(obj[h]) EXCEPT !.again = FALSE] OBVIOUS
<1>10. run' = [run EXCEPT ![h] = t] /\ obj' = [obj EXCEPT ![h] = y] BY <1>1, <1>8, <1>9
<1>11. t \in RunTypes /\ t.pc = "cancel" /\ t.seen = T /\ t.out = run[h].out \o a
       /\ t.cur = run[h].cur /\ t.behind = run[h].behind
  BY <1>2, <1>7, <1>8 DEF RunTypes, Places
<1>12. y \in ObjTypes /\ y.bus = obj[h].bus /\ y.answering = obj[h].answering /\ y.state = obj[h].state
  BY <1>2, <1>9 DEF ObjTypes, Aborted
<1>13. Held(log[s], t, y)
  <2>1. Len(a) # 0 /\ log[s][a[Len(a)]].kind = "cancel" /\ Len(a) <= Len(q) BY <1>4, <1>5
  <2> QED BY <1>1, <1>2, <1>5, <1>11, <1>12, <1>t, <2>1, CancelHeld
<1>14. Fits(t.pc, y) BY <1>1, <1>2, <1>11, <1>12 DEF Fits, Listens
<1>15. Held(log'[Session(h)], t, y) BY <1>1, <1>13 DEF s, logVars
<1> QED BY <1>1, <1>2, <1>10, <1>11, <1>12, <1>14, <1>15, NoChange, RunsOn

(* The cursor is stored where the consumed prefix ends. *)
LEMMA PutStep ==
    ASSUME WInv, NEW h \in Leases, Listens(run[h].pc), run[h].pc # "feed", CursorPut(h),
           UNCHANGED <<tableVars, log, intr, turnOpen, apiVars, dropped>>
    PROVE  QuietTable /\ Flagged' /\ LogKept
<1> DEFINE s == Session(h)
           c == Advanced(run[h]).cur
<1>1. run[h].pc # "none" BY DEF Listens
<1>2. s \in Sessions /\ run[h] \in RunTypes /\ log[s] \in Logs /\ Held(log[s], run[h], obj[h])
  BY <1>1, Here
<1>3. PrefixDealt(log[s], c) /\ c \in Nat BY <1>2, AdvancedDealt, AdvancedFacts DEF Held
<1>4. cursor' = [cursor EXCEPT ![s] = c] \/ cursor' = cursor BY DEF CursorPut
<1>5. LogKept
  <2> HIDE DEF s, c
  <2> QED BY <1>2, <1>3, <1>4, CursorStep
<1>6. QuietTable /\ Flagged' BY DEF QuietTable, WInv, Flagged, apiVars
<1> QED BY <1>5, <1>6

(* After a cancel everything up to it is consumed. *)
LEMMA CancelSettlesStep ==
    ASSUME WInv, NEW h \in Leases, CancelSettles(h)
    PROVE  WInv'
<1>1. /\ run[h].pc = "cancel" /\ CursorPut(h)
      /\ run' = [run EXCEPT ![h] = [Advanced(run[h]) EXCEPT !.pc = "close", !.cancelled = TRUE]]
      /\ UNCHANGED <<tableVars, log, intr, turnOpen, apiVars, obj, dropped>>
  BY DEF CancelSettles
<1>2. /\ run[h] \in RunTypes /\ run[h].behind = {} /\ obj[h] \in ObjTypes
      /\ Fits(run[h].pc, obj[h]) /\ obj \in [Leases -> ObjTypes]
      /\ Held(log[Session(h)], run[h], obj[h])
  BY <1>1, Here
<1>3. PICK t : t = [Advanced(run[h]) EXCEPT !.pc = "close", !.cancelled = TRUE] OBVIOUS
<1>4. t \in RunTypes /\ t.pc = "close" /\ t.behind = run[h].behind
  <2>1. Advanced(run[h]) \in RunTypes /\ Advanced(run[h]).behind = run[h].behind
    BY <1>2, AdvancedFacts
  <2> QED BY <1>3, <2>1 DEF RunTypes, Places
<1>5. Held(log'[Session(h)], t, obj[h])
  <2>1. Given(log[Session(h)], obj[h]) BY <1>2 DEF Held
  <2> QED BY <1>1, <1>4, <2>1 DEF Held, Listens
<1>6. QuietTable /\ Flagged' /\ LogKept BY <1>1, PutStep DEF Listens
<1>7. Fits(t.pc, obj[h]) /\ obj' = [obj EXCEPT ![h] = obj[h]]
  BY <1>1, <1>2, <1>4 DEF Fits, Listens
<1> QED BY <1>1, <1>2, <1>3, <1>4, <1>5, <1>6, <1>7, RunsOn

(* The feed loop wakes and advances the cursor. *)
LEMMA WakesStep ==
    ASSUME WInv, NEW h \in Leases, NEW settled \in {"idle", "woken"}, Wakes(h, settled)
    PROVE  WInv'
<1> DEFINE idle == settled = "idle"
           done == idle /\ run[h].items = <<>>
           to == IF ~done THEN "step" ELSE IF Moved(h) THEN "put" ELSE HoldOrClose(h)
           left == run[h].resuming /\ ~idle
           kept == run[h].settled /\ ~done
<1>1. /\ run[h].pc = "sleep" /\ CursorPut(h)
      /\ run' = [run EXCEPT ![h] =
           [Advanced(@) EXCEPT !.pc = to, !.resuming = left, !.settled = kept]]
      /\ UNCHANGED <<tableVars, log, intr, turnOpen, apiVars, obj, dropped>>
  BY DEF Wakes
<1>2. /\ run[h] \in RunTypes /\ run[h].behind = {} /\ obj[h] \in ObjTypes
      /\ Fits(run[h].pc, obj[h]) /\ obj \in [Leases -> ObjTypes]
      /\ Held(log[Session(h)], run[h], obj[h]) /\ log[Session(h)] \in Logs
  BY <1>1, Here
<1>3. PICK pc \in {"step", "put", "hold", "close"} : pc = to BY HoldOrCloseWhere
<1> DEFINE A == Advanced(run[h])
<1>4. /\ A \in RunTypes /\ A.behind = run[h].behind /\ A.seen = run[h].seen
  BY <1>2, AdvancedFacts
<1>5. PICK t : t = [A EXCEPT !.pc = pc, !.resuming = left, !.settled = kept] OBVIOUS
<1>6. run' = [run EXCEPT ![h] = t] BY <1>1, <1>3, <1>5
<1> HIDE DEF A, to, idle, done
<1>b. \A b, f \in BOOLEAN : (b /\ ~f) \in BOOLEAN OBVIOUS
<1>d. idle \in BOOLEAN /\ done \in BOOLEAN BY DEF idle, done
<1>7. /\ t \in RunTypes /\ t.pc = pc /\ t.behind = run[h].behind /\ t.out = A.out /\ t.cur = A.cur
      /\ t.seen = run[h].seen
  <2>1. PICK b1 \in BOOLEAN, b2 \in BOOLEAN : t = [A EXCEPT !.pc = pc, !.resuming = b1, !.settled = b2]
    <3>1. run[h].resuming \in BOOLEAN /\ run[h].settled \in BOOLEAN BY <1>2 DEF RunTypes
    <3>2. left \in BOOLEAN /\ kept \in BOOLEAN BY <3>1, <1>b, <1>d
    <3> HIDE DEF left, kept
    <3> QED BY <1>5, <3>2
  <2>2. pc \in Places BY DEF Places
  <2> QED BY <1>4, <2>1, <2>2 DEF RunTypes
<1>8. Held(log[Session(h)], t, obj[h]) BY <1>1, <1>2, <1>3, <1>7, AdvancedHeld DEF A
<1>9. QuietTable /\ Flagged' /\ LogKept BY <1>1, PutStep DEF Listens
<1>10. Fits(t.pc, obj[h]) /\ obj' = [obj EXCEPT ![h] = obj[h]]
  BY <1>1, <1>2, <1>3, <1>7 DEF Fits, Listens
<1>11. Held(log'[Session(h)], t, obj[h]) BY <1>1, <1>8
<1> QED BY <1>1, <1>2, <1>6, <1>7, <1>9, <1>10, <1>11, RunsOn

-----------
(* What is fed of a page: a first part that counts as taken, and the rest,
   or nothing of it. *)
LEMMA CutTwice ==
    ASSUME NEW q \in Seq(Nat), NEW r \in 1..(Len(q) + 1), NEW f,
           f = SubSeq(q, r, Len(q)) \/ f = <<>>
    PROVE  LET k == SubSeq(q, 1, r - 1)
               a == k \o f
           IN /\ k \in Seq(Nat) /\ f \in Seq(Nat) /\ a \in Seq(Nat) /\ Len(a) <= Len(q)
              /\ \A i \in 1..Len(a) : a[i] = q[i]
              /\ \A p : Has(k, p) <=> \E i \in 1..(r - 1) : q[i] = p
              /\ \A p : Has(f, p) => \E i \in r..Len(q) : q[i] = p
              /\ \A p : Has(a, p) <=> Has(k, p) \/ Has(f, p)
              /\ SubSeq(q, r, Len(q)) \in Seq(Nat)
<1> DEFINE k == SubSeq(q, 1, r - 1)
           e == SubSeq(q, r, Len(q))
           a == k \o f
           n == Len(q)
<1>1. n \in Nat /\ r \in Nat /\ r >= 1 /\ r <= n + 1 OBVIOUS
<1>2. k \in Seq(Nat) /\ Len(k) = r - 1 /\ \A i \in 1..(r - 1) : k[i] = q[i]
  <2>1. 1 \in 1..(n + 1) /\ r - 1 \in (1 - 1)..n BY <1>1
  <2>2. /\ SubSeq(q, 1, r - 1) \in Seq(Nat) /\ Len(SubSeq(q, 1, r - 1)) = (r - 1) - 1 + 1
        /\ \A i \in 1..((r - 1) - 1 + 1) : SubSeq(q, 1, r - 1)[i] = q[1 + i - 1]
    BY <2>1, CutOut
  <2>3. (r - 1) - 1 + 1 = r - 1 /\ \A i \in 1..(r - 1) : 1 + i - 1 = i BY <1>1
  <2> QED BY <2>2, <2>3
<1>3. e \in Seq(Nat) /\ Len(e) = n - r + 1 /\ \A i \in 1..(n - r + 1) : e[i] = q[r + i - 1]
  <2>1. n \in (r - 1)..n BY <1>1
  <2> QED BY <2>1, CutOut
<1> HIDE DEF k, e, n
<1>4. f = e \/ f = <<>> BY DEF e, n
<1>5. f \in Seq(Nat) /\ Len(f) \in Nat /\ Len(f) <= n - r + 1 /\ \A i \in 1..Len(f) : f[i] = q[r + i - 1]
  <2>1. CASE f = e BY <2>1, <1>1, <1>3
  <2>2. CASE f = <<>> BY <2>2, <1>1
  <2> QED BY <2>1, <2>2, <1>4
<1>6. /\ a \in Seq(Nat) /\ Len(a) = Len(k) + Len(f)
      /\ \A i \in 1..Len(k) : a[i] = k[i]
      /\ \A i \in 1..Len(f) : a[Len(k) + i] = f[i]
      /\ \A i \in 1..Len(a) : \/ i \in 1..Len(k) /\ a[i] = k[i]
                              \/ i - Len(k) \in 1..Len(f) /\ a[i] = f[i - Len(k)]
  BY <1>2, <1>5, Joined
<1> HIDE DEF a
<1>7. Len(a) <= n /\ \A i \in 1..Len(a) : a[i] = q[i]
  <2>1. Len(a) <= n BY <1>1, <1>2, <1>5, <1>6
  <2>2. ASSUME NEW i \in 1..Len(a) PROVE a[i] = q[i]
    <3>1. CASE i \in 1..Len(k) /\ a[i] = k[i] BY <3>1, <1>2
    <3>2. CASE i - Len(k) \in 1..Len(f) /\ a[i] = f[i - Len(k)]
      <4>1. r + (i - Len(k)) - 1 = i BY <1>1, <1>2, <1>5, <1>6
      <4> QED BY <3>2, <4>1, <1>5
    <3> QED BY <3>1, <3>2, <1>6
  <2> QED BY <2>1, <2>2
<1>8. \A p : Has(k, p) <=> \E i \in 1..(r - 1) : q[i] = p BY <1>2 DEF Has
<1>9. \A p : Has(f, p) => \E i \in r..n : q[i] = p
  <2> SUFFICES ASSUME NEW p, NEW i \in 1..Len(f), f[i] = p PROVE \E j \in r..n : q[j] = p
    BY DEF Has
  <2>1. f[i] = q[r + i - 1] BY <1>5
  <2>2. i \in Nat /\ 1 <= i /\ i <= n - r + 1 BY <1>1, <1>5
  <2>3. r + i - 1 \in r..n BY <1>1, <2>2
  <2> QED BY <2>1, <2>3
<1>10. \A p : Has(a, p) <=> Has(k, p) \/ Has(f, p)
  <2>1. ASSUME NEW p, Has(a, p) PROVE Has(k, p) \/ Has(f, p) BY <2>1, <1>6 DEF Has
  <2>2. ASSUME NEW p, Has(k, p) PROVE Has(a, p)
    <3>1. PICK i \in 1..Len(k) : k[i] = p BY <2>2 DEF Has
    <3>2. a[i] = p BY <3>1, <1>6
    <3>3. Len(k) \in Nat /\ Len(f) \in Nat /\ Len(a) = Len(k) + Len(f) /\ i \in 1..Len(k)
      BY <3>1, <1>1, <1>2, <1>5, <1>6
    <3>4. i \in 1..Len(a) BY <3>3
    <3> QED BY <3>2, <3>4 DEF Has
  <2>3. ASSUME NEW p, Has(f, p) PROVE Has(a, p)
    <3>1. PICK i \in 1..Len(f) : f[i] = p BY <2>3 DEF Has
    <3>2. a[Len(k) + i] = p BY <3>1, <1>6
    <3>3. Len(k) \in Nat /\ Len(f) \in Nat /\ Len(a) = Len(k) + Len(f) /\ i \in 1..Len(f)
      BY <3>1, <1>1, <1>2, <1>5, <1>6
    <3>4. Len(k) + i \in 1..Len(a) BY <3>3
    <3> QED BY <3>2, <3>4 DEF Has
  <2> QED BY <2>1, <2>2, <2>3
<1> QED BY <1>2, <1>3, <1>5, <1>6, <1>7, <1>8, <1>9, <1>10 DEF k, a, e, n

(* Concatenation is associative. *)
LEMMA JoinedTwice ==
    ASSUME NEW a \in Seq(Nat), NEW b \in Seq(Nat), NEW c \in Seq(Nat)
    PROVE  (a \o b) \o c = a \o (b \o c)
OBVIOUS

(* The fed items of one kind, in the order of the log. *)
LEMMA AmongFacts ==
    ASSUME NEW l \in Logs, NEW f \in Seq(Nat), NEW kind, \A p : Has(f, p) => p \in 1..Len(l)
    PROVE  /\ Among(l, f, kind) \in Seq(Nat) /\ Ascends(Among(l, f, kind))
           /\ \A p : p \in ToSet(Among(l, f, kind)) <=> Has(f, p) /\ l[p].kind = kind
           /\ \A i \in 1..Len(Among(l, f, kind)) :
                 Has(f, Among(l, f, kind)[i]) /\ l[Among(l, f, kind)[i]].kind = kind
<1> DEFINE S == {p \in ToSet(f) : l[p].kind = kind}
           q == InLogOrder(S)
           D == 1..Len(l)
<1>1. \A b \in Seq(Nat) : \A p : p \in ToSet(b) <=> Has(b, p) BY DEF ToSet, Has
<1>2. \A p : p \in S <=> Has(f, p) /\ l[p].kind = kind BY <1>1
<1> HIDE DEF S
<1>3. S \in SUBSET D /\ IsFiniteSet(D) /\ S \in SUBSET Nat
  <2>1. Len(l) \in Nat BY DEF Logs
  <2>2. IsFiniteSet(D)
    <3> DEFINE n == Len(l)
    <3> HIDE DEF n
    <3>1. IsFiniteSet(1..n) BY <2>1, FS_Interval DEF n
    <3> QED BY <3>1 DEF n
  <2>3. S \in SUBSET D BY <1>2
  <2> QED BY <2>1, <2>2, <2>3
<1>4. IsFiniteSet(S)
  <2> HIDE DEF D
  <2> QED BY <1>3, FS_Subset
<1>5. Lists(q, S) BY <1>3, <1>4, Ranked
<1>6. Among(l, f, kind) = q BY DEF Among, S
<1> HIDE DEF q
<1>7. q \in Seq(Nat) /\ Ascends(q) /\ Len(q) \in Nat BY <1>5 DEF Lists
<1>8. \A i \in 1..Len(q) : q[i] \in S BY <1>5, <1>7 DEF Lists
<1>9. \A p : p \in ToSet(q) <=> p \in S
  <2>1. \A p : p \in S => p \in Nat BY <1>3
  <2>2. \A p : Has(q, p) <=> p \in S BY <1>5, <1>8, <2>1 DEF Lists, Has
  <2> QED BY <2>2, <1>1, <1>7
<1> QED BY <1>2, <1>6, <1>7, <1>8, <1>9

-----------
(* An object that is fed has what it had and the inputs. *)
LEMMA FedObjectFacts ==
    ASSUME NEW x \in ObjTypes, NEW inputs \in Seq(Nat), NEW starts \in Nat, x.state # "none"
    PROVE  LET y == [FedObject(x, inputs, starts) EXCEPT !.again = FALSE] IN
           /\ y \in ObjTypes /\ y.bus = x.bus \o inputs /\ y.state # "none"
           /\ y.answering = IF starts # 0 THEN starts ELSE x.answering
<1> DEFINE y == [FedObject(x, inputs, starts) EXCEPT !.again = FALSE]
<1> SUFFICES /\ y \in ObjTypes /\ y.bus = x.bus \o inputs /\ y.state # "none"
             /\ y.answering = IF starts # 0 THEN starts ELSE x.answering
  OBVIOUS
<1> DEFINE u == [x EXCEPT !.bus = x.bus \o inputs]
<1>1. x.bus \o inputs \in Seq(Nat) BY DEF ObjTypes
<1>2. u \in ObjTypes /\ u.bus = x.bus \o inputs /\ u.state = x.state /\ u.answering = x.answering
  BY <1>1 DEF ObjTypes
<1> HIDE DEF u
<1>3. CASE starts # 0
  <2>1. y = [[u EXCEPT !.state = "running", !.answering = starts] EXCEPT !.again = FALSE]
    BY <1>3 DEF FedObject, u
  <2> QED BY <2>1, <1>2, <1>3 DEF ObjTypes
<1>4. CASE starts = 0
  <2>1. y = [Woken(u) EXCEPT !.again = FALSE] BY <1>4 DEF FedObject, u
  <2>2. Woken(u) = u \/ Woken(u) = [u EXCEPT !.state = "running", !.again = TRUE] BY DEF Woken
  <2>3. CASE Woken(u) = u
    <3>1. y = [u EXCEPT !.again = FALSE] BY <2>1, <2>3
    <3> QED BY <3>1, <1>2, <1>4 DEF ObjTypes
  <2>4. CASE Woken(u) = [u EXCEPT !.state = "running", !.again = TRUE]
    <3>1. y = [[u EXCEPT !.state = "running", !.again = TRUE] EXCEPT !.again = FALSE]
      BY <2>1, <2>4
    <3> QED BY <3>1, <1>2, <1>4 DEF ObjTypes
  <2> QED BY <2>2, <2>3, <2>4
<1> QED BY <1>3, <1>4

(* The inputs are queued and the answer is given. *)
LEMMA FeedStep ==
    ASSUME WInv, NEW h \in Leases, Feed(h)
    PROVE  WInv'
<1> DEFINE s == Session(h)
           l == log[s]
           q == run[h].items
           r == IF AwaitsAnswer(h) THEN FirstResume(s, q) ELSE 1
           k == SubSeq(q, 1, r - 1)
           e == SubSeq(q, r, Len(q))
           f == IF Halted(h) THEN <<>> ELSE e
           inputs == Among(l, f, "input")
           resumes == Among(l, f, "resume")
           starts == IF obj[h].state = "paused" /\ resumes # <<>> THEN Head(resumes) ELSE 0
           S == ToSet(k) \union (ToSet(resumes) \ {starts})
           x == FedObject(obj[h], inputs, starts)
           a == k \o f
<1>1. /\ run[h].pc = "feed" /\ LastCancel(s, q) = 0 /\ r # 0
      /\ obj' = [obj EXCEPT ![h] = [x EXCEPT !.again = FALSE]]
      /\ turnOpen' = [turnOpen EXCEPT ![s] = @ \/ (obj[h].state = "idle" /\ x.state = "running")]
      /\ run' = [run EXCEPT ![h] =
           [@ EXCEPT !.pc = "sleep", !.items = e,
                   !.out = run[h].out \o k \o f,
                   !.seen = run[h].seen \union ToSet(k)
                               \union (ToSet(resumes) \ {starts}),
                   !.resuming = run[h].resuming \/ resumes # <<>>]]
      /\ UNCHANGED <<tableVars, log, cursor, intr, apiVars, dropped>>
  BY ZenonT(60) DEF Feed, FedObject, Among, Kind
<1>2. /\ s \in Sessions /\ run[h] \in RunTypes /\ run[h].behind = {} /\ l \in Logs
      /\ Fits(run[h].pc, obj[h]) /\ obj[h] \in ObjTypes /\ Held(l, run[h], obj[h])
      /\ obj \in [Leases -> ObjTypes] /\ run \in [Leases -> RunTypes]
  BY <1>1, Here
<1>3. q \in Seq(Nat) /\ run[h].out \in Seq(Nat) /\ run[h].seen \in SUBSET Nat /\ Len(q) \in Nat
      /\ run[h].resuming \in BOOLEAN
  BY <1>2 DEF RunTypes
<1>4. FirstResume(s, q) \in 0..Len(q) /\ (FirstResume(s, q) # 0 => l[q[FirstResume(s, q)]].kind = "resume")
  <2>1. FirstResume(s, q) \in 0..Len(q) /\ (FirstResume(s, q) # 0 => Kind(s, q[FirstResume(s, q)]) = "resume")
    <3> HIDE DEF s, q
    <3> QED BY <1>2, <1>3, Selected
  <2> QED BY <2>1 DEF Kind
<1>5. r \in 1..(Len(q) + 1) /\ (r # 1 => r \in 1..Len(q) /\ l[q[r]].kind = "resume")
  <2> DEFINE n == FirstResume(s, q)
  <2>1. n \in 0..Len(q) /\ (n # 0 => l[q[n]].kind = "resume") /\ (r = n \/ r = 1) /\ r # 0
    BY <1>1, <1>4
  <2> HIDE DEF n, r
  <2> QED BY <2>1, <1>3
<1>6. f = e \/ f = <<>> OBVIOUS
<1> HIDE DEF r, f, s, l, q, inputs, resumes, starts, x
<1>7. /\ k \in Seq(Nat) /\ f \in Seq(Nat) /\ a \in Seq(Nat) /\ Len(a) <= Len(q)
      /\ \A i \in 1..Len(a) : a[i] = q[i]
      /\ \A p : Has(k, p) <=> \E i \in 1..(r - 1) : q[i] = p
      /\ \A p : Has(f, p) => \E i \in r..Len(q) : q[i] = p
      /\ \A p : Has(a, p) <=> Has(k, p) \/ Has(f, p)
      /\ e \in Seq(Nat)
  BY <1>3, <1>5, <1>6, CutTwice
<1> HIDE DEF k, e, a
<1>8. Reads(l, run[h]) /\ Listens(run[h].pc) BY <1>1, <1>2 DEF Held, Listens
(* The page ascends, within the log. *)
<1>9. /\ \A i \in 1..Len(q) : q[i] \in 1..Len(l) /\ q[i] \in Nat
      /\ \A i, j \in 1..Len(q) : i < j => q[i] < q[j]
  <2> DEFINE o == run[h].out
  <2>1. Lined(l, o \o q, run[h].cur) /\ o \in Seq(Nat) BY <1>1, <1>3, <1>8 DEF Reads, Line, q
  <2> HIDE DEF o
  <2>2. /\ Len(o \o q) = Len(o) + Len(q) /\ Len(o) \in Nat
        /\ \A i \in 1..Len(q) : (o \o q)[Len(o) + i] = q[i]
    BY <2>1, <1>3, Joined
  <2>3. \A i \in 1..Len(q) : Len(o) + i \in 1..Len(o \o q) BY <2>2, <1>3
  <2>4. \A i \in 1..Len(q) : q[i] \in 1..Len(l) BY <2>1, <2>2, <2>3 DEF Lined
  <2>5. ASSUME NEW i \in 1..Len(q), NEW j \in 1..Len(q), i < j PROVE q[i] < q[j]
    <3>1. Len(o) + i < Len(o) + j /\ Len(o) + i \in 1..Len(o \o q) /\ Len(o) + j \in 1..Len(o \o q)
      BY <2>2, <2>3, <2>5, <1>3
    <3>2. (o \o q)[Len(o) + i] < (o \o q)[Len(o) + j] BY <2>1, <3>1 DEF Lined
    <3> QED BY <2>2, <3>2
  <2>6. Len(l) \in Nat BY <1>2 DEF Logs
  <2>7. \A i \in 1..Len(q) : q[i] \in Nat BY <2>4, <2>6
  <2> QED BY <2>4, <2>5, <2>7
<1>10. \A p : Has(f, p) => p \in 1..Len(l)
  <2> SUFFICES ASSUME NEW p, Has(f, p) PROVE p \in 1..Len(l)
    OBVIOUS
  <2>1. PICK i \in r..Len(q) : q[i] = p BY <1>7
  <2>2. i \in 1..Len(q) BY <2>1, <1>3, <1>5
  <2> QED BY <2>1, <2>2, <1>9
<1>11. /\ inputs \in Seq(Nat) /\ Ascends(inputs)
       /\ \A i \in 1..Len(inputs) : Has(f, inputs[i]) /\ l[inputs[i]].kind = "input"
  BY <1>2, <1>7, <1>10, AmongFacts DEF inputs
<1>12. /\ resumes \in Seq(Nat)
       /\ \A p : p \in ToSet(resumes) <=> Has(f, p) /\ l[p].kind = "resume"
       /\ \A i \in 1..Len(resumes) : Has(f, resumes[i]) /\ l[resumes[i]].kind = "resume"
  BY <1>2, <1>7, <1>10, AmongFacts DEF resumes
<1>13. starts \in Nat /\ (starts # 0 => starts \in 1..Len(l) /\ l[starts].kind = "resume")
  <2>1. CASE obj[h].state = "paused" /\ resumes # <<>>
    <3>1. starts = resumes[1] /\ 1 \in 1..Len(resumes) BY <2>1, <1>12 DEF starts
    <3>2. Has(f, starts) /\ l[starts].kind = "resume" BY <3>1, <1>12
    <3>3. starts \in Nat /\ starts \in 1..Len(l) BY <3>1, <3>2, <1>10, <1>12
    <3> QED BY <3>2, <3>3
  <2>2. CASE ~(obj[h].state = "paused" /\ resumes # <<>>) BY <2>2 DEF starts
  <2> QED BY <2>1, <2>2
<1>14. \A p : p \in ToSet(k) <=> Has(k, p) BY <1>7 DEF ToSet, Has
<1>15. ASSUME NEW p \in S
       PROVE  Has(a, p) /\ (l[p].kind = "input" => Between(l, p, Len(l), "resume"))
  <2>1. CASE p \in ToSet(k)
    <3>1. Has(k, p) /\ Has(a, p) BY <2>1, <1>7, <1>14
    <3>2. PICK i \in 1..(r - 1) : q[i] = p BY <3>1, <1>7
    <3>3. i \in 1..Len(q) /\ r \in 1..Len(q) /\ l[q[r]].kind = "resume" /\ i < r
      BY <3>2, <1>3, <1>5
    <3>4. p < q[r] /\ q[r] \in 1..Len(l) /\ p \in Nat /\ q[r] \in Nat BY <3>2, <3>3, <1>9
    <3>5. q[r] \in (p + 1)..Len(l) /\ l[q[r]].kind = "resume" BY <3>3, <3>4
    <3>6. Between(l, p, Len(l), "resume") BY <3>5 DEF Between
    <3> QED BY <3>1, <3>6
  <2>2. CASE p \in ToSet(resumes) BY <2>2, <1>7, <1>12
  <2> QED BY <2>1, <2>2, <1>15
<1>16. ASSUME NEW i \in 1..Len(inputs)
       PROVE  Has(a, inputs[i]) /\ l[inputs[i]].kind = "input" /\ inputs[i] \notin S
  <2>1. Has(f, inputs[i]) /\ l[inputs[i]].kind = "input" /\ Has(a, inputs[i]) BY <1>7, <1>11
  <2>2. inputs[i] \notin ToSet(resumes) BY <2>1, <1>12
  <2>3. inputs[i] \notin ToSet(k)
    <3> SUFFICES ASSUME Has(k, inputs[i]) PROVE FALSE
      BY <1>14
    <3>1. PICK j \in 1..(r - 1) : q[j] = inputs[i] BY <1>7
    <3>2. PICK m \in r..Len(q) : q[m] = inputs[i] BY <2>1, <1>7
    <3>3. j \in 1..Len(q) /\ m \in 1..Len(q) /\ j < m BY <3>1, <3>2, <1>3, <1>5, SMTT(30)
    <3>4. q[j] < q[m] /\ q[j] \in Nat /\ q[m] \in Nat BY <3>3, <1>9
    <3> QED BY <3>1, <3>2, <3>4
  <2> QED BY <2>1, <2>2, <2>3
<1>17. PICK y : y = [x EXCEPT !.again = FALSE] OBVIOUS
<1>18. /\ y \in ObjTypes /\ y.bus = obj[h].bus \o inputs /\ y.state # "none"
       /\ y.answering = IF starts # 0 THEN starts ELSE obj[h].answering
  <2>1. obj[h].state # "none" BY <1>1, <1>2 DEF Fits, Listens
  <2>2. y = [FedObject(obj[h], inputs, starts) EXCEPT !.again = FALSE] BY <1>17 DEF x
  <2> QED BY <2>1, <2>2, <1>2, <1>11, <1>13, FedObjectFacts
<1>19. S \in SUBSET Nat
  <2>1. ASSUME NEW p \in S PROVE p \in Nat
    <3>1. Has(a, p) BY <1>15
    <3> QED BY <3>1, <1>7 DEF Has
  <2> QED BY <2>1
<1>20. run[h].out \o k \o f = run[h].out \o a /\ run[h].out \o a \in Seq(Nat)
  <2>1. run[h].out \o k \o f = run[h].out \o (k \o f)
    <3> DEFINE o == run[h].out
    <3>1. o \in Seq(Nat) /\ k \in Seq(Nat) /\ f \in Seq(Nat) BY <1>3, <1>7
    <3> HIDE DEF o
    <3>2. (o \o k) \o f = o \o (k \o f) BY <3>1, JoinedTwice
    <3> QED BY <3>2 DEF o
  <2> QED BY <2>1, <1>3, <1>7 DEF a
<1>21. run[h].seen \union ToSet(k) \union (ToSet(resumes) \ {starts}) = run[h].seen \union S
       /\ run[h].seen \union S \in SUBSET Nat
  BY <1>3, <1>19
<1> HIDE DEF S
<1>22. PICK t : t = [run[h] EXCEPT !.pc = "sleep", !.items = e, !.out = run[h].out \o a,
                                   !.seen = run[h].seen \union S,
                                   !.resuming = run[h].resuming \/ resumes # <<>>]
  OBVIOUS
<1>23. run' = [run EXCEPT ![h] = t] /\ obj' = [obj EXCEPT ![h] = y]
  BY <1>1, <1>17, <1>20, <1>21, <1>22
<1>24. /\ t \in RunTypes /\ t.pc = "sleep" /\ t.out = run[h].out \o a /\ t.cur = run[h].cur
       /\ t.seen = run[h].seen \union S /\ t.behind = run[h].behind
  <2>1. PICK b \in BOOLEAN, o \in Seq(Nat), z \in SUBSET Nat :
           /\ o = run[h].out \o a /\ z = run[h].seen \union S
           /\ t = [run[h] EXCEPT !.pc = "sleep", !.items = e, !.out = o, !.seen = z, !.resuming = b]
    BY <1>20, <1>21, <1>22
  <2> DEFINE rr == run[h]
             w == [rr EXCEPT !.pc = "sleep", !.items = e, !.out = o, !.seen = z, !.resuming = b]
  <2>2. t = w /\ rr \in RunTypes /\ e \in Seq(Nat) BY <2>1, <1>2, <1>7
  <2>3. w \in RunTypes /\ w.pc = "sleep" /\ w.out = o /\ w.cur = rr.cur /\ w.seen = z
        /\ w.behind = rr.behind
    <3> HIDE DEF rr
    <3> QED BY <2>1, <2>2 DEF RunTypes, Places
  <2> HIDE DEF w
  <2> QED BY <2>1, <2>2, <2>3
<1>25. Held(l, t, y)
  <2>1. y.answering = obj[h].answering \/ (y.answering \in 1..Len(l) /\ l[y.answering].kind = "resume")
    BY <1>13, <1>18
  <2>2. /\ run[h].pc = "feed" /\ t.pc = "sleep" /\ t.out = run[h].out \o a /\ t.cur = run[h].cur
        /\ t.seen = run[h].seen \union S /\ y.bus = obj[h].bus \o inputs
    BY <1>1, <1>18, <1>24
  <2>3. Len(a) <= Len(run[h].items) /\ \A i \in 1..Len(a) : a[i] = run[h].items[i] BY <1>7 DEF q
  <2>4. \A p \in S : Has(a, p) /\ (l[p].kind = "input" => Between(l, p, Len(l), "resume"))
    BY <1>15
  <2>5. \A i \in 1..Len(inputs) : /\ Has(a, inputs[i])
                                  /\ l[inputs[i]].kind = "input"
                                  /\ inputs[i] \notin S
    BY <1>16
  <2>6. /\ l \in Logs /\ run[h] \in RunTypes /\ t \in RunTypes /\ obj[h] \in ObjTypes
        /\ y \in ObjTypes /\ Held(l, run[h], obj[h]) /\ a \in Seq(Nat)
        /\ inputs \in Seq(Nat) /\ Ascends(inputs)
    BY <1>2, <1>7, <1>11, <1>18, <1>24
  <2>7. FedAs(l, run[h], t, obj[h], y, a, S, inputs)
    BY <2>1, <2>2, <2>3, <2>4, <2>5, <2>6 DEF FedAs
  <2> QED BY <2>6, <2>7, FeedHeld
<1>26. Held(log'[Session(h)], t, y) BY <1>1, <1>25 DEF s, l
<1>27. Fits(t.pc, y) BY <1>18, <1>24 DEF Fits, Listens
<1>28. Flagged'
  <2>1. turnOpen' \in [Sessions -> BOOLEAN] BY <1>1, <1>2 DEF WInv, Flagged
  <2> QED BY <1>1, <2>1 DEF WInv, Flagged, apiVars
<1>29. QuietTable /\ LogKept BY <1>1, LogSame DEF QuietTable
<1> QED BY <1>1, <1>2, <1>18, <1>23, <1>24, <1>26, <1>27, <1>28, <1>29, RunsOn, ZenonT(60)

-----------
(* A boundary drains the bus: the message is in the conversation. *)
LEMMA TurnTakesStep ==
    ASSUME WInv, NEW h \in Leases, TurnTakes(h)
    PROVE  WInv'
<1> DEFINE s == Session(h)
           l == log[s]
<1>1. /\ Running(h) /\ UNCHANGED <<tableVars, cursor, intr, turnOpen, apiVars, dropped>>
      /\ \E i \in DOMAIN obj[h].bus :
          LET p == obj[h].bus[i] IN
          /\ log' = [log EXCEPT ![s] = Append(@, Record("taken", p))]
          /\ obj' = [obj EXCEPT ![h].bus = RemoveAt(@, i)]
          /\ run' = IF Listening(h)
                    THEN [run EXCEPT ![h] = [@ EXCEPT !.seen = run[h].seen \union {p}, !.wake = TRUE]]
                    ELSE run
  BY DEF TurnTakes
<1>2. run[h].pc # "none" BY <1>1, ObjectHasRun DEF Running
<1>3. /\ s \in Sessions /\ run[h] \in RunTypes /\ (run[h].behind # {} => run[h].pc = "wait")
      /\ l \in Logs /\ log \in [Sessions -> Logs]
      /\ Fits(run[h].pc, obj[h]) /\ obj[h] \in ObjTypes /\ Held(l, run[h], obj[h])
      /\ obj \in [Leases -> ObjTypes] /\ run \in [Leases -> RunTypes]
  BY <1>2, Here DEF WInv, Typed
<1>4. obj[h].bus \in Seq(Nat) /\ DOMAIN obj[h].bus = 1..Len(obj[h].bus) /\ run[h].seen \in SUBSET Nat
  BY <1>3 DEF ObjTypes, RunTypes
<1>5. PICK i \in 1..Len(obj[h].bus) :
          /\ log' = [log EXCEPT ![s] = Append(@, Record("taken", obj[h].bus[i]))]
          /\ obj' = [obj EXCEPT ![h].bus = RemoveAt(@, i)]
          /\ run' = IF Listening(h)
                    THEN [run EXCEPT ![h] = [@ EXCEPT !.seen = run[h].seen \union {obj[h].bus[i]}, !.wake = TRUE]]
                    ELSE run
  BY <1>1, <1>4
<1> DEFINE p == obj[h].bus[i]
           e == Record("taken", p)
<1>6. PICK y : y = [obj[h] EXCEPT !.bus = RemoveAt(obj[h].bus, i)] OBVIOUS
<1>7. RemoveAt(obj[h].bus, i) \in Seq(Nat) /\ p \in Nat
  <2> DEFINE b == obj[h].bus
  <2>1. i \in 1..Len(b) /\ b \in Seq(Nat) /\ p = b[i] BY <1>4, <1>5
  <2> HIDE DEF b
  <2>2. RemoveAt(b, i) \in Seq(Nat) BY <2>1, Removed
  <2>3. b[i] \in Nat BY <2>1
  <2> QED BY <2>1, <2>2, <2>3 DEF b
<1>8. /\ y \in ObjTypes /\ y.bus = RemoveAt(obj[h].bus, i) /\ y.answering = obj[h].answering
      /\ y.state = obj[h].state
  BY <1>3, <1>6, <1>7 DEF ObjTypes
<1>9. obj' = [obj EXCEPT ![h] = y] BY <1>3, <1>5, <1>6
<1>10. PICK t : /\ run' = [run EXCEPT ![h] = t]
                /\ t = IF Listens(run[h].pc)
                       THEN [run[h] EXCEPT !.seen = run[h].seen \union {p}, !.wake = TRUE]
                       ELSE run[h]
  <2>1. Listening(h) <=> Listens(run[h].pc) BY DEF Listening, Listens
  <2>2. run = [run EXCEPT ![h] = run[h]] BY <1>3
  <2> QED BY <1>5, <2>1, <2>2
<1>11. /\ t \in RunTypes /\ t.pc = run[h].pc /\ t.items = run[h].items /\ t.out = run[h].out
       /\ t.cur = run[h].cur /\ t.behind = run[h].behind
       /\ t.seen = IF Listens(run[h].pc) THEN run[h].seen \union {p} ELSE run[h].seen
  <2>1. CASE Listens(run[h].pc)
    <3>1. run[h].seen \union {p} \in SUBSET Nat BY <1>4, <1>7
    <3>2. t = [run[h] EXCEPT !.seen = run[h].seen \union {p}, !.wake = TRUE] BY <1>10, <2>1
    <3> QED BY <1>3, <2>1, <3>1, <3>2 DEF RunTypes
  <2>2. CASE ~Listens(run[h].pc) BY <1>3, <1>10, <2>2
  <2> QED BY <2>1, <2>2
<1>12. Held(Append(l, e), t, y) /\ e \in RecordTypes /\ p \in 1..Len(l)
  <2> DEFINE rr == run[h]
             x == obj[h]
  <2>1. /\ rr \in RunTypes /\ x \in ObjTypes /\ Held(l, rr, x) /\ i \in 1..Len(x.bus)
        /\ y.bus = RemoveAt(x.bus, i) /\ y.answering = x.answering
        /\ t.pc = rr.pc /\ t.items = rr.items /\ t.out = rr.out /\ t.cur = rr.cur
        /\ t.seen = IF Listens(rr.pc) THEN rr.seen \union {x.bus[i]} ELSE rr.seen
    BY <1>3, <1>5, <1>8, <1>11
  <2>2. e = Record("taken", x.bus[i]) /\ p = x.bus[i] /\ l \in Logs BY <1>3
  <2> HIDE DEF rr, x, l, e, p
  <2>3. /\ Held(Append(l, Record("taken", x.bus[i])), t, y)
        /\ Record("taken", x.bus[i]) \in RecordTypes /\ x.bus[i] \in 1..Len(l)
    BY <2>1, <2>2, <1>8, <1>11, TakesHeld, ZenonT(60)
  <2> QED BY <2>2, <2>3
<1>13. LogKept /\ log'[s] = Append(l, e)
  <2>1. e.of = p /\ log' = [log EXCEPT ![s] = Append(log[s], e)] BY <1>5 DEF Record
  <2> HIDE DEF e, s
  <2> QED BY <1>1, <1>3, <1>12, <2>1, LogAppend DEF l
<1>14. QuietTable /\ Flagged' /\ lease' = lease
  BY <1>1 DEF QuietTable, WInv, Flagged, apiVars, tableVars
<1>15. IInv' /\ SessionsKept BY <1>14, QuietTableStep DEF WInv
<1>16. Fits(t.pc, y) BY <1>1, <1>3, <1>8, <1>11 DEF Fits, Running
<1>17. Held(log'[Session(h)], t, y) BY <1>12, <1>13 DEF s
<1> QED BY <1>2, <1>3, <1>8, <1>9, <1>10, <1>11, <1>13, <1>14, <1>15, <1>16, <1>17, ActorStep

(* A turn journals something else. *)
LEMMA TurnWritesStep ==
    ASSUME WInv, NEW h \in Leases, TurnWrites(h)
    PROVE  WInv'
<1>1. /\ Running(h) /\ log' = [log EXCEPT ![Session(h)] = Append(log[Session(h)], Record("other", 0))]
      /\ UNCHANGED <<tableVars, cursor, intr, turnOpen, apiVars, run, obj, dropped>>
  BY DEF TurnWrites
<1>2. Session(h) \in Sessions BY <1>1, ObjectHasRun, Here DEF Running
<1>3. Record("other", 0) \in RecordTypes /\ Record("other", 0).kind = "other"
  BY DEF Record, RecordTypes
<1>4. LogKept BY <1>1, <1>2, <1>3, LogAppend
<1>5. QuietTable /\ Flagged' /\ obj' = obj /\ run' = run
  BY <1>1 DEF QuietTable, WInv, Flagged, apiVars
<1> QED BY <1>4, <1>5, NoRunMoves

(* endRun keeps the bus and answers nothing any more. *)
LEMMA Ending ==
    ASSUME NEW x \in ObjTypes, NEW state \in {"paused", "idle"}
    PROVE  /\ EndedRun(x, state) \in ObjTypes /\ EndedRun(x, state).bus = x.bus
           /\ EndedRun(x, state).answering = 0 /\ EndedRun(x, state).state # "none"
<1> DEFINE u == [x EXCEPT !.state = state, !.aborted = FALSE, !.answering = 0]
<1>1. u \in ObjTypes /\ u.bus = x.bus /\ u.answering = 0 /\ u.state # "none" BY DEF ObjTypes
<1>2. EndedRun(x, state) = Woken(u) BY DEF EndedRun
<1> HIDE DEF u
<1>3. CASE Woken(u) = u BY <1>1, <1>2, <1>3
<1>4. CASE Woken(u) = [u EXCEPT !.state = "running", !.again = TRUE]
  <2>1. PICK w : w = [u EXCEPT !.state = "running", !.again = TRUE] OBVIOUS
  <2>2. w \in ObjTypes /\ w.bus = u.bus /\ w.answering = u.answering /\ w.state = "running"
    BY <1>1, <2>1 DEF ObjTypes
  <2> QED BY <1>1, <1>2, <1>4, <2>1, <2>2
<1> QED BY <1>3, <1>4 DEF Woken

(* The end of a run, however it ends. *)
LEMMA RunOverStep ==
    ASSUME WInv, NEW h \in Leases, RunOver(h), QuietTable, Flagged', LogKept
    PROVE  WInv'
<1> DEFINE s == Session(h)
           l == log[s]
<1>1. PICK state \in {"paused", "idle"} : obj' = [obj EXCEPT ![h] = EndedRun(@, state)]
  BY DEF RunOver
<1>2. run[h].pc # "none" /\ obj[h].state = "running" /\ log' = log
  BY ObjectHasRun DEF Running, RunOver
<1>3. /\ s \in Sessions /\ run[h] \in RunTypes /\ (run[h].behind # {} => run[h].pc = "wait")
      /\ l \in Logs
      /\ Fits(run[h].pc, obj[h]) /\ obj[h] \in ObjTypes /\ Held(l, run[h], obj[h])
      /\ obj \in [Leases -> ObjTypes] /\ run \in [Leases -> RunTypes]
  BY <1>2, Here
<1>4. PICK y : y = EndedRun(obj[h], state) OBVIOUS
<1>5. /\ y \in ObjTypes /\ y.bus = obj[h].bus /\ y.answering = 0 /\ y.state # "none"
      /\ obj' = [obj EXCEPT ![h] = y]
  BY <1>1, <1>3, <1>4, Ending
<1> DEFINE z == IF Listens(run[h].pc) /\ obj[h].answering # 0
                THEN run[h].seen \union {obj[h].answering} ELSE run[h].seen
<1>6. z \in SUBSET Nat BY <1>3 DEF RunTypes, ObjTypes
<1>7. run' = [run EXCEPT ![h].seen = z] BY DEF Settled, Listening, Listens, RunOver
<1> HIDE DEF z
<1>8. PICK t : t = [run[h] EXCEPT !.seen = z] OBVIOUS
<1>9. run' = [run EXCEPT ![h] = t] BY <1>3, <1>7, <1>8
<1>10. /\ t \in RunTypes /\ t.pc = run[h].pc /\ t.items = run[h].items /\ t.out = run[h].out
       /\ t.cur = run[h].cur /\ t.behind = run[h].behind /\ t.seen = z
  BY <1>3, <1>6, <1>8 DEF RunTypes
<1>11. Held(l, t, y) BY <1>3, <1>5, <1>10, EndsHeld DEF z
<1>12. Fits(t.pc, y) BY <1>2, <1>3, <1>5, <1>10 DEF Fits
<1>13. IInv' /\ SessionsKept BY QuietTableStep DEF WInv
<1>14. Held(log'[Session(h)], t, y) BY <1>2, <1>11
<1> QED BY <1>2, <1>3, <1>5, <1>9, <1>10, <1>12, <1>13, <1>14, ActorStep

(* The three ways a run ends. *)
LEMMA EndingSteps ==
    ASSUME WInv, NEW h \in Leases, TurnPauses(h) \/ TurnEnds(h) \/ ResumeThrows(h)
    PROVE  WInv'
<1>1. Running(h) /\ UNCHANGED <<log, cursor, apiVars, dropped>> /\ run' = Settled(h)
      /\ \E state \in {"paused", "idle"} : obj' = [obj EXCEPT ![h] = EndedRun(@, state)]
  BY DEF TurnPauses, TurnEnds, ResumeThrows, logVars
<1>2. LogKept BY <1>1, LogSame
<1>3. QuietTable BY DEF TurnPauses, TurnEnds, ResumeThrows, QuietTable
<1>4. Session(h) \in Sessions BY <1>1, ObjectHasRun, Here DEF Running
<1>5. intr' \in [Sessions -> BOOLEAN] /\ turnOpen' \in [Sessions -> BOOLEAN]
  <2>1. intr \in [Sessions -> BOOLEAN] /\ turnOpen \in [Sessions -> BOOLEAN]
    BY DEF WInv, Flagged
  <2>2. CASE TurnPauses(h) BY <2>1, <2>2 DEF TurnPauses
  <2>3. CASE TurnEnds(h)
    <3>1. PICK b \in BOOLEAN : turnOpen' = [turnOpen EXCEPT ![Session(h)] = b]
      BY <2>3 DEF TurnEnds
    <3>2. PICK d \in BOOLEAN : intr' = [intr EXCEPT ![Session(h)] = d]
      <4>1. intr[Session(h)] \in BOOLEAN BY <1>4, <2>1
      <4>2. (intr[Session(h)] /\ obj[h].answering = 0) \in BOOLEAN BY <4>1
      <4>3. intr' = [intr EXCEPT ![Session(h)] = intr[Session(h)] /\ obj[h].answering = 0]
        BY <2>3 DEF TurnEnds
      <4> QED BY <4>2, <4>3
    <3> QED BY <2>1, <3>1, <3>2
  <2>4. CASE ResumeThrows(h) BY <2>1, <2>4 DEF ResumeThrows, logVars
  <2> QED BY <2>2, <2>3, <2>4
<1>6. Flagged' BY <1>1, <1>5 DEF WInv, Flagged, apiVars
<1>8. RunOver(h) BY <1>1 DEF RunOver
<1> QED BY <1>2, <1>3, <1>6, <1>8, RunOverStep

(* A background task starts. *)
LEMMA TaskSpawnsStep ==
    ASSUME WInv, NEW h \in Leases, TaskSpawns(h)
    PROVE  WInv'
<1>1. /\ Running(h) /\ obj' = [obj EXCEPT ![h].task = TRUE]
      /\ UNCHANGED <<tableVars, logVars, apiVars, run, dropped>>
  BY DEF TaskSpawns
<1>2. run[h].pc # "none" /\ obj[h].state # "none" BY <1>1, ObjectHasRun DEF Running
<1>3. Fits(run[h].pc, obj[h]) /\ obj[h] \in ObjTypes /\ obj \in [Leases -> ObjTypes]
  BY <1>2, Here
<1>4. PICK y : y = [obj[h] EXCEPT !.task = TRUE] OBVIOUS
<1>5. /\ y \in ObjTypes /\ y.bus = obj[h].bus /\ y.answering = obj[h].answering
      /\ y.state = obj[h].state
  BY <1>3, <1>4 DEF ObjTypes
<1>6. obj' = [obj EXCEPT ![h] = y] BY <1>1, <1>3, <1>4
<1>7. Fits(run[h].pc, y) /\ Likewise(obj[h], y) BY <1>2, <1>3, <1>5 DEF Fits, Likewise
<1>8. run' = run BY <1>1
<1> QED BY <1>1, <1>2, <1>5, <1>6, <1>7, <1>8, NoChange, ObjMoves

(* A task settles: its notice is journaled and queued. *)
LEMMA TaskSettlesStep ==
    ASSUME WInv, NEW h \in Leases, TaskSettles(h)
    PROVE  WInv'
<1> DEFINE s == Session(h)
           l == log[s]
           n == Len(l) + 1
           e == Record("input", n)
           u == [obj[h] EXCEPT !.task = FALSE, !.bus = Append(@, n)]
           y == Woken(u)
<1>1. /\ obj[h].task /\ log' = [log EXCEPT ![s] = Append(log[s], e)]
      /\ obj' = [obj EXCEPT ![h] = y]
      /\ turnOpen' = [turnOpen EXCEPT ![s] = @ \/ obj[h].state # y.state]
      /\ run' = [run EXCEPT ![h].settled = Listening(h)]
      /\ UNCHANGED <<tableVars, cursor, intr, apiVars, dropped>>
  BY DEF TaskSettles
<1>2. obj[h].state # "none"
  <2>1. NoObject.task = FALSE BY DEF NoObject
  <2>2. Fits(run[h].pc, obj[h]) BY DEF WInv, Placed
  <2> QED BY <1>1, <2>1, <2>2 DEF Fits
<1>3. run[h].pc # "none" BY <1>2, ObjectHasRun
<1>4. /\ s \in Sessions /\ run[h] \in RunTypes /\ (run[h].behind # {} => run[h].pc = "wait")
      /\ l \in Logs
      /\ Fits(run[h].pc, obj[h]) /\ obj[h] \in ObjTypes /\ Held(l, run[h], obj[h])
      /\ obj \in [Leases -> ObjTypes] /\ run \in [Leases -> RunTypes]
  BY <1>3, Here
<1>5. n \in Nat /\ Append(obj[h].bus, n) \in Seq(Nat) BY <1>4 DEF Logs, ObjTypes
<1>6. /\ u \in ObjTypes /\ u.bus = Append(obj[h].bus, n) /\ u.answering = obj[h].answering
      /\ u.state = obj[h].state
  <2> HIDE DEF n
  <2> QED BY <1>4, <1>5 DEF ObjTypes
<1> HIDE DEF u
<1>7. /\ y \in ObjTypes /\ y.bus = Append(obj[h].bus, n) /\ y.answering = obj[h].answering
      /\ y.state # "none"
  <2>1. CASE y = u BY <2>1, <1>2, <1>6
  <2>2. CASE y = [u EXCEPT !.state = "running", !.again = TRUE]
    <3>1. PICK w : w = [u EXCEPT !.state = "running", !.again = TRUE] OBVIOUS
    <3>2. w \in ObjTypes /\ w.bus = u.bus /\ w.answering = u.answering /\ w.state = "running"
      BY <1>6, <3>1 DEF ObjTypes
    <3> QED BY <2>2, <3>1, <3>2, <1>6
  <2> QED BY <2>1, <2>2 DEF Woken
<1> HIDE DEF y
<1>8. PICK b \in BOOLEAN : run' = [run EXCEPT ![h].settled = b]
  <2>1. CASE Listening(h)
    <3>1. run' = [run EXCEPT ![h].settled = TRUE] BY <1>1, <2>1 DEF Listening
    <3> QED BY <3>1
  <2>2. CASE ~Listening(h)
    <3>1. Listening(h) = FALSE BY <2>2 DEF Listening
    <3>2. run' = [run EXCEPT ![h].settled = FALSE] BY <1>1, <3>1
    <3> QED BY <3>2
  <2> QED BY <2>1, <2>2
<1>9. PICK t : t = [run[h] EXCEPT !.settled = b] OBVIOUS
<1>10. run' = [run EXCEPT ![h] = t] BY <1>4, <1>8, <1>9
<1>11. /\ t \in RunTypes /\ t.pc = run[h].pc /\ t.items = run[h].items /\ t.out = run[h].out
       /\ t.cur = run[h].cur /\ t.behind = run[h].behind /\ t.seen = run[h].seen
  BY <1>4, <1>9 DEF RunTypes
<1>12. Held(Append(l, e), t, y)
  <2> DEFINE r == run[h]
             x == obj[h]
  <2>1. /\ r \in RunTypes /\ x \in ObjTypes /\ Held(l, r, x)
        /\ y.bus = Append(x.bus, Len(l) + 1) /\ y.answering = x.answering
        /\ t.pc = r.pc /\ t.items = r.items /\ t.out = r.out /\ t.cur = r.cur /\ t.seen = r.seen
    BY <1>4, <1>7, <1>11
  <2> HIDE DEF r, x, l
  <2> QED BY <2>1, <1>4, <1>7, <1>11, SettlesHeld
<1>13. e \in RecordTypes /\ e.kind = "input"
  <2> HIDE DEF n
  <2> QED BY <1>5 DEF Record, RecordTypes, InboxKinds
<1>14. LogKept /\ log'[s] = Append(l, e)
  <2> HIDE DEF e, s
  <2> QED BY <1>1, <1>4, <1>13, LogAppend DEF l
<1>15. turnOpen' \in [Sessions -> BOOLEAN] BY <1>1, <1>4 DEF WInv, Flagged
<1>16. QuietTable /\ Flagged' BY <1>1, <1>15 DEF QuietTable, WInv, Flagged, apiVars
<1>17. IInv' /\ SessionsKept BY <1>16, QuietTableStep DEF WInv
<1>18. Fits(t.pc, y) BY <1>2, <1>4, <1>7, <1>11 DEF Fits
<1>19. Held(log'[Session(h)], t, y) BY <1>12, <1>14 DEF s
<1> QED BY <1>1, <1>3, <1>4, <1>7, <1>10, <1>11, <1>14, <1>16, <1>17, <1>18, <1>19, ActorStep

-----------
(* The invariant holds initially. *)
LEMMA WorkerInit == Init => WInv
<1> SUFFICES ASSUME Init PROVE WInv
  OBVIOUS
<1>1. IInv BY InitInv DEF Init
<1>2. \A s \in Sessions : log[s] = <<>> /\ cursor[s] = 0 BY DEF Init
<1>3. Typed
  <2>1. <<>> \in Logs BY DEF Logs
  <2> QED BY <2>1, Nothing DEF Init, Typed
<1>4. Flagged BY DEF Init, Flagged
<1>5. LogInv
  <2>1. TakenSane(<<>>) /\ PrefixDealt(<<>>, 0) BY DEF TakenSane, PrefixDealt
  <2> QED BY <1>2, <2>1 DEF LogInv
<1>6. ASSUME NEW h \in Leases PROVE Placed(h) /\ Holds(h)
  <2>1. run[h] = NoRun /\ obj[h] = NoObject BY DEF Init
  <2>2. ~Listens(NoRun.pc) BY Nothing DEF Listens
  <2>3. Holds(h) BY <2>1, <2>2, HeldNothing DEF Holds
  <2> QED BY <2>1, <2>2, <2>3, Nothing DEF Placed, Fits
<1> QED BY <1>1, <1>3, <1>4, <1>5, <1>6 DEF WInv

(* Nothing moves. *)
LEMMA WorkerStutters ==
    ASSUME WInv, UNCHANGED vars
    PROVE  WInv'
<1>1. QuietTable /\ Flagged' /\ LogKept BY NoChange DEF vars, logVars, apiVars
<1> QED BY <1>1, NoRunMoves DEF vars

(* The steps of the run under a lease. *)
LEMMA RunSteps ==
    ASSUME WInv, NEW h \in Leases, RunStep(h)
    PROVE  WInv'
<1>1. CASE Enter(h) BY <1>1, EnterStep
<1>2. CASE Pass(h) BY <1>2, PassStep
<1>3. CASE ReadNothing(h) \/ ReadWork(h) \/ HoldEnds(h) BY <1>3, GoingSteps
<1>4. CASE StepOverCancels(h) BY <1>4, StepOverCancelsStep
<1>5. CASE Open(h) BY <1>5, OpenStep
<1>6. CASE Fails(h) BY <1>6, FailsStep
<1>7. CASE Step(h) BY <1>7, StepStep
<1>8. CASE FeedCancel(h) BY <1>8, FeedCancelStep
<1>9. CASE CursorStored(h) \/ FeedPaused(h) BY <1>9, HoldingSteps
<1>10. CASE Feed(h) BY <1>10, FeedStep
<1>11. CASE \E settled \in {"idle", "woken"} : Wakes(h, settled) BY <1>11, WakesStep
<1>12. CASE CancelSettles(h) BY <1>12, CancelSettlesStep
<1>13. CASE Close(h) BY <1>13, CloseStep
<1>14. CASE Closed(h) BY <1>14, ClosedStep
<1>15. CASE After(h) BY <1>15, AfterStep
<1>16. CASE Finish(h) BY <1>16, FinishStep
<1>17. CASE Done(h) BY <1>17, DoneStep
<1> QED BY <1>1, <1>2, <1>3, <1>4, <1>5, <1>6, <1>7, <1>8, <1>9, <1>10, <1>11, <1>12, <1>13,
           <1>14, <1>15, <1>16, <1>17 DEF RunStep

(* The steps of the run in flight and of its tasks. *)
LEMMA TurnSteps ==
    ASSUME WInv, NEW h \in Leases, TurnStep(h)
    PROVE  WInv'
<1>1. CASE TurnTakes(h) BY <1>1, TurnTakesStep
<1>2. CASE TurnWrites(h) BY <1>2, TurnWritesStep
<1>3. CASE TurnPauses(h) \/ TurnEnds(h) \/ ResumeThrows(h) BY <1>3, EndingSteps
<1>4. CASE TaskSpawns(h) BY <1>4, TaskSpawnsStep
<1>5. CASE TaskSettles(h) BY <1>5, TaskSettlesStep
<1> QED BY <1>1, <1>2, <1>3, <1>4, <1>5 DEF TurnStep

(* Every step keeps the invariant. *)
LEMMA WorkerNext ==
    ASSUME WInv, [Next /\ UNCHANGED scene]_<<vars, scene>>
    PROVE  WInv'
<1>1. CASE UNCHANGED vars BY <1>1, WorkerStutters
<1>2. CASE Next
  <2>1. ASSUME NEW h \in Leases, TurnStep(h) PROVE WInv' BY <2>1, TurnSteps
  <2>2. ASSUME NEW h \in Leases, RunStep(h) PROVE WInv' BY <2>2, RunSteps
  <2>3. ASSUME NEW h \in Leases, Heartbeat(h) PROVE WInv' BY <2>3, HeartbeatStep
  <2>4. ASSUME NEW h \in Leases, CallFails(h) PROVE WInv' BY <2>4, CallFailsStep
  <2>5. ASSUME NEW h \in Leases, NEW beat \in Beats, BeatAnswered(h, beat) PROVE WInv'
    BY <2>5, BeatAnsweredStep
  <2>6. ASSUME NEW s \in Sessions, ServiceStep(s) PROVE WInv' BY <2>6, ServiceSteps
  <2>7. ASSUME NEW s \in Sessions, NudgeLost(s) PROVE WInv' BY <2>7, NudgeLostStep
  <2>8. ASSUME NEW h \in Leases, NEW o \in Owners, NEW s \in Sessions, ClaimRun(h, o, s)
        PROVE  WInv'
    BY <2>8, ClaimRunStep
  <2>9. ASSUME NEW h \in Leases, NEW o \in Owners, NEW s \in Sessions, NudgeTakes(h, o, s)
        PROVE  WInv'
    BY <2>9, NudgeTakesStep
  <2>10. ASSUME NEW h \in Leases, NudgeRaises(h) PROVE WInv' BY <2>10, NudgeRaisesStep
  <2>11. ASSUME NEW o \in Owners, Stop(o) PROVE WInv' BY <2>11, StopStep
  <2>12. ASSUME NEW o \in Owners, WorkerCrash(o) PROVE WInv' BY <2>12, WorkerCrashStep
  <2>13. ASSUME TableStep PROVE WInv' BY <2>13, TableStepStep
  <2> QED BY <1>2, <2>1, <2>2, <2>3, <2>4, <2>5, <2>6, <2>7, <2>8, <2>9, <2>10, <2>11, <2>12,
             <2>13 DEF Next
<1> QED BY <1>1, <1>2

(* The inductive invariant of the worker. *)
LEMMA WorkerInvariant == Spec => []WInv
BY WorkerInit, WorkerNext, PTL DEF Spec

(* The invariant gives the types. *)
LEMMA WInvTypes ==
    ASSUME WInv
    PROVE  TypeOK
<1>1. TableTypeOK /\ log \in [Sessions -> Logs] /\ run \in [Leases -> RunTypes]
      /\ obj \in [Leases -> ObjTypes]
  BY DEF WInv, Typed, IInv
<1>2. ASSUME NEW s \in Sessions, NEW p \in DOMAIN log[s]
      PROVE  /\ Kind(s, p) \in InboxKinds \union {"taken", "other"}
             /\ Kind(s, p) = "taken" => log[s][p].of \in 1..(p - 1)
  <2>1. log[s] \in Logs /\ TakenSane(log[s]) BY <1>1 DEF WInv, LogInv
  <2>2. p \in 1..Len(log[s]) BY <2>1 DEF Logs
  <2>3. log[s][p] \in RecordTypes BY <2>1, <2>2, RecordFacts
  <2> QED BY <2>1, <2>2, <2>3 DEF Kind, TakenSane, RecordTypes
<1>3. ASSUME NEW s \in Sessions PROVE cursor[s] \in 0..Len(log[s])
  BY DEF WInv, LogInv, PrefixDealt
<1>4. ASSUME NEW h \in Leases
      PROVE  /\ run[h].pc \in Places
             /\ obj[h].state \in {"none", "idle", "running", "paused"}
             /\ (obj[h].state # "none") <=> (Listening(h) \/ run[h].pc \in {"close", "closing"})
             /\ run[h].pc # "none" => Session(h) \in Sessions
  <2>1. run[h] \in RunTypes /\ obj[h] \in ObjTypes /\ Placed(h) BY <1>1 DEF WInv
  <2>2. run[h].pc \in Places /\ obj[h].state \in {"none", "idle", "running", "paused"}
    BY <2>1 DEF RunTypes, ObjTypes
  <2>3. Listening(h) <=> Listens(run[h].pc) BY DEF Listening, Listens
  <2> QED BY <2>1, <2>2, <2>3 DEF Placed, Fits
<1> QED BY <1>1, <1>2, <1>3, <1>4 DEF TypeOK, WInv, Flagged

(* Variables keep their types: a session object is there exactly while its
   run feeds or closes it (session-worker.ts:298-303), and a record that
   takes a message comes after it. *)
THEOREM TypeCorrect == Spec => []TypeOK
BY WorkerInvariant, WInvTypes, PTL

(* The invariant gives the safety of the cursor. *)
LEMMA WInvCursor ==
    ASSUME WInv
    PROVE  CursorPassesOnlyDealtWith
<1> SUFFICES ASSUME NEW s \in Sessions, NEW p \in 1..cursor[s], Kind(s, p) = "input"
             PROVE  Taken(s, p) \/ Discarded(s, p) \/ Answered(s, p)
  BY DEF CursorPassesOnlyDealtWith
<1>1. log[s] \in Logs /\ PrefixDealt(log[s], cursor[s]) BY DEF WInv, Typed, LogInv
<1>2. Dealt(log[s], p, cursor[s]) BY <1>1 DEF PrefixDealt, Kind
<1>3. DOMAIN log[s] = 1..Len(log[s]) BY <1>1 DEF Logs
<1> QED BY <1>2, <1>3 DEF Dealt, TakenIn, Between, Taken, Discarded, Answered, Precedes, Kind

(* processInbox (session-worker.ts:365-511) never lets inbox:cursor pass
   an accepted message that is not in the conversation, was not discarded
   by a cancel the cursor has passed too, and does not precede an answer:
   for any number of workers, leases, sessions and pages, with crashes,
   takeovers, lapsed leases, failing queries and messages drained out of
   order. *)
THEOREM CursorIsSafe == Spec => []CursorPassesOnlyDealtWith
BY WorkerInvariant, WInvCursor, PTL

(* The steps that lengthen the log of a session. *)
LEMMA LogGrows ==
    ASSUME [Next]_vars, NEW s \in Sessions, log'[s] # log[s]
    PROVE  \/ \E g \in Leases : TurnTakes(g) \/ TurnWrites(g) \/ TaskSettles(g)
           \/ \E u \in Sessions : ServiceStep(u)
<1>1. log' # log OBVIOUS
<1>2. ASSUME NEW g \in Leases, RunStep(g) PROVE log' = log
  <2>1. CASE Enter(g) \/ Pass(g) \/ ReadNothing(g) \/ ReadWork(g) \/ StepOverCancels(g)
    BY <2>1 DEF Enter, Pass, ReadNothing, ReadWork, StepOverCancels, Goto, logVars
  <2>2. CASE Open(g) \/ Fails(g) \/ Step(g) BY <2>2 DEF Open, Fails, Step, logVars
  <2>3. CASE FeedCancel(g) \/ FeedPaused(g) BY <2>3, SMTT(30) DEF FeedCancel, FeedPaused, logVars
  <2>4. CASE Feed(g) BY <2>4, ZenonT(60) DEF Feed, logVars
  <2>5. CASE (\E settled \in {"idle", "woken"} : Wakes(g, settled)) BY <2>5 DEF Wakes, logVars
  <2>6. CASE CursorStored(g) \/ HoldEnds(g) \/ CancelSettles(g)
    BY <2>6 DEF CursorStored, HoldEnds, CancelSettles, logVars
  <2>7. CASE Close(g) \/ Closed(g) \/ After(g) BY <2>7 DEF Close, Closed, After, logVars
  <2>8. CASE Finish(g) \/ Done(g) BY <2>8 DEF Finish, Done, logVars
  <2> QED BY <1>2, <2>1, <2>2, <2>3, <2>4, <2>5, <2>6, <2>7, <2>8 DEF RunStep
<1>3. \A g \in Leases : TurnPauses(g) \/ TurnEnds(g) \/ ResumeThrows(g) \/ TaskSpawns(g) => log' = log
  BY DEF TurnPauses, TurnEnds, ResumeThrows, TaskSpawns, logVars
<1>4. \A g \in Leases : Heartbeat(g) \/ CallFails(g) \/ NudgeRaises(g) => log' = log
  BY DEF Heartbeat, CallFails, NudgeRaises, logVars
<1>5. \A g \in Leases, beat \in Beats : BeatAnswered(g, beat) => log' = log
  BY DEF BeatAnswered, logVars
<1>6. \A u \in Sessions : NudgeLost(u) => log' = log BY DEF NudgeLost, logVars
<1>7. \A g \in Leases, o \in Owners, u \in Sessions : ClaimRun(g, o, u) \/ NudgeTakes(g, o, u) => log' = log
  BY DEF ClaimRun, NudgeTakes, logVars
<1>8. \A o \in Owners : Stop(o) \/ WorkerCrash(o) => log' = log
  BY DEF Stop, WorkerCrash, logVars
<1>9. TableStep => log' = log BY DEF TableStep, logVars
<1>10. ~UNCHANGED vars BY <1>1 DEF vars, logVars
<1> QED BY <1>1, <1>2, <1>3, <1>4, <1>5, <1>6, <1>7, <1>8, <1>9, <1>10 DEF Next, TurnStep

(* A message a step puts into the conversation is one the object had on
   its bus. *)
LEMMA TakenIsDrained ==
    ASSUME WInv, [Next]_vars, NEW h \in Leases, NEW p \in TakenBy(h)
    PROVE  obj[h].state # "none" /\ \E i \in 1..Len(obj[h].bus) : p = obj[h].bus[i]
<1> DEFINE s == Session(h)
<1>1. /\ Running(h) /\ Len(log'[s]) > Len(log[s]) /\ p \in DOMAIN log[s]
      /\ Last(log'[s]) = Record("taken", p) /\ Len(obj'[h].bus) < Len(obj[h].bus)
  BY DEF TakenBy
<1>2. obj[h].state # "none" /\ run[h].pc # "none" BY <1>1, ObjectHasRun DEF Running
<1>3. /\ s \in Sessions /\ log[s] \in Logs /\ obj[h] \in ObjTypes
      /\ run \in [Leases -> RunTypes] /\ obj \in [Leases -> ObjTypes] /\ log \in [Sessions -> Logs]
  BY <1>2, Here DEF WInv, Typed
<1>4. obj[h].bus \in Seq(Nat) /\ Len(obj[h].bus) \in Nat BY <1>3 DEF ObjTypes
<1>5. log'[s] # log[s]
  <2>1. Len(log[s]) \in Nat BY <1>3 DEF Logs
  <2> QED BY <1>1, <2>1
<1>6. obj'[h] # obj[h] BY <1>1, <1>4
<1>7. PICK g \in Leases : TurnTakes(g) \/ TurnWrites(g) \/ TaskSettles(g)
  <2>1. \A u \in Sessions : ServiceStep(u) => obj' = obj
    BY DEF ServiceStep, CheckState, AppendChecked, RequestCancel, Accept
  <2> QED BY <1>3, <1>5, <1>6, <2>1, LogGrows
<1>8. ~TurnWrites(g) BY <1>6 DEF TurnWrites
<1>9. g = h BY <1>3, <1>6, <1>7, <1>8 DEF TurnTakes, TaskSettles
<1>10. ~TaskSettles(h)
  <2>1. SUFFICES ASSUME TaskSettles(h) PROVE FALSE OBVIOUS
  <2>2. Len(obj'[h].bus) = Len(obj[h].bus) + 1
    <3> DEFINE q == Append(obj[h].bus, Len(log[s]) + 1)
               x == [obj[h] EXCEPT !.task = FALSE, !.bus = Append(obj[h].bus, Len(log[s]) + 1)]
    <3>1. obj'[h] = Woken(x) BY <1>3, <2>1 DEF TaskSettles
    <3>2. x.bus = q BY <1>3 DEF ObjTypes
    <3>3. Woken(x).bus = x.bus
      <4>1. x \in [state : {"none", "idle", "running", "paused"}, closing : BOOLEAN,
                   aborted : BOOLEAN, again : BOOLEAN, bus : {q}, answering : Nat, task : BOOLEAN]
        BY <1>3 DEF ObjTypes
      <4> HIDE DEF x, q
      <4> QED BY <4>1 DEF Woken
    <3>4. Len(q) = Len(obj[h].bus) + 1 BY <1>4
    <3> QED BY <3>1, <3>2, <3>3, <3>4
  <2> QED BY <1>1, <1>4, <2>2
<1>11. TurnTakes(h) BY <1>7, <1>8, <1>9, <1>10
<1>12. PICK i \in DOMAIN obj[h].bus :
          log' = [log EXCEPT ![s] = Append(log[s], Record("taken", obj[h].bus[i]))]
  BY <1>11 DEF TurnTakes
<1>13. Last(log'[s]) = Record("taken", obj[h].bus[i])
  <2> DEFINE l == log[s]
             e == Record("taken", obj[h].bus[i])
  <2>1. log'[s] = Append(l, e) BY <1>3, <1>12
  <2>2. l \in Seq(RecordTypes) /\ DOMAIN obj[h].bus = 1..Len(obj[h].bus) BY <1>3, <1>4 DEF Logs
  <2> HIDE DEF l
  <2>3. Last(Append(l, e)) = e BY <2>2 DEF Last
  <2> QED BY <2>1, <2>3
<1>14. p = obj[h].bus[i] /\ i \in 1..Len(obj[h].bus)
  <2>1. Record("taken", p).of = Record("taken", obj[h].bus[i]).of BY <1>1, <1>13
  <2> QED BY <2>1, <1>4, <1>12 DEF Record
<1> QED BY <1>2, <1>14

(* A step that drains an accepted message drains one not yet seen. *)
LEMMA TakenOnceStep ==
    ASSUME WInv, [Next]_vars, NEW h \in Leases, NEW p \in TakenBy(h),
           Listening(h), run[h].pc # "cancel", log[Session(h)][p].of = 0
    PROVE  p \notin run[h].seen
<1> DEFINE s == Session(h)
<1>1. run[h].pc # "none" /\ Listens(run[h].pc) BY DEF Listening, Listens
<1>2. PICK i \in 1..Len(obj[h].bus) : p = obj[h].bus[i] BY TakenIsDrained
<1>3. Once(log[s], run[h], obj[h]) /\ Given(log[s], obj[h]) BY <1>1, Here DEF Held
<1>4. Foreign(log[s], p) BY <1>2, <1>3 DEF Given, Foreign
<1> QED BY <1>2, <1>3, <1>4 DEF Once

(* A session object that is fed never puts an accepted message into its
   conversation twice (session-worker.ts:432-480, with what is on the bus
   left out by inbox.ts:75-93): whatever is queued is outstanding, is
   there once, and was not heard of as taken. *)
THEOREM TakenOncePerObjectHolds == Spec => TakenOncePerObject
<1>1. ASSUME WInv, [Next /\ UNCHANGED scene]_<<vars, scene>>
      PROVE  [\A h \in Leases : \A p \in TakenBy(h) :
                (Listening(h) /\ run[h].pc # "cancel" /\ log[Session(h)][p].of = 0)
                   => p \notin run[h].seen]_vars
  <2>1. [Next]_vars BY <1>1
  <2> QED BY <1>1, <2>1, TakenOnceStep
<1> QED BY <1>1, WorkerInvariant, PTL DEF Spec, TakenOncePerObject

-----------
(* What is left of a lease is a number. *)
LEMMA LeftIsInt == Left \subseteq Int
BY TTLAssumption DEF Left

(* A run that is there holds its session's row. *)
LEMMA HoldsRow ==
    ASSUME WInv, LInv, NEW h \in Leases, run[h].pc \notin {"none", "release"}
    PROVE  /\ ~lease[h].gone /\ Current(h) /\ Mine(h) /\ Session(h) \in Sessions
           /\ row[Session(h)].owner = lease[h].owner /\ lease[h].owner # NoOwner
           /\ row[Session(h)].left >= 0 /\ "lost" \notin calls[h] /\ "release" \notin calls[h]
<1>1. Alive(h) /\ IInv BY DEF LInv, WInv
<1>2. ~lease[h].gone /\ lease[h].sure >= 0 /\ "lost" \notin calls[h] BY <1>1 DEF Alive
<1>3. Current(h) BY <1>2 DEF Current
<1>4. Mine(h) /\ lease[h].sure <= row[lease[h].session].left /\ lease[h].session \in Sessions
      /\ lease[h].owner \in Owners /\ "release" \notin calls[h]
  BY <1>1, <1>2, <1>3 DEF IInv, HolderOwnsRow, LeasesConsistent
<1>5. lease[h].sure \in Int /\ row[lease[h].session].left \in Int
  BY <1>1, <1>4, LeftIsInt DEF IInv, TableTypeOK, LeaseType, RowType
<1>6. lease[h].owner # NoOwner BY <1>4, NoOwnerAssumption
<1> QED BY <1>2, <1>3, <1>4, <1>5, <1>6 DEF Mine, Session

(* And holds it alone. *)
LEMMA HoldsAlone ==
    ASSUME WInv, LInv, NEW h \in Leases, run[h].pc \notin {"none", "release"},
           NEW g \in Leases, run[g].pc \notin {"none", "release"}, Session(g) = Session(h)
    PROVE  g = h
<1>1. Current(g) /\ Current(h) BY HoldsRow
<1>2. OneHolder BY OneHolderFollows DEF WInv
<1> QED BY <1>1, <1>2 DEF OneHolder, Session

(* So its row is not on its way back. *)
LEMMA NotBack ==
    ASSUME WInv, LInv, NEW h \in Leases, run[h].pc \notin {"none", "release"}
    PROVE  ~Back(Session(h))
<1>1. /\ Mine(h) /\ row[Session(h)].owner # NoOwner /\ "release" \notin calls[h] BY HoldsRow
<1>2. ASSUME NEW g \in Leases, Session(g) = Session(h), Mine(g), "release" \in calls[g] PROVE FALSE
  <2>1. g = h BY <1>1, <1>2 DEF Mine, WInv, IInv, FenceTellsTakesApart, Session
  <2> QED BY <1>1, <1>2, <2>1
<1> QED BY <1>1, <1>2 DEF Back

(* These statements grant nothing. *)
LEMMA StillIsQuiet ==
    ASSUME WInv, StillTable
    PROVE  QuietTable /\ IInv' /\ SameTakes /\ SessionsKept
<1>1. QuietTable BY DEF StillTable, QuietTable
<1> QED BY <1>1, QuietTableStep DEF WInv

(* No release is sent by them, *)
LEMMA StillCalls ==
    ASSUME WInv, StillTable, NEW h \in Leases, "release" \in calls'[h]
    PROVE  "release" \in calls[h]
<1>0. calls \in [Leases -> SUBSET (Beats \union Statements)] BY DEF WInv, IInv, TableTypeOK
<1>1. CASE UNCHANGED <<row, lease, calls>> \/ UNCHANGED tableVars \/ Tick
           \/ \E s \in Sessions : AppendRecord(s)
  BY <1>1 DEF AppendRecord, tableVars, Tick
<1>2. ASSUME NEW g \in Leases, RenewSend(g) PROVE "release" \in calls[h]
  BY <1>0, <1>2 DEF RenewSend
<1>3. ASSUME NEW g \in Leases, QueryFails(g) PROVE "release" \in calls[h]
  BY <1>0, <1>3 DEF QueryFails
<1>4. ASSUME NEW g \in Leases, RenewCommit(g) PROVE "release" \in calls[h]
  BY <1>0, <1>4 DEF RenewCommit
<1>5. ASSUME NEW g \in Leases, ReleaseCommit(g) PROVE "release" \in calls[h]
  BY <1>0, <1>5 DEF ReleaseCommit
<1>6. ASSUME NEW g \in Leases, NEW beat \in Beats, RenewAnswer(g, beat) PROVE "release" \in calls[h]
  BY <1>0, <1>6 DEF RenewAnswer
<1> QED BY <1>1, <1>2, <1>3, <1>4, <1>5, <1>6 DEF StillTable

(* so no row is on its way back that was not before, *)
LEMMA StillBack ==
    ASSUME WInv, StillTable, NEW s \in Sessions, Back(s)'
    PROVE  Back(s)
<1>0. row \in [Sessions -> RowType] BY DEF WInv, IInv, TableTypeOK
<1>1. SameTakes /\ \A h \in Leases : "release" \in calls'[h] => "release" \in calls[h]
  BY StillIsQuiet, StillCalls
<1>3. CASE row'[s].owner = row[s].owner
  <2>1. ASSUME NEW h \in Leases, (Session(h) = s /\ Mine(h))', "release" \in calls'[h]
        PROVE  Session(h) = s /\ Mine(h) /\ "release" \in calls[h]
    BY <1>1, <1>3, <2>1 DEF SameTakes, Mine, Session
  <2> QED BY <1>3, <2>1 DEF Back
<1>4. CASE row'[s].owner # row[s].owner
  <2>1. ~Tick /\ ~UNCHANGED row BY <1>0, <1>4 DEF Tick, RowType
  <2>2. \A u \in Sessions : ~AppendRecord(u) BY <1>0, <1>4 DEF AppendRecord, RowType
  <2>3. ASSUME NEW h \in Leases, RenewCommit(h) PROVE FALSE
    <3> DEFINE u == lease[h].session
    <3>1. row' = row \/ row' = [row EXCEPT ![u] = [row[u] EXCEPT !.woken = FALSE, !.left = TTL]]
      BY <2>3 DEF RenewCommit
    <3>2. CASE u # s \/ row' = row BY <3>1, <3>2, <1>0, <1>4
    <3>3. CASE u = s /\ row' # row
      <4>1. row'[s] = [row[s] EXCEPT !.woken = FALSE, !.left = TTL] /\ row[s] \in RowType
        BY <3>1, <3>3, <1>0
      <4>2. row'[s].owner = row[s].owner BY <4>1 DEF RowType
      <4> QED BY <4>2, <1>4
    <3> QED BY <3>2, <3>3
  <2>4. PICK h \in Leases : ReleaseCommit(h)
    BY <2>1, <2>2, <2>3 DEF StillTable, tableVars, RenewSend, QueryFails, RenewAnswer
  <2>5. Mine(h) /\ lease[h].session = s /\ "release" \in calls[h]
    BY <1>0, <1>4, <2>4 DEF ReleaseCommit, RowType
  <2> QED BY <2>5 DEF Back, Session
<1> QED BY <1>3, <1>4

(* and every run keeps its lease. *)
LEMMA StillAlive ==
    ASSUME WInv, LInv, StillTable,
           \A g \in Leases : run'[g].pc \in {"none", "release"} <=> run[g].pc \in {"none", "release"}
    PROVE  \A h \in Leases : Alive(h)'
<1> SUFFICES ASSUME NEW h \in Leases PROVE Alive(h)'
  OBVIOUS
<1>0. TableTypeOK /\ Alive(h) BY DEF WInv, IInv, LInv
<1>1. ASSUME lease'[h].gone <=> lease[h].gone, ~lease[h].gone => lease'[h].sure >= 0,
             "lost" \in calls'[h] => lease[h].gone
      PROVE  Alive(h)'
  BY <1>0, <1>1 DEF Alive
<1>2. CASE UNCHANGED <<row, lease, calls>> \/ UNCHANGED tableVars \/ \E s \in Sessions : AppendRecord(s)
  BY <1>0, <1>1, <1>2 DEF Alive, AppendRecord, tableVars
<1>3. ASSUME NEW g \in Leases, RenewSend(g) \/ QueryFails(g) \/ ReleaseCommit(g) PROVE Alive(h)'
  BY <1>0, <1>1, <1>3 DEF Alive, RenewSend, QueryFails, ReleaseCommit, TableTypeOK
<1>4. ASSUME NEW g \in Leases, RenewCommit(g) PROVE Alive(h)'
  <2>1. ~lease[g].gone => Mine(g) BY HoldsRow DEF LInv, Alive
  <2>2. lease'[h].gone = lease[h].gone BY <1>0, <1>4 DEF RenewCommit, TableTypeOK, LeaseType
  <2>3. lease'[h].sure = lease[h].sure \/ lease'[h].sure = TTL
    BY <1>0, <1>4 DEF RenewCommit, TableTypeOK, LeaseType
  <2>4. "lost" \in calls'[h] => "lost" \in calls[h] \/ (g = h /\ ~Mine(g))
    BY <1>0, <1>4 DEF RenewCommit, TableTypeOK
  <2> QED BY <1>0, <1>1, <2>1, <2>2, <2>3, <2>4, TTLAssumption DEF Alive
<1>5. ASSUME NEW g \in Leases, NEW beat \in Beats, RenewAnswer(g, beat) PROVE Alive(h)'
  <2>1. Alive(g) BY DEF LInv
  <2>2. lease'[h].gone <=> lease[h].gone
    BY <1>0, <1>5, <2>1 DEF RenewAnswer, TableTypeOK, LeaseType, Alive
  <2>3. lease'[h].sure = lease[h].sure BY <1>0, <1>5 DEF RenewAnswer, TableTypeOK, LeaseType
  <2>4. "lost" \in calls'[h] => "lost" \in calls[h] BY <1>0, <1>5 DEF RenewAnswer, TableTypeOK
  <2> QED BY <1>0, <1>1, <2>2, <2>3, <2>4 DEF Alive
<1>6. ASSUME Tick, \A g \in Leases : lease[g].gone \/ lease[g].sure > 0 PROVE Alive(h)'
  <2>1. lease'[h].gone = lease[h].gone /\ lease'[h].sure = Elapse(lease[h].sure) /\ calls' = calls
    BY <1>0, <1>6 DEF Tick, TableTypeOK, LeaseType
  <2>2. lease[h].sure \in Int BY <1>0, LeftIsInt DEF TableTypeOK, LeaseType
  <2>3. ~lease[h].gone => lease'[h].sure >= 0 BY <1>6, <2>1, <2>2 DEF Elapse
  <2> QED BY <1>0, <1>1, <2>1, <2>3 DEF Alive
<1> QED BY <1>2, <1>3, <1>4, <1>5, <1>6 DEF StillTable

-----------
(* What a run and its object refer to is there. *)
LEMMA LiesInLog ==
    ASSUME WInv, NEW h \in Leases, run[h].pc # "none"
    PROVE  LET s == Session(h) IN
           /\ s \in Sessions /\ log[s] \in Logs /\ run[h] \in RunTypes /\ obj[h] \in ObjTypes
           /\ InLog(log[s], cursor[s], run[h], obj[h])
<1> DEFINE s == Session(h)
<1>1. /\ s \in Sessions /\ log[s] \in Logs /\ run[h] \in RunTypes /\ obj[h] \in ObjTypes
      /\ Held(log[s], run[h], obj[h]) /\ PrefixDealt(log[s], cursor[s])
  BY Here
<1>2. cursor[s] \in 0..Len(log[s]) /\ Len(log[s]) \in Nat BY <1>1 DEF PrefixDealt, Logs
<1>3. \A i \in 1..Len(obj[h].bus) : obj[h].bus[i] \in 1..Len(log[s]) BY <1>1 DEF Held, Given
<1>4. ASSUME Listens(run[h].pc), run[h].pc # "cancel", NEW i \in 1..Len(run[h].out)
      PROVE  run[h].out[i] \in 1..Len(log[s])
  <2> DEFINE r == run[h]
  <2>1. Lined(log[s], Line(r), r.cur) BY <1>1, <1>4 DEF Held, Reads
  <2>2. r.out \in Seq(Nat) /\ r.items \in Seq(Nat) BY <1>1 DEF RunTypes
  <2>3. i \in 1..Len(Line(r)) /\ Line(r)[i] = r.out[i]
    <3>1. Len(r.out \o r.items) = Len(r.out) + Len(r.items) /\ (r.out \o r.items)[i] = r.out[i]
          /\ Len(r.out) \in Nat /\ Len(r.items) \in Nat
      BY <2>2, <1>4, Joined
    <3>2. i \in 1..Len(r.out \o r.items)
      <4>1. ASSUME NEW a \in Nat, NEW b \in Nat, i \in 1..a PROVE i \in 1..(a + b) BY <4>1
      <4>2. i \in 1..Len(r.out) BY <1>4
      <4> QED BY <4>1, <4>2, <3>1
    <3>3. CASE r.pc = "feed"
      <4>1. Line(r) = r.out \o r.items BY <3>3 DEF Line
      <4> QED BY <4>1, <3>1, <3>2
    <3>4. CASE r.pc # "feed"
      <4>1. Line(r) = r.out BY <3>4 DEF Line
      <4> QED BY <4>1
    <3> QED BY <3>3, <3>4
  <2> QED BY <2>1, <2>3 DEF Lined
<1> QED BY <1>1, <1>2, <1>3, <1>4 DEF InLog

(* A longer log takes nothing back. *)
LEMMA BeyondGrows ==
    ASSUME NEW l, NEW m, Extends(l, m), NEW r, NEW x, NEW c, InLog(l, c, r, x), c = r.cur,
           BeyondCancels(l, r, x)
    PROVE  BeyondCancels(m, r, x)
<1>1. \A p \in 1..Len(l) : m[p] = l[p] BY DEF Extends
<1>2. ASSUME NEW i \in 1..Len(x.bus), NEW q \in (x.bus[i] + 1)..r.cur PROVE m[q].kind # "cancel"
  <2>1. q \in 1..Len(l)
    <3>1. x.bus[i] \in 1..Len(l) /\ r.cur \in 0..Len(l) /\ Len(l) \in Nat BY DEF InLog
    <3> QED BY <3>1
  <2> QED BY <2>1, <1>1 DEF BeyondCancels
<1> QED BY <1>1, <1>2 DEF BeyondCancels, InLog

(* A run and an object that go nowhere keep to what they did. *)
LEMMA KeepsSame ==
    ASSUME NEW l, NEW m, Extends(l, m), NEW c, NEW i, NEW o, NEW d, NEW e,
           d # "no" => e # "no", NEW r, NEW t, NEW x, NEW y, SameRun(r, t), SameObject(x, y),
           InLog(l, c, r, x), KeepsAs(l, c, i, o, d, r, x)
    PROVE  KeepsAs(m, c, i, o, e, t, y)
<1>1. Asked(i, y) BY DEF KeepsAs, Asked, SameObject
<1>2. Feeds(t.pc) => c = t.cur /\ (t.cancelled \/ BeyondCancels(m, t, y))
  <2>1. BeyondCancels(m, r, x) => BeyondCancels(m, t, y)
    BY DEF BeyondCancels, SameRun, SameObject
  <2> QED BY <2>1, BeyondGrows DEF KeepsAs, SameRun
<1>3. Past(t.pc) /\ o => y.state = "running" \/ e # "no" BY DEF KeepsAs, SameRun, SameObject
<1> QED BY <1>1, <1>2, <1>3 DEF KeepsAs

(* A step in which no run and no object gets anywhere. *)
LEMMA StillStep ==
    ASSUME WInv, LInv, StillTable, LogStep, UNCHANGED <<cursor, intr, turnOpen>>,
           \A s \in Sessions : dropped[s] # "no" => dropped'[s] # "no",
           \A g \in Leases : SameRun(run[g], run'[g]) /\ SameObject(obj[g], obj'[g])
    PROVE  LInv'
<1>1. \A h \in Leases : Alive(h)' BY StillAlive DEF SameRun
<1>2. ASSUME NEW h \in Leases, run'[h].pc # "none" PROVE Keeps(h)'
  <2> DEFINE s == Session(h)
  <2>1. run[h].pc # "none" /\ SameRun(run[h], run'[h]) /\ SameObject(obj[h], obj'[h])
    BY <1>2 DEF SameRun
  <2>2. s \in Sessions /\ InLog(log[s], cursor[s], run[h], obj[h]) BY <2>1, LiesInLog
  <2>3. Extends(log[s], log'[s]) /\ (dropped[s] # "no" => dropped'[s] # "no")
    BY <2>2 DEF LogStep
  <2>4. KeepsAs(log[s], cursor[s], intr[s], turnOpen[s], dropped[s], run[h], obj[h])
    BY <2>1 DEF LInv, Keeps
  <2>5. KeepsAs(log'[s], cursor[s], intr[s], turnOpen[s], dropped'[s], run'[h], obj'[h])
    BY <2>1, <2>2, <2>3, <2>4, KeepsSame
  <2>6. Session(h)' = s BY StillIsQuiet DEF SessionsKept, Session
  <2> QED BY <2>5, <2>6 DEF Keeps
<1>3. ASSUME NEW s \in Sessions PROVE Turned(s)'
  <2>1. Turned(s) /\ (Back(s)' => Back(s)) BY StillBack DEF LInv
  <2> QED BY <2>1 DEF Turned
<1> QED BY <1>1, <1>2, <1>3 DEF LInv

(* Then the rest is as it was. *)
LEMMA ActorKeeps ==
    ASSUME WInv, LInv, StillTable, NEW h \in Leases, run[h].pc \notin {"none", "release"},
           NEW t, NEW y, run' = [run EXCEPT ![h] = t], obj' = [obj EXCEPT ![h] = y],
           t.pc \notin {"none", "release"}, ElsewhereSame(Session(h)),
           turnOpen'[Session(h)] => ~intr'[Session(h)],
           LET s == Session(h) IN
             KeepsAs(log'[s], cursor'[s], intr'[s], turnOpen'[s], dropped'[s], t, y)
    PROVE  LInv'
<1> DEFINE s == Session(h)
<1>0. DOMAIN run = Leases /\ DOMAIN obj = Leases BY DEF WInv, Typed
<1>1. /\ run'[h] = t /\ obj'[h] = y
      /\ \A g \in Leases \ {h} : run'[g] = run[g] /\ obj'[g] = obj[g]
  BY <1>0
<1>2. \A g \in Leases : Alive(g)'
  <2>1. \A g \in Leases : run'[g].pc \in {"none", "release"} <=> run[g].pc \in {"none", "release"}
    BY <1>1
  <2> QED BY <2>1, StillAlive
<1>3. \A g \in Leases : Session(g)' = Session(g) BY StillIsQuiet DEF SessionsKept, Session
<1>4. ASSUME NEW g \in Leases, run'[g].pc # "none" PROVE Keeps(g)'
  <2>1. CASE g = h BY <2>1, <1>1, <1>3 DEF Keeps
  <2>2. CASE g # h /\ run[g].pc = "release"
    <3>1. run'[g] = run[g] /\ obj'[g] = obj[g] /\ obj[g] = NoObject
      BY <2>2, <1>1 DEF WInv, Placed, Fits, Listens
    <3> QED BY <3>1, <2>2, Nothing DEF Keeps, KeepsAs, Asked, Feeds, Listens, Past
  <2>3. CASE g # h /\ run[g].pc # "release"
    <3>1. run'[g] = run[g] /\ obj'[g] = obj[g] /\ run[g].pc \notin {"none", "release"}
      BY <2>3, <1>1, <1>4
    <3>2. Session(g) # s /\ Session(g) \in Sessions BY <3>1, <2>3, HoldsAlone, HoldsRow
    <3>3. Keeps(g) BY <3>1 DEF LInv
    <3> QED BY <3>1, <3>2, <3>3, <1>3 DEF Keeps, ElsewhereSame
  <2> QED BY <2>1, <2>2, <2>3
<1>5. ASSUME NEW u \in Sessions PROVE Turned(u)'
  <2>1. Turned(u) /\ (Back(u)' => Back(u)) BY StillBack DEF LInv
  <2>2. CASE u = s BY <2>1, <2>2, NotBack DEF Turned
  <2>3. CASE u # s BY <2>1, <2>3 DEF Turned, ElsewhereSame
  <2> QED BY <2>2, <2>3
<1> QED BY <1>2, <1>4, <1>5 DEF LInv

-----------
(* A step in which runs, objects and what is durable of a session stay as
   they are, the log apart. *)
LEMMA NothingMoves ==
    ASSUME WInv, LInv, StillTable, LogStep,
           UNCHANGED <<cursor, intr, turnOpen, run, obj>>,
           \A s \in Sessions : dropped[s] # "no" => dropped'[s] # "no"
    PROVE  LInv'
<1>1. \A g \in Leases : SameRun(run[g], run'[g]) /\ SameObject(obj[g], obj'[g])
  BY DEF SameRun, SameObject
<1> QED BY <1>1, StillStep

(* A log that stays is one that grew by nothing. *)
LEMMA SameLogStep ==
    ASSUME WInv, log' = log
    PROVE  LogStep
<1>1. log \in [Sessions -> Logs] BY DEF WInv, Typed
<1> QED BY <1>1, ExtendsItself DEF LogStep

(* Records accepted, and nudges. *)
LEMMA AcceptStill ==
    ASSUME WInv, LInv, NEW s \in Sessions, NEW kind \in {"input", "resume", "cancel"}, Accept(s, kind)
    PROVE  LInv'
<1>1. /\ log' = [log EXCEPT ![s] = Append(log[s], Record(kind, 0))] /\ cursor' = cursor
      /\ UNCHANGED <<intr, turnOpen, stopping, run, obj, dropped>>
      /\ AppendRecord(s)
  BY DEF Accept
<1>2. Record(kind, 0) \in RecordTypes /\ Record(kind, 0).kind # "taken"
  BY DEF Record, RecordTypes, InboxKinds
<1>3. LogStep BY <1>1, <1>2, LogAppend DEF LogKept
<1>4. StillTable BY <1>1 DEF StillTable
<1> QED BY <1>1, <1>3, <1>4, NothingMoves

(* The API nodes, and nudges nobody answers. *)
LEMMA ServiceStill ==
    ASSUME WInv, LInv, NEW s \in Sessions, ServiceStep(s) \/ NudgeLost(s)
    PROVE  LInv'
<1>1. ASSUME NEW kind \in {"input", "resume"}, CheckState(s, kind) PROVE LInv'
  BY <1>1, SameLogStep, NothingMoves DEF CheckState, StillTable, logVars
<1>2. CASE AppendChecked(s)
  <2>1. pending[s] \in {"input", "resume"} /\ Accept(s, pending[s])
    BY <1>2 DEF AppendChecked, WInv, Flagged
  <2> QED BY <2>1, AcceptStill
<1>3. CASE RequestCancel(s) BY <1>3, AcceptStill DEF RequestCancel
<1>4. CASE NudgeLost(s) BY <1>4, SameLogStep, NothingMoves DEF NudgeLost, StillTable, logVars
<1> QED BY <1>1, <1>2, <1>3, <1>4 DEF ServiceStep

(* Steps that set the wakes of runs at most. *)
LEMMA WakesStill ==
    ASSUME WInv, LInv, NEW h \in Leases, NEW b \in BOOLEAN, run' = [run EXCEPT ![h].wake = b],
           UNCHANGED <<logVars, obj>>, StillTable,
           \A s \in Sessions : dropped[s] # "no" => dropped'[s] # "no"
    PROVE  LInv'
<1>1. run \in [Leases -> RunTypes] BY DEF WInv, Typed
<1>2. \A g \in Leases : SameRun(run[g], run'[g]) /\ SameObject(obj[g], obj'[g])
  BY <1>1 DEF SameRun, SameObject, RunTypes
<1> QED BY <1>2, StillStep, SameLogStep DEF logVars

(* Nudges and heartbeats. *)
LEMMA BeatsStill ==
    ASSUME WInv, LInv, NEW h \in Leases,
           NudgeRaises(h) \/ Heartbeat(h) \/ CallFails(h) \/ \E beat \in Beats : BeatAnswered(h, beat)
    PROVE  LInv'
<1>0. run \in [Leases -> RunTypes] BY DEF WInv, Typed
<1>1. CASE NudgeRaises(h)
  <2>1. StillTable /\ run' = [run EXCEPT ![h].wake = TRUE] /\ UNCHANGED <<logVars, obj, dropped>>
    BY <1>1 DEF NudgeRaises, StillTable
  <2> QED BY <2>1, WakesStill
<1>2. CASE Heartbeat(h)
  <2>1. StillTable BY <1>2 DEF Heartbeat, StillTable
  <2> QED BY <1>2, <2>1, SameLogStep, NothingMoves DEF Heartbeat, logVars
<1>3. CASE CallFails(h)
  <2>1. StillTable /\ UNCHANGED <<logVars, run, obj>>
        /\ (dropped' = dropped \/ dropped' = [dropped EXCEPT ![Session(h)] = "error"])
    BY <1>3 DEF CallFails, StillTable
  <2>2. \A s \in Sessions : dropped[s] # "no" => dropped'[s] # "no" BY <2>1 DEF WInv, Flagged
  <2> QED BY <2>1, <2>2, SameLogStep, NothingMoves DEF logVars
<1>4. ASSUME NEW beat \in Beats, BeatAnswered(h, beat) PROVE LInv'
  <2>1. StillTable /\ UNCHANGED <<logVars, obj>> BY <1>4 DEF BeatAnswered, StillTable
  <2>2. \A s \in Sessions : dropped[s] # "no" => dropped'[s] # "no"
    <3>1. dropped' = dropped \/ dropped' = [dropped EXCEPT ![Session(h)] = "late"]
      BY <1>4 DEF BeatAnswered
    <3> QED BY <3>1 DEF WInv, Flagged
  <2>3. PICK b \in BOOLEAN : run' = [run EXCEPT ![h].wake = b]
    <3>1. run' = [run EXCEPT ![h].wake = run[h].wake \/ beat = "woken"] BY <1>4 DEF BeatAnswered
    <3>2. run[h].wake \in BOOLEAN BY <1>0 DEF RunTypes
    <3>3. (run[h].wake \/ beat = "woken") \in BOOLEAN BY <3>2
    <3> QED BY <3>1, <3>3
  <2> QED BY <2>1, <2>2, <2>3, WakesStill
<1> QED BY <1>1, <1>2, <1>3, <1>4

(* The clock does not outrun the heartbeats. *)
LEMMA TableStill ==
    ASSUME WInv, LInv, ~May("lapse"), TableStep
    PROVE  LInv'
<1>1. UNCHANGED <<logVars, apiVars, run, obj, dropped>> BY DEF TableStep
<1>2. StillTable
  <2>1. CASE \E h \in Leases : RenewCommit(h) \/ ReleaseCommit(h) BY <2>1 DEF StillTable
  <2>2. CASE InTime /\ Tick BY <2>2 DEF StillTable, InTime
  <2> QED BY <2>1, <2>2 DEF TableStep
<1> QED BY <1>1, <1>2, SameLogStep, NothingMoves DEF logVars

(* stop() aborts and closes, and takes nothing back. *)
LEMMA StopStill ==
    ASSUME WInv, LInv, NEW o \in Owners, Stop(o)
    PROVE  LInv'
<1>1. /\ run' = [h \in Leases |-> IF run[h].listed /\ Host(h) = o
                                  THEN [run[h] EXCEPT !.wake = TRUE] ELSE run[h]]
      /\ obj' = [h \in Leases |-> IF obj[h].state # "none" /\ Host(h) = o
                                  THEN [Aborted(obj[h]) EXCEPT !.closing = TRUE] ELSE obj[h]]
      /\ UNCHANGED <<tableVars, logVars, dropped>>
  BY DEF Stop
<1>2. run \in [Leases -> RunTypes] /\ obj \in [Leases -> ObjTypes] BY DEF WInv, Typed
<1>3. ASSUME NEW g \in Leases PROVE SameRun(run[g], run'[g]) BY <1>1, <1>2 DEF SameRun, RunTypes
<1>4. ASSUME NEW g \in Leases PROVE SameObject(obj[g], obj'[g])
  <2>1. obj'[g] = obj[g] \/ obj'[g] = [Aborted(obj[g]) EXCEPT !.closing = TRUE] BY <1>1
  <2>2. PICK x : x = Aborted(obj[g]) OBVIOUS
  <2>3. x = [obj[g] EXCEPT !.aborted = obj[g].state = "running"] BY <2>2 DEF Aborted
  <2>4. x.state = obj[g].state /\ x.answering = obj[g].answering /\ x.bus = obj[g].bus
        /\ x \in ObjTypes
    BY <1>2, <2>3 DEF ObjTypes
  <2>5. CASE obj'[g] = [x EXCEPT !.closing = TRUE] BY <2>4, <2>5 DEF SameObject, ObjTypes
  <2> QED BY <2>1, <2>2, <2>5 DEF SameObject
<1>5. StillTable BY <1>1 DEF StillTable
<1> QED BY <1>1, <1>3, <1>4, <1>5, StillStep, SameLogStep DEF logVars

(* A turn journals, or starts a task. *)
LEMMA TurnsStill ==
    ASSUME WInv, LInv, NEW h \in Leases, TurnWrites(h) \/ TaskSpawns(h)
    PROVE  LInv'
<1>1. CASE TurnWrites(h)
  <2>1. /\ Running(h) /\ log' = [log EXCEPT ![Session(h)] = Append(log[Session(h)], Record("other", 0))]
        /\ UNCHANGED <<tableVars, cursor, intr, turnOpen, run, obj, dropped>>
    BY <1>1 DEF TurnWrites
  <2>2. Session(h) \in Sessions BY <2>1, ObjectHasRun, Here DEF Running
  <2>3. Record("other", 0) \in RecordTypes /\ Record("other", 0).kind # "taken"
    BY DEF Record, RecordTypes, InboxKinds
  <2>4. LogStep BY <2>1, <2>2, <2>3, LogAppend DEF LogKept
  <2> QED BY <2>1, <2>4, NothingMoves DEF StillTable
<1>2. CASE TaskSpawns(h)
  <2>1. obj' = [obj EXCEPT ![h].task = TRUE] /\ UNCHANGED <<tableVars, logVars, run, dropped>>
    BY <1>2 DEF TaskSpawns
  <2>2. obj \in [Leases -> ObjTypes] BY DEF WInv, Typed
  <2>3. \A g \in Leases : SameRun(run[g], run'[g]) /\ SameObject(obj[g], obj'[g])
    BY <2>1, <2>2 DEF SameRun, SameObject, ObjTypes
  <2> QED BY <2>1, <2>3, StillStep, SameLogStep DEF StillTable, logVars
<1> QED BY <1>1, <1>2

-----------
(* A run that moves on with what it has keeps to it. *)
LEMMA KeepsOn ==
    ASSUME NEW l, NEW c, NEW i, NEW o, NEW d, NEW e, d # "no" => e # "no",
           NEW r, NEW t, NEW x, NEW y, OnTo(r, t), SameObject(x, y),
           Past(t.pc) /\ o => Past(r.pc) \/ e # "no", KeepsAs(l, c, i, o, d, r, x)
    PROVE  KeepsAs(l, c, i, o, e, t, y)
<1>1. Asked(i, y) BY DEF KeepsAs, Asked, SameObject
<1>2. Feeds(t.pc) => c = t.cur /\ (t.cancelled \/ BeyondCancels(l, t, y))
  <2>1. BeyondCancels(l, r, x) => BeyondCancels(l, t, y) BY DEF BeyondCancels, OnTo, SameObject
  <2> QED BY <2>1 DEF KeepsAs, OnTo
<1>3. Past(t.pc) /\ o => y.state = "running" \/ e # "no" BY DEF KeepsAs, SameObject
<1> QED BY <1>1, <1>2, <1>3 DEF KeepsAs

(* A run that moves on, its object as it was. *)
LEMMA RunGoes ==
    ASSUME WInv, LInv, StillTable, NEW h \in Leases, run[h].pc \notin {"none", "release"},
           NEW t, NEW y, run' = [run EXCEPT ![h] = t], obj' = [obj EXCEPT ![h] = y],
           t.pc \notin {"none", "release"}, OnTo(run[h], t), SameObject(obj[h], y),
           UNCHANGED <<log, cursor, intr, turnOpen>>,
           \/ dropped' = [dropped EXCEPT ![Session(h)] = "error"]
           \/ /\ dropped' = dropped \/ dropped' = [dropped EXCEPT ![Session(h)] = "page"]
              /\ Past(t.pc) => Past(run[h].pc) \/ ~turnOpen[Session(h)]
    PROVE  LInv'
<1> DEFINE s == Session(h)
<1>1. s \in Sessions /\ Keeps(h) /\ Turned(s) BY Here DEF LInv
<1>2. ElsewhereSame(s) BY DEF ElsewhereSame, WInv, Flagged
<1>3. /\ dropped[s] # "no" => dropped'[s] # "no"
      /\ Past(t.pc) /\ turnOpen[s] => Past(run[h].pc) \/ dropped'[s] # "no"
  BY <1>1 DEF WInv, Flagged
<1>4. KeepsAs(log[s], cursor[s], intr[s], turnOpen[s], dropped'[s], t, y)
  BY <1>1, <1>3, KeepsOn DEF Keeps
<1> QED BY <1>1, <1>2, <1>4, ActorKeeps DEF Turned

(* The same for a step of the run alone. *)
LEMMA RunGoesAlone ==
    ASSUME WInv, LInv, NEW h \in Leases, run[h].pc \notin {"none", "release"},
           NEW t, run' = [run EXCEPT ![h] = t], t.pc \notin {"none", "release"},
           OnTo(run[h], t), UNCHANGED <<tableVars, logVars, obj, dropped>>,
           Past(t.pc) => Past(run[h].pc)
    PROVE  LInv'
<1>1. obj' = [obj EXCEPT ![h] = obj[h]] BY DEF WInv, Typed
<1>2. SameObject(obj[h], obj[h]) BY DEF SameObject
<1> QED BY <1>1, <1>2, RunGoes DEF StillTable, logVars

(* And for a read. *)
LEMMA RunReads ==
    ASSUME WInv, LInv, NEW h \in Leases, run[h].pc \in {"read", "step"},
           NEW t, run' = [run EXCEPT ![h] = t], t.pc \notin {"none", "release"},
           OnTo(run[h], t), UNCHANGED <<tableVars, logVars, obj>>,
           NEW from, PageRead(h, from)
    PROVE  LInv'
<1>1. obj' = [obj EXCEPT ![h] = obj[h]] BY DEF WInv, Typed
<1>2. SameObject(obj[h], obj[h]) BY DEF SameObject
<1>3. Session(h) \in Sessions /\ Past(run[h].pc) /\ StillTable /\ run[h].pc \notin {"none", "release"}
  BY Here DEF Past, StillTable
<1>4. dropped' = dropped \/ dropped' = [dropped EXCEPT ![Session(h)] = "page"]
  BY <1>3, PageReadIs
<1> QED BY <1>1, <1>2, <1>3, <1>4, RunGoes DEF logVars

(* The run, up to the read of the inbox. *)
LEMMA EnterLives ==
    ASSUME WInv, LInv, NEW h \in Leases, Enter(h)
    PROVE  LInv'
<1>1. run[h].pc = "start" /\ UNCHANGED <<tableVars, logVars, obj, dropped>> /\ run[h] \in RunTypes
  BY Here DEF Enter
<1>2. PICK t : /\ run' = [run EXCEPT ![h] = t]
               /\ \/ t = [run[h] EXCEPT !.pc = "pass", !.listed = TRUE]
                  \/ t = [run[h] EXCEPT !.pc = "wait", !.behind = Listed(Host(h), Session(h))]
  BY DEF Enter
<1>3. t.pc \in {"pass", "wait"} /\ OnTo(run[h], t)
  <2>1. /\ t.pc \in {"pass", "wait"} /\ t.cur = run[h].cur /\ t.out = run[h].out
        /\ t.cancelled = run[h].cancelled
    BY <1>1, <1>2 DEF RunTypes
  <2> QED BY <2>1 DEF OnTo, Feeds, Listens
<1> QED BY <1>1, <1>2, <1>3, RunGoesAlone DEF Past

(* A read, and the end of a wait. *)
LEMMA ReadLives ==
    ASSUME WInv, LInv, NEW h \in Leases, ReadNothing(h) \/ ReadWork(h) \/ HoldEnds(h)
    PROVE  LInv'
<1>1. PICK pc \in {"after", "open", "close", "step"} :
         /\ Goto(h, pc)
         /\ run[h].pc = IF pc \in {"after", "open"} THEN "read" ELSE "hold"
  BY DEF ReadNothing, ReadWork, HoldEnds
<1>2. /\ UNCHANGED <<tableVars, logVars, obj>>
      /\ dropped' = dropped \/ (run[h].pc = "read" /\ PageRead(h, cursor[Session(h)]))
  BY DEF ReadNothing, ReadWork, HoldEnds
<1>3. run[h] \in RunTypes /\ run \in [Leases -> RunTypes] BY <1>1, Here
<1>4. PICK t : t = [run[h] EXCEPT !.pc = pc] OBVIOUS
<1>5. run' = [run EXCEPT ![h] = t] BY <1>1, <1>3, <1>4 DEF Goto
<1>6. t.pc = pc /\ OnTo(run[h], t)
  <2>1. /\ t.pc = pc /\ t.cur = run[h].cur /\ t.out = run[h].out
        /\ t.cancelled = run[h].cancelled
    BY <1>3, <1>4 DEF RunTypes
  <2> QED BY <1>1, <2>1 DEF OnTo, Feeds, Listens
<1>7. CASE dropped' = dropped BY <1>1, <1>2, <1>5, <1>6, <1>7, RunGoesAlone DEF Past
<1>8. CASE run[h].pc = "read" /\ PageRead(h, cursor[Session(h)])
  BY <1>1, <1>2, <1>5, <1>6, <1>8, RunReads
<1> QED BY <1>2, <1>7, <1>8

(* The last look at the wake, in time. *)
LEMMA AfterLives ==
    ASSUME WInv, LInv, NEW h \in Leases, After(h)
    PROVE  LInv'
<1>1. run[h].pc = "after" /\ UNCHANGED <<tableVars, logVars, obj, dropped>> /\ run[h] \in RunTypes
  BY Here DEF After
<1>2. PICK pc \in {"pass", "finish"} :
         run' = [run EXCEPT ![h] = [@ EXCEPT !.wake = FALSE, !.pc = pc]]
  BY DEF After
<1>3. PICK t : t = [run[h] EXCEPT !.wake = FALSE, !.pc = pc] OBVIOUS
<1>4. t.pc = pc /\ OnTo(run[h], t)
  <2>1. /\ t.pc = pc /\ t.cur = run[h].cur /\ t.out = run[h].out
        /\ t.cancelled = run[h].cancelled
    BY <1>1, <1>3 DEF RunTypes
  <2> QED BY <1>1, <2>1 DEF OnTo, Feeds, Listens
<1>5. run' = [run EXCEPT ![h] = t] BY <1>2, <1>3
<1> QED BY <1>1, <1>4, <1>5, RunGoesAlone DEF Past

(* A failure outside a turn is known to lose the wake. *)
LEMMA FailsLives ==
    ASSUME WInv, LInv, NEW h \in Leases, Fails(h)
    PROVE  LInv'
<1>1. /\ run[h].pc \in {"pass", "read", "open"} /\ Goto(h, "finish")
      /\ dropped' = [dropped EXCEPT ![Session(h)] = "error"]
      /\ UNCHANGED <<row, lease, calls, logVars, obj>>
      /\ (UNCHANGED faults \/ faults' = faults + 1)
  BY DEF Fails
<1>2. run[h] \in RunTypes /\ run \in [Leases -> RunTypes] /\ obj \in [Leases -> ObjTypes]
  BY <1>1, Here
<1>3. PICK t : t = [run[h] EXCEPT !.pc = "finish"] OBVIOUS
<1>4. run' = [run EXCEPT ![h] = t] /\ obj' = [obj EXCEPT ![h] = obj[h]]
  BY <1>1, <1>2, <1>3 DEF Goto
<1>5. t.pc = "finish" /\ OnTo(run[h], t)
  <2>1. /\ t.pc = "finish" /\ t.cur = run[h].cur /\ t.out = run[h].out
        /\ t.cancelled = run[h].cancelled
    BY <1>2, <1>3 DEF RunTypes
  <2> QED BY <1>1, <2>1 DEF OnTo, Feeds, Listens
<1>6. StillTable BY <1>1 DEF StillTable, tableVars
<1>7. SameObject(obj[h], obj[h]) BY DEF SameObject
<1> QED BY <1>1, <1>4, <1>5, <1>6, <1>7, RunGoes DEF logVars

-----------
(* A run that is not in the feed loop owes nothing about its cursor. *)
LEMMA NotFed ==
    ASSUME NEW l, NEW c, NEW i, NEW o, NEW d, NEW t, NEW y, Asked(i, y), ~Feeds(t.pc),
           ~o \/ ~Past(t.pc) \/ d # "no"
    PROVE  KeepsAs(l, c, i, o, d, t, y)
BY DEF KeepsAs

(* A pass closes what a dead holder left open. *)
LEMMA PassLives ==
    ASSUME WInv, LInv, NEW h \in Leases, Pass(h)
    PROVE  LInv'
<1> DEFINE s == Session(h)
<1>1. /\ run[h].pc = "pass"
      /\ run' = [run EXCEPT ![h] = [@ EXCEPT !.pc = "read", !.wake = FALSE]]
      /\ turnOpen' = [turnOpen EXCEPT ![s] = @ /\ intr[s]]
      /\ UNCHANGED <<tableVars, log, cursor, intr, apiVars, obj, dropped>>
  BY DEF Pass
<1>2. s \in Sessions /\ run[h] \in RunTypes /\ obj \in [Leases -> ObjTypes] /\ Keeps(h) /\ Turned(s)
  BY <1>1, Here DEF LInv
<1>3. PICK t : t = [run[h] EXCEPT !.pc = "read", !.wake = FALSE] OBVIOUS
<1>4. run' = [run EXCEPT ![h] = t] /\ obj' = [obj EXCEPT ![h] = obj[h]] BY <1>1, <1>2, <1>3
<1>5. t.pc = "read" BY <1>2, <1>3 DEF RunTypes
<1>6. turnOpen'[s] = FALSE /\ ElsewhereSame(s)
  BY <1>1, <1>2 DEF WInv, Flagged, Turned, ElsewhereSame
<1>7. Asked(intr'[s], obj[h]) BY <1>1, <1>2 DEF Keeps, KeepsAs
<1>8. KeepsAs(log'[s], cursor'[s], intr'[s], turnOpen'[s], dropped'[s], t, obj[h])
  BY <1>5, <1>6, <1>7, NotFed DEF Feeds, Listens
<1>9. StillTable BY <1>1 DEF StillTable
<1> QED BY <1>1, <1>4, <1>5, <1>6, <1>8, <1>9, ActorKeeps

(* Stepping over cancels, without an object. *)
LEMMA StepOverLives ==
    ASSUME WInv, LInv, NEW h \in Leases, StepOverCancels(h)
    PROVE  LInv'
<1> DEFINE s == Session(h)
<1>1. /\ run[h].pc = "read" /\ cursor' = [cursor EXCEPT ![s] = Last(Unread(h))]
      /\ UNCHANGED <<tableVars, log, intr, turnOpen, apiVars, run, obj, dropped>>
  BY DEF StepOverCancels
<1>2. s \in Sessions /\ Keeps(h) /\ Turned(s) BY <1>1, Here DEF LInv
<1>4. run' = [run EXCEPT ![h] = run[h]] /\ obj' = [obj EXCEPT ![h] = obj[h]]
  BY <1>1 DEF WInv, Typed
<1>6. ElsewhereSame(s) /\ (turnOpen'[s] => ~intr'[s])
  BY <1>1, <1>2 DEF WInv, Typed, Turned, ElsewhereSame
<1>7. obj[h] = NoObject BY <1>1 DEF WInv, Placed, Fits, Listens
<1>8. Asked(intr[s], obj[h]) /\ (~turnOpen[s] \/ dropped[s] # "no")
  BY <1>1, <1>2, <1>7, Nothing DEF Keeps, KeepsAs, Past
<1>9. KeepsAs(log'[s], cursor'[s], intr'[s], turnOpen'[s], dropped'[s], run[h], obj[h])
  BY <1>1, <1>8, NotFed DEF Feeds, Listens
<1>10. StillTable BY <1>1 DEF StillTable
<1> QED BY <1>1, <1>4, <1>6, <1>9, <1>10, ActorKeeps

(* An object is opened: nothing is on its bus. *)
LEMMA OpenLives ==
    ASSUME WInv, LInv, NEW h \in Leases, Open(h)
    PROVE  LInv'
<1> DEFINE s == Session(h)
           c == cursor[s]
<1>1. /\ run[h].pc = "open"
      /\ obj' = [obj EXCEPT ![h] = [NoObject EXCEPT !.state = IF intr[s] THEN "paused" ELSE "idle"]]
      /\ run' = [run EXCEPT ![h] =
                    [@ EXCEPT !.pc = "step", !.seen = {}, !.out = <<>>, !.items = <<>>,
                              !.cur = cursor[s], !.resuming = FALSE,
                              !.cancelled = FALSE, !.settled = FALSE]]
      /\ turnOpen' = [turnOpen EXCEPT ![s] = @ /\ intr[s]]
      /\ UNCHANGED <<tableVars, log, cursor, intr, apiVars, dropped>>
  BY DEF Open
<1>2. /\ s \in Sessions /\ run[h] \in RunTypes /\ c \in Nat /\ Turned(s)
      /\ run \in [Leases -> RunTypes] /\ intr[s] \in BOOLEAN
  BY <1>1, Here DEF LInv, WInv, Flagged
<1>6. turnOpen'[s] = FALSE /\ ElsewhereSame(s) /\ cursor'[s] = c /\ intr'[s] = intr[s]
  BY <1>1, <1>2 DEF WInv, Flagged, Turned, ElsewhereSame
<1> HIDE DEF s, c
<1>3. PICK t : t = [run[h] EXCEPT !.pc = "step", !.seen = {}, !.out = <<>>, !.items = <<>>,
                              !.cur = c, !.resuming = FALSE,
                              !.cancelled = FALSE, !.settled = FALSE]
  OBVIOUS
<1>4. PICK y : y = [NoObject EXCEPT !.state = IF intr[s] THEN "paused" ELSE "idle"] OBVIOUS
<1>5. run' = [run EXCEPT ![h] = t] /\ obj' = [obj EXCEPT ![h] = y]
  BY <1>1, <1>2, <1>3, <1>4 DEF c
<1>7. t.pc = "step" /\ t.out = <<>> /\ t.cur = c
  <2>1. \A r \in RunTypes : \A n \in Nat :
           LET u == [r EXCEPT !.pc = "step", !.seen = {}, !.out = <<>>, !.items = <<>>,
                              !.cur = n, !.resuming = FALSE,
                              !.cancelled = FALSE, !.settled = FALSE]
           IN u.pc = "step" /\ u.out = <<>> /\ u.cur = n
    BY DEF RunTypes
  <2> QED BY <1>2, <1>3, <2>1
<1>8. y.bus = <<>> /\ y.answering = 0 /\ y.state = IF intr[s] THEN "paused" ELSE "idle"
  <2>1. \A x \in ObjTypes : \A a \in {"paused", "idle"} :
           LET z == [x EXCEPT !.state = a]
           IN z.bus = x.bus /\ z.answering = x.answering /\ z.state = a
    BY DEF ObjTypes
  <2>2. PICK a \in {"paused", "idle"} : a = IF intr[s] THEN "paused" ELSE "idle" OBVIOUS
  <2>3. y = [NoObject EXCEPT !.state = a] BY <1>4, <2>2
  <2> QED BY <2>1, <2>2, <2>3, Nothing
<1>9. Asked(intr[s], y) BY <1>2, <1>8 DEF Asked
<1>10. BeyondCancels(log'[s], t, y)
  <2>1. Len(t.out) = 0 /\ Len(y.bus) = 0 BY <1>7, <1>8
  <2>2. 1..0 = {} OBVIOUS
  <2> QED BY <2>1, <2>2 DEF BeyondCancels
<1>11. KeepsAs(log'[s], cursor'[s], intr'[s], turnOpen'[s], dropped'[s], t, y)
  BY <1>6, <1>7, <1>9, <1>10 DEF KeepsAs
<1>12. StillTable BY <1>1 DEF StillTable
<1> QED BY <1>1, <1>5, <1>6, <1>7, <1>11, <1>12, ActorKeeps DEF s

(* The next read of the inbox, and where holdOpen leads. *)
LEMMA StepLives ==
    ASSUME WInv, LInv, NEW h \in Leases, Step(h)
    PROVE  LInv'
<1> DEFINE q == readInbox(Session(h), run[h].cur, ToSet(run[h].out))
<1>1. /\ run[h].pc = "step" /\ UNCHANGED <<tableVars, logVars, obj>> /\ run[h] \in RunTypes
      /\ PageRead(h, run[h].cur)
  BY Here DEF Step
<1>2. PICK t : /\ run' = [run EXCEPT ![h] = t]
               /\ \/ t = [run[h] EXCEPT !.pc = "close"]
                  \/ t = [run[h] EXCEPT !.pc = "feed", !.wake = FALSE, !.items = q]
  BY DEF Step
<1> HIDE DEF q
<1>3. /\ t.pc \in {"close", "feed"} /\ t.cur = run[h].cur /\ t.out = run[h].out
      /\ t.cancelled = run[h].cancelled
  BY <1>1, <1>2 DEF RunTypes
<1>4. OnTo(run[h], t) BY <1>1, <1>3 DEF OnTo, Feeds, Listens
<1> QED BY <1>1, <1>2, <1>3, <1>4, RunReads

(* holdOpen has looked at what is in flight. *)
LEMMA HoldingLives ==
    ASSUME WInv, LInv, NEW h \in Leases, CursorStored(h) \/ FeedPaused(h)
    PROVE  LInv'
<1>1. /\ run[h].pc \in {"put", "feed"} /\ UNCHANGED <<tableVars, logVars, obj, dropped>>
      /\ run' = [run EXCEPT ![h] = [@ EXCEPT !.pc = HoldOrClose(h), !.settled = FALSE]]
  BY DEF CursorStored, FeedPaused
<1>2. run[h] \in RunTypes BY <1>1, Here
<1>3. PICK pc \in {"step", "hold", "close"} : pc = HoldOrClose(h) BY HoldOrCloseWhere
<1>4. PICK t : t = [run[h] EXCEPT !.pc = pc, !.settled = FALSE] OBVIOUS
<1>5. run' = [run EXCEPT ![h] = t] BY <1>1, <1>3, <1>4
<1>6. t.pc = pc /\ t.cur = run[h].cur /\ t.out = run[h].out /\ t.cancelled = run[h].cancelled
  BY <1>2, <1>4 DEF RunTypes
<1>7. OnTo(run[h], t) BY <1>1, <1>6 DEF OnTo, Feeds, Listens
<1> QED BY <1>1, <1>5, <1>6, <1>7, RunGoesAlone DEF Past

(* A cancel is fed. *)
LEMMA FeedCancelLives ==
    ASSUME WInv, LInv, NEW h \in Leases, FeedCancel(h)
    PROVE  LInv'
<1> DEFINE s == Session(h)
           q == run[h].out \o SubSeq(run[h].items, 1, LastCancel(s, run[h].items))
           T == run[h].seen \union ToSet(run[h].out)
                  \union ToSet(SubSeq(run[h].items, 1, LastCancel(s, run[h].items)))
<1>1. /\ run[h].pc = "feed" /\ UNCHANGED <<tableVars, logVars, apiVars, dropped>>
      /\ run' = [run EXCEPT ![h] = [run[h] EXCEPT !.pc = "cancel", !.out = q, !.seen = T]]
      /\ obj' = [obj EXCEPT ![h] = [Aborted(obj[h]) EXCEPT !.again = FALSE]]
  BY DEF FeedCancel
<1>2. /\ s \in Sessions /\ run[h] \in RunTypes /\ obj[h] \in ObjTypes /\ Keeps(h) /\ Turned(s)
  BY <1>1, Here DEF LInv
<1> HIDE DEF q, T
<1>3. PICK t : t = [run[h] EXCEPT !.pc = "cancel", !.out = q, !.seen = T] OBVIOUS
<1>4. PICK y : y = [Aborted(obj[h]) EXCEPT !.again = FALSE] OBVIOUS
<1>5. run' = [run EXCEPT ![h] = t] /\ obj' = [obj EXCEPT ![h] = y] BY <1>1, <1>3, <1>4
<1>6. t.pc = "cancel" /\ t.cur = run[h].cur /\ t.cancelled = run[h].cancelled
  BY <1>2, <1>3 DEF RunTypes
<1>7. SameObject(obj[h], y) BY <1>2, <1>4 DEF ObjTypes, Aborted, SameObject
<1>8. KeepsAs(log[s], cursor[s], intr[s], turnOpen[s], dropped[s], t, y)
  <2>1. KeepsAs(log[s], cursor[s], intr[s], turnOpen[s], dropped[s], run[h], obj[h])
    BY <1>2 DEF Keeps
  <2>2. Feeds(run[h].pc) /\ Past(run[h].pc) BY <1>1 DEF Feeds, Listens, Past
  <2>3. Asked(intr[s], y) BY <1>7, <2>1 DEF KeepsAs, Asked, SameObject
  <2>4. BeyondCancels(log[s], run[h], obj[h]) => BeyondCancels(log[s], t, y)
    BY <1>6, <1>7 DEF BeyondCancels, SameObject
  <2> QED BY <1>6, <1>7, <2>1, <2>2, <2>3, <2>4 DEF KeepsAs, SameObject
<1>9. ElsewhereSame(s) /\ (turnOpen'[s] => ~intr'[s]) /\ StillTable
  BY <1>1, <1>2 DEF ElsewhereSame, Turned, StillTable, logVars
<1> QED BY <1>1, <1>5, <1>6, <1>8, <1>9, ActorKeeps DEF logVars

(* The object is closed, and gone. *)
LEMMA CloseLives ==
    ASSUME WInv, LInv, NEW h \in Leases, Close(h)
    PROVE  LInv'
<1>1. run[h].pc = "close" /\ Goto(h, "closing") /\ UNCHANGED <<tableVars, logVars, apiVars, dropped>>
  BY DEF Close
<1>2. run[h] \in RunTypes /\ obj[h] \in ObjTypes /\ run \in [Leases -> RunTypes] BY <1>1, Here
<1>3. PICK t : t = [run[h] EXCEPT !.pc = "closing"] OBVIOUS
<1>4. PICK y : y = [Aborted(obj[h]) EXCEPT !.closing = TRUE] OBVIOUS
<1>5. run' = [run EXCEPT ![h] = t] /\ obj' = [obj EXCEPT ![h] = y]
  BY <1>1, <1>2, <1>3, <1>4 DEF Goto, Close
<1>6. t.pc = "closing" /\ t.cur = run[h].cur /\ t.out = run[h].out /\ t.cancelled = run[h].cancelled
  BY <1>2, <1>3 DEF RunTypes
<1>7. OnTo(run[h], t) BY <1>1, <1>6 DEF OnTo, Feeds, Listens
<1>8. SameObject(obj[h], y) BY <1>2, <1>4 DEF ObjTypes, Aborted, SameObject
<1>9. StillTable BY <1>1 DEF StillTable
<1> QED BY <1>1, <1>5, <1>6, <1>7, <1>8, <1>9, RunGoes DEF logVars, Past

(* An object that is closed leaves no turn open. *)
LEMMA ClosedLives ==
    ASSUME WInv, LInv, NEW h \in Leases, Closed(h)
    PROVE  LInv'
<1> DEFINE s == Session(h)
<1>1. /\ run[h].pc = "closing" /\ UNCHANGED <<tableVars, logVars, apiVars, dropped>> /\ ~Running(h)
      /\ obj' = [obj EXCEPT ![h] = NoObject]
      /\ Goto(h, IF run[h].cancelled THEN "read" ELSE "after")
  BY DEF Closed
<1>2. s \in Sessions /\ run[h] \in RunTypes /\ run \in [Leases -> RunTypes] /\ Keeps(h) /\ Turned(s)
  BY <1>1, Here DEF LInv
<1>3. PICK pc \in {"read", "after"} : Goto(h, pc) BY <1>1
<1>4. PICK t : t = [run[h] EXCEPT !.pc = pc] OBVIOUS
<1>5. t.pc = pc /\ run' = [run EXCEPT ![h] = t] BY <1>2, <1>3, <1>4 DEF RunTypes, Goto
<1>6. Asked(intr[s], NoObject) BY Nothing DEF Asked
<1>7. ~turnOpen[s] \/ dropped[s] # "no" BY <1>1, <1>2 DEF Keeps, KeepsAs, Past, Running
<1>8. KeepsAs(log[s], cursor[s], intr[s], turnOpen[s], dropped[s], t, NoObject)
  BY <1>5, <1>6, <1>7, NotFed DEF Feeds, Listens
<1>9. ElsewhereSame(s) /\ (turnOpen'[s] => ~intr'[s]) /\ StillTable
  BY <1>1, <1>2 DEF ElsewhereSame, Turned, StillTable, logVars
<1> QED BY <1>1, <1>5, <1>8, <1>9, ActorKeeps DEF logVars

-----------
(* The cursor moves over nothing but what was outstanding, in which there
   is no cancel. *)
LEMMA BeyondAdvances ==
    ASSUME NEW l \in Logs, NEW r \in RunTypes, NEW t, NEW x \in ObjTypes, r.pc = "sleep",
           Held(l, r, x), BeyondCancels(l, r, x),
           t.out = Advanced(r).out, t.cur = Advanced(r).cur
    PROVE  BeyondCancels(l, t, x)
<1>1. Lined(l, r.out, r.cur)
  <2>1. Line(r) = r.out BY DEF Line
  <2> QED BY <2>1 DEF Held, Reads, Listens
<1>2. r.out \in Seq(Nat) /\ Len(r.out) \in Nat /\ r.cur \in Nat /\ x.bus \in Seq(Nat) /\ Len(l) \in Nat
  BY DEF RunTypes, ObjTypes, Logs
<1>3. \A i \in 1..Len(r.out) : l[r.out[i]].kind # "cancel" BY DEF BeyondCancels, Listens
<1>k. PICK k \in Nat : k = ConsumedPrefix(r.out, r.seen) BY AdvancedFacts
<1>4. CASE k = 0
  <2>1. t.out = r.out /\ t.cur = r.cur BY <1>4, <1>k, AdvancedFacts
  <2> QED BY <2>1, <1>3 DEF BeyondCancels
<1>5. CASE k # 0
  <2>1. k \in 1..Len(r.out) /\ t.out = SubSeq(r.out, k + 1, Len(r.out)) /\ t.cur = r.out[k]
    <3>1. /\ k \in 1..Len(r.out) /\ Advanced(r).out = SubSeq(r.out, k + 1, Len(r.out))
          /\ Advanced(r).cur = r.out[k]
      BY <1>5, <1>k, AdvancedFacts
    <3> QED BY <3>1
  <2>2. ASSUME NEW i \in 1..Len(x.bus), NEW q \in (x.bus[i] + 1)..t.cur PROVE l[q].kind # "cancel"
    <3>1. r.out[k] \in 1..Len(l) /\ x.bus[i] \in Nat /\ r.out[k] \in Nat
      <4>1. r.out[k] \in 1..Len(l) BY <1>1, <2>1 DEF Lined
      <4>2. \A b \in Seq(Nat) : \A j \in 1..Len(b) : b[j] \in Nat OBVIOUS
      <4> QED BY <4>1, <4>2, <1>2, <2>2, SMTT(30)
    <3>2. q \in Nat /\ x.bus[i] < q /\ q <= r.out[k] BY <2>1, <3>1
    <3>3. CASE q <= r.cur
      <4>1. q \in (x.bus[i] + 1)..r.cur BY <3>1, <3>2, <3>3, <1>2
      <4> QED BY <4>1 DEF BeyondCancels
    <3>4. CASE q = r.out[k] BY <3>4, <2>1, <1>3
    <3>5. CASE r.cur < q /\ q < r.out[k]
      <4>1. q \in 1..Len(l) BY <3>1, <3>2, <1>2, SMTT(30)
      <4>2. l[q].kind = "cancel" => \E j \in 1..Len(r.out) : r.out[j] = q
        BY <4>1, <3>5, <2>1, <1>1 DEF Lined, InboxKinds
      <4> QED BY <4>2, <1>3
    <3> QED BY <3>1, <3>2, <3>3, <3>4, <3>5, <1>2
  <2>3. ASSUME NEW i \in 1..Len(t.out) PROVE l[t.out[i]].kind # "cancel"
    <3>1. (k + 1) \in 1..(Len(r.out) + 1) /\ Len(r.out) \in (k + 1 - 1)..Len(r.out)
      BY <1>2, <2>1
    <3>2. /\ Len(t.out) = Len(r.out) - (k + 1) + 1
          /\ \A j \in 1..(Len(r.out) - (k + 1) + 1) : t.out[j] = r.out[k + 1 + j - 1]
      BY <1>2, <2>1, <3>1, CutOut, SMTT(30)
    <3>3. \A m \in Nat : i \in 1..(m - (k + 1) + 1) => k + 1 + i - 1 \in 1..m BY <1>k
    <3>4. k + 1 + i - 1 \in 1..Len(r.out) /\ t.out[i] = r.out[k + 1 + i - 1]
      BY <1>2, <3>2, <3>3, <2>3
    <3> QED BY <3>4, <1>3
  <2> QED BY <2>2, <2>3 DEF BeyondCancels
<1> QED BY <1>4, <1>5

(* The cursor that is stored is the run's. *)
LEMMA PutKeepsStep ==
    ASSUME WInv, NEW h \in Leases, run[h].pc # "none", CursorPut(h),
           cursor[Session(h)] = run[h].cur
    PROVE  /\ cursor'[Session(h)] = Advanced(run[h]).cur
           /\ \A u \in Sessions \ {Session(h)} : cursor'[u] = cursor[u]
<1>1. Session(h) \in Sessions /\ run[h] \in RunTypes /\ cursor \in [Sessions -> Nat]
  BY Here DEF WInv, Typed
<1>2. CASE Moved(h) BY <1>1, <1>2 DEF CursorPut
<1>3. CASE ~Moved(h)
  <2>1. ConsumedPrefix(run[h].out, run[h].seen) = 0 BY <1>1, <1>3, AdvancedFacts DEF Moved
  <2>2. Advanced(run[h]).cur = run[h].cur BY <1>1, <2>1, AdvancedFacts
  <2> QED BY <1>3, <2>2 DEF CursorPut
<1> QED BY <1>2, <1>3

(* A step of the feed loop that stores the cursor. *)
LEMMA PutsLive ==
    ASSUME WInv, LInv, NEW h \in Leases, run[h].pc \in {"sleep", "cancel"}, CursorPut(h), NEW t,
           run' = [run EXCEPT ![h] = t],
           UNCHANGED <<tableVars, log, intr, turnOpen, apiVars, obj, dropped>>,
           t.pc \in {"step", "put", "hold", "close"}, t.cur = Advanced(run[h]).cur,
           t.cancelled \/ (run[h].cancelled = t.cancelled /\ run[h].pc = "sleep" /\ t.out = Advanced(run[h]).out)
    PROVE  LInv'
<1> DEFINE s == Session(h)
<1>1. /\ s \in Sessions /\ run[h] \in RunTypes /\ Keeps(h) /\ Turned(s) /\ obj[h] \in ObjTypes
      /\ log[s] \in Logs /\ Held(log[s], run[h], obj[h]) /\ obj \in [Leases -> ObjTypes]
  BY Here DEF LInv
<1>2. KeepsAs(log[s], cursor[s], intr[s], turnOpen[s], dropped[s], run[h], obj[h])
  BY <1>1 DEF Keeps
<1>3. Feeds(run[h].pc) /\ Past(run[h].pc) BY DEF Feeds, Listens, Past
<1>4. cursor'[s] = t.cur /\ \A u \in Sessions \ {s} : cursor'[u] = cursor[u]
  BY <1>2, <1>3, PutKeepsStep DEF KeepsAs
<1>5. t.cancelled \/ BeyondCancels(log[s], t, obj[h])
  BY <1>1, <1>2, <1>3, BeyondAdvances DEF KeepsAs
<1>6. KeepsAs(log'[s], cursor'[s], intr'[s], turnOpen'[s], dropped'[s], t, obj[h])
  BY <1>2, <1>3, <1>4, <1>5 DEF KeepsAs
<1>7. obj' = [obj EXCEPT ![h] = obj[h]] /\ StillTable BY <1>1 DEF StillTable
<1>8. ElsewhereSame(s) /\ (turnOpen'[s] => ~intr'[s]) BY <1>1, <1>4 DEF ElsewhereSame, Turned
<1> QED BY <1>6, <1>7, <1>8, ActorKeeps

(* Everything up to a cancel is consumed by an object that is closed next. *)
LEMMA CancelSettlesLives ==
    ASSUME WInv, LInv, NEW h \in Leases, CancelSettles(h)
    PROVE  LInv'
<1>1. /\ run[h].pc = "cancel" /\ CursorPut(h)
      /\ run' = [run EXCEPT ![h] = [Advanced(run[h]) EXCEPT !.pc = "close", !.cancelled = TRUE]]
      /\ UNCHANGED <<tableVars, log, intr, turnOpen, apiVars, obj, dropped>>
  BY DEF CancelSettles
<1>2. PICK t : t = [Advanced(run[h]) EXCEPT !.pc = "close", !.cancelled = TRUE] OBVIOUS
<1>3. t.pc = "close" /\ t.cancelled /\ t.cur = Advanced(run[h]).cur
  <2>1. Advanced(run[h]) \in RunTypes BY <1>1, Here, AdvancedFacts
  <2> QED BY <1>2, <2>1 DEF RunTypes
<1> QED BY <1>1, <1>2, <1>3, PutsLive

(* The feed loop advances the cursor over what is consumed. *)
LEMMA WakesLives ==
    ASSUME WInv, LInv, NEW h \in Leases, NEW settled \in {"idle", "woken"}, Wakes(h, settled)
    PROVE  LInv'
<1> DEFINE idle == settled = "idle"
           done == idle /\ run[h].items = <<>>
           to == IF ~done THEN "step" ELSE IF Moved(h) THEN "put" ELSE HoldOrClose(h)
           left == run[h].resuming /\ ~idle
           kept == run[h].settled /\ ~done
           A == Advanced(run[h])
<1>1. /\ run[h].pc = "sleep" /\ CursorPut(h)
      /\ run' = [run EXCEPT ![h] = [A EXCEPT !.pc = to, !.resuming = left, !.settled = kept]]
      /\ UNCHANGED <<tableVars, log, intr, turnOpen, apiVars, obj, dropped>>
  BY DEF Wakes
<1>2. A \in RunTypes /\ run[h] \in RunTypes BY <1>1, Here, AdvancedFacts
<1>3. PICK pc \in {"step", "put", "hold", "close"} : pc = to BY HoldOrCloseWhere
<1>4. PICK t : t = [A EXCEPT !.pc = pc, !.resuming = left, !.settled = kept] OBVIOUS
<1>5. run' = [run EXCEPT ![h] = t] BY <1>1, <1>3, <1>4
<1> HIDE DEF to, left, kept
<1>6. t.pc = pc /\ t.cur = A.cur /\ t.out = A.out /\ t.cancelled = A.cancelled
  <2> HIDE DEF A
  <2> QED BY <1>2, <1>4 DEF RunTypes
<1>7. A.cancelled = run[h].cancelled
  <2>1. PICK q, c : A = [run[h] EXCEPT !.out = q, !.cur = c] BY DEF Advanced
  <2> DEFINE r == run[h]
  <2>2. r \in RunTypes BY <1>2
  <2>3. A = [r EXCEPT !.out = q, !.cur = c] BY <2>1
  <2> HIDE DEF A, r
  <2>4. A.cancelled = r.cancelled BY <2>2, <2>3 DEF RunTypes
  <2> QED BY <2>4 DEF r
<1>8. t.pc \in {"step", "put", "hold", "close"} /\ t.cur = Advanced(run[h]).cur BY <1>3, <1>6
<1>9. run[h].cancelled = t.cancelled /\ run[h].pc = "sleep" /\ t.out = Advanced(run[h]).out
  BY <1>1, <1>6, <1>7
<1> HIDE DEF A
<1> QED BY <1>1, <1>5, <1>8, <1>9, PutsLive

-----------
(* What feeding does to the state of an object. *)
LEMMA FedObjectAsked ==
    ASSUME NEW x \in ObjTypes, NEW inputs \in Seq(Nat), NEW starts \in Nat, x.state # "none",
           starts # 0 => x.state = "paused", NEW i \in BOOLEAN, Asked(i, x)
    PROVE  LET y == [FedObject(x, inputs, starts) EXCEPT !.again = FALSE] IN
           /\ y.bus = x.bus \o inputs /\ Asked(i, y)
           /\ x.state = "running" => y.state = "running"
           /\ FedObject(x, inputs, starts).state = y.state
           /\ x.state = "idle" => ~i
<1> DEFINE z == FedObject(x, inputs, starts)
           y == [z EXCEPT !.again = FALSE]
           u == [x EXCEPT !.bus = x.bus \o inputs]
<1>1. x.bus \o inputs \in Seq(Nat) BY DEF ObjTypes
<1>2. u \in ObjTypes /\ u.bus = x.bus \o inputs /\ u.state = x.state /\ u.answering = x.answering
  BY <1>1 DEF ObjTypes
<1>3. \/ starts # 0 /\ z = [u EXCEPT !.state = "running", !.answering = starts]
      \/ starts = 0 /\ z = Woken(u)
  BY DEF FedObject
<1> HIDE DEF u, z
<1>4. Woken(u) = u \/ (u.state = "idle" /\ Woken(u) = [u EXCEPT !.state = "running", !.again = TRUE])
  BY DEF Woken
<1>5. z \in ObjTypes /\ z.bus = x.bus \o inputs
      /\ \/ starts # 0 /\ z.state = "running" /\ z.answering = starts
         \/ starts = 0 /\ z.answering = x.answering /\ z.state = x.state
         \/ starts = 0 /\ z.answering = x.answering /\ z.state = "running" /\ x.state = "idle"
  <2>1. CASE starts # 0 BY <2>1, <1>2, <1>3 DEF ObjTypes
  <2>2. CASE starts = 0 /\ Woken(u) = u BY <2>2, <1>2, <1>3
  <2>3. CASE starts = 0 /\ u.state = "idle" /\ Woken(u) = [u EXCEPT !.state = "running", !.again = TRUE]
    BY <2>3, <1>2, <1>3, ZenonT(60) DEF ObjTypes
  <2> QED BY <2>1, <2>2, <2>3, <1>3, <1>4
<1>6. y.bus = z.bus /\ y.state = z.state /\ y.answering = z.answering BY <1>5 DEF ObjTypes
<1>7. Asked(i, y) BY <1>5, <1>6 DEF Asked, ObjTypes
<1>8. x.state = "idle" => ~i BY DEF Asked
<1>9. x.state = "running" => y.state = "running" BY <1>5, <1>6
<1> QED BY <1>5, <1>6, <1>7, <1>8, <1>9 DEF z

(* Every item of sequences in a row is one of one of them. *)
LEMMA JoinedHasEither ==
    ASSUME NEW a \in Seq(Nat), NEW b \in Seq(Nat), NEW i \in 1..Len(a \o b)
    PROVE  Has(a, (a \o b)[i]) \/ Has(b, (a \o b)[i])
<1>1. \/ i \in 1..Len(a) /\ (a \o b)[i] = a[i]
      \/ i - Len(a) \in 1..Len(b) /\ (a \o b)[i] = b[i - Len(a)]
  BY Joined
<1>2. ASSUME NEW j \in 1..Len(a) PROVE Has(a, a[j]) BY DEF Has
<1>3. ASSUME NEW j \in 1..Len(b) PROVE Has(b, b[j]) BY DEF Has
<1> QED BY <1>1, <1>2, <1>3

(* What an object is fed joins its bus. *)
LEMMA JoinedHas ==
    ASSUME NEW a \in Seq(Nat), NEW b \in Seq(Nat), NEW c \in Seq(Nat),
           NEW i \in 1..Len(a \o b \o c)
    PROVE  Has(a, (a \o b \o c)[i]) \/ Has(b, (a \o b \o c)[i]) \/ Has(c, (a \o b \o c)[i])
<1> DEFINE d == a \o b
<1>1. d \in Seq(Nat) BY Joined
<1>2. Has(d, (d \o c)[i]) \/ Has(c, (d \o c)[i])
  <2>1. i \in 1..Len(d \o c) OBVIOUS
  <2> HIDE DEF d
  <2> QED BY <1>1, <2>1, JoinedHasEither
<1>3. ASSUME NEW p, Has(d, p) PROVE Has(a, p) \/ Has(b, p)
  <2>1. PICK j \in 1..Len(a \o b) : (a \o b)[j] = p BY <1>3 DEF Has
  <2> QED BY <2>1, JoinedHasEither
<1> QED BY <1>2, <1>3

(* What is fed lies beyond the cursor and no cancel is among it. *)
LEMMA BeyondFed ==
    ASSUME NEW l \in Logs, NEW r \in RunTypes, NEW t, NEW x \in ObjTypes, NEW y,
           r.pc = "feed", Reads(l, r), BeyondCancels(l, r, x),
           \A i \in 1..Len(r.items) : l[r.items[i]].kind # "cancel",
           NEW k \in Seq(Nat), NEW f \in Seq(Nat), NEW inputs \in Seq(Nat),
           \A p : Has(k, p) \/ Has(f, p) \/ Has(inputs, p) => Has(r.items, p),
           t.out = r.out \o k \o f, t.cur = r.cur, y.bus = x.bus \o inputs
    PROVE  BeyondCancels(l, t, y)
<1>1. r.out \in Seq(Nat) /\ r.items \in Seq(Nat) /\ x.bus \in Seq(Nat) /\ r.cur \in Nat /\ Len(l) \in Nat
  BY DEF RunTypes, ObjTypes, Logs
<1>2. \A i \in 1..Len(r.out) : l[r.out[i]].kind # "cancel" BY DEF BeyondCancels, Listens
<1>3. \A p : Has(r.items, p) => r.cur < p /\ p \in Nat
  <2>1. Lined(l, r.out \o r.items, r.cur) BY DEF Reads, Line
  <2>2. ASSUME NEW i \in 1..Len(r.items) PROVE r.cur < r.items[i] /\ r.items[i] \in Nat
    <3> DEFINE a == r.out
               q == r.items
    <3>1. a \in Seq(Nat) /\ q \in Seq(Nat) BY <1>1
    <3> HIDE DEF a, q
    <3>2. Len(a) + i \in 1..Len(a \o q) /\ (a \o q)[Len(a) + i] = q[i]
      <4>1. Len(a \o q) = Len(a) + Len(q) /\ Len(a) \in Nat /\ Len(q) \in Nat
            /\ \A j \in 1..Len(q) : (a \o q)[Len(a) + j] = q[j]
        BY <3>1, Joined
      <4>2. i \in 1..Len(q) BY <2>2 DEF q
      <4> QED BY <4>1, <4>2
    <3>3. q[i] \in 1..Len(l) /\ r.cur < q[i] BY <2>1, <3>2 DEF Lined, a, q
    <3> QED BY <3>3, <1>1 DEF q
  <2> QED BY <2>2 DEF Has
<1>4. ASSUME NEW i \in 1..Len(t.out) PROVE l[t.out[i]].kind # "cancel"
  <2>1. i \in 1..Len(r.out \o k \o f) BY <1>4
  <2>2. Has(r.out, t.out[i]) \/ Has(k, t.out[i]) \/ Has(f, t.out[i]) BY <2>1, <1>1, JoinedHas
  <2> QED BY <2>2, <1>2 DEF Has
<1>5. ASSUME NEW i \in 1..Len(y.bus), NEW q \in (y.bus[i] + 1)..t.cur PROVE l[q].kind # "cancel"
  <2> DEFINE b == x.bus
  <2>1. b \in Seq(Nat) /\ i \in 1..Len(b \o inputs) /\ y.bus[i] = (b \o inputs)[i] BY <1>1, <1>5
  <2> HIDE DEF b
  <2>2. Has(b, y.bus[i]) \/ Has(inputs, y.bus[i]) BY <2>1, JoinedHasEither
  <2>3. CASE Has(b, y.bus[i])
    <3>1. PICK j \in 1..Len(x.bus) : x.bus[j] = y.bus[i] BY <2>3 DEF Has, b
    <3>2. q \in (x.bus[j] + 1)..r.cur BY <3>1, <1>5
    <3> QED BY <3>2 DEF BeyondCancels
  <2>4. CASE Has(inputs, y.bus[i])
    <3>1. r.cur < y.bus[i] /\ y.bus[i] \in Nat BY <2>4, <1>3
    <3>2. \A n, m \in Nat : m < n => (n + 1)..m = {} OBVIOUS
    <3>3. (y.bus[i] + 1)..t.cur = {} BY <3>1, <3>2, <1>1
    <3> QED BY <3>3, <1>5
  <2> QED BY <2>2, <2>3, <2>4
<1> QED BY <1>4, <1>5 DEF BeyondCancels

(* The inputs are queued and the answer is given. *)
LEMMA FeedLives ==
    ASSUME WInv, LInv, NEW h \in Leases, Feed(h)
    PROVE  LInv'
<1> DEFINE s == Session(h)
           l == log[s]
           q == run[h].items
           r == IF AwaitsAnswer(h) THEN FirstResume(s, q) ELSE 1
           k == SubSeq(q, 1, r - 1)
           e == SubSeq(q, r, Len(q))
           f == IF Halted(h) THEN <<>> ELSE e
           inputs == Among(l, f, "input")
           resumes == Among(l, f, "resume")
           starts == IF obj[h].state = "paused" /\ resumes # <<>> THEN Head(resumes) ELSE 0
           x == FedObject(obj[h], inputs, starts)
<1>1. /\ run[h].pc = "feed" /\ LastCancel(s, q) = 0 /\ r # 0
      /\ obj' = [obj EXCEPT ![h] = [x EXCEPT !.again = FALSE]]
      /\ turnOpen' = [turnOpen EXCEPT ![s] = @ \/ (obj[h].state = "idle" /\ x.state = "running")]
      /\ run' = [run EXCEPT ![h] =
           [@ EXCEPT !.pc = "sleep", !.items = e,
                   !.out = run[h].out \o k \o f,
                   !.seen = run[h].seen \union ToSet(k)
                               \union (ToSet(resumes) \ {starts}),
                   !.resuming = run[h].resuming \/ resumes # <<>>]]
      /\ UNCHANGED <<tableVars, log, cursor, intr, apiVars, dropped>>
  BY ZenonT(60) DEF Feed, FedObject, Among, Kind
<1>2. /\ s \in Sessions /\ run[h] \in RunTypes /\ l \in Logs
      /\ Fits(run[h].pc, obj[h]) /\ obj[h] \in ObjTypes /\ Held(l, run[h], obj[h])
      /\ obj \in [Leases -> ObjTypes] /\ run \in [Leases -> RunTypes]
      /\ Keeps(h) /\ Turned(s) /\ intr[s] \in BOOLEAN /\ turnOpen[s] \in BOOLEAN
  BY <1>1, Here DEF LInv, WInv, Flagged
<1>3. q \in Seq(Nat) /\ run[h].out \in Seq(Nat) /\ Len(q) \in Nat BY <1>2 DEF RunTypes
<1>4. FirstResume(s, q) \in 0..Len(q) /\ \A i \in 1..Len(q) : l[q[i]].kind # "cancel"
  <2>1. FirstResume(s, q) \in 0..Len(q) /\ \A i \in 1..Len(q) : Kind(s, q[i]) # "cancel"
    <3> HIDE DEF s, q
    <3> QED BY <1>1, <1>2, <1>3, Selected
  <2> QED BY <2>1 DEF Kind
<1>5. r \in 1..(Len(q) + 1)
  <2> DEFINE n == FirstResume(s, q)
  <2>1. n \in 0..Len(q) /\ (r = n \/ r = 1) /\ r # 0 BY <1>1, <1>4
  <2> HIDE DEF n, r
  <2> QED BY <2>1, <1>3
<1>6. f = e \/ f = <<>> OBVIOUS
<1> HIDE DEF r, f, s, l, q, inputs, resumes, starts, x
<1>7. /\ k \in Seq(Nat) /\ f \in Seq(Nat)
      /\ \A p : Has(k, p) \/ Has(f, p) => Has(q, p)
  <2>1. /\ k \in Seq(Nat) /\ f \in Seq(Nat)
        /\ \A p : Has(k, p) <=> \E i \in 1..(r - 1) : q[i] = p
        /\ \A p : Has(f, p) => \E i \in r..Len(q) : q[i] = p
    BY <1>3, <1>5, <1>6, CutTwice
  <2>2. \A i \in 1..(r - 1) : i \in 1..Len(q) BY <1>3, <1>5
  <2>3. \A i \in r..Len(q) : i \in 1..Len(q) BY <1>3, <1>5
  <2> HIDE DEF k
  <2> QED BY <2>1, <2>2, <2>3 DEF Has
<1> HIDE DEF k, e
<1>8. Reads(l, run[h]) /\ InLog(l, cursor[s], run[h], obj[h])
  BY <1>1, <1>2, LiesInLog DEF Held, Listens, l, s
<1>10. \A p : Has(f, p) => p \in 1..Len(l)
  <2>1. \A i \in 1..Len(q) : q[i] \in 1..Len(l)
    <3> DEFINE o == run[h].out
    <3>1. Lined(l, o \o q, run[h].cur) /\ o \in Seq(Nat) BY <1>1, <1>3, <1>8 DEF Reads, Line, q
    <3> HIDE DEF o
    <3>2. /\ Len(o \o q) = Len(o) + Len(q) /\ Len(o) \in Nat
          /\ \A i \in 1..Len(q) : (o \o q)[Len(o) + i] = q[i]
      BY <3>1, <1>3, Joined
    <3>3. \A i \in 1..Len(q) : Len(o) + i \in 1..Len(o \o q) BY <3>2, <1>3
    <3> QED BY <3>1, <3>2, <3>3 DEF Lined
  <2> QED BY <2>1, <1>7 DEF Has
<1>11. inputs \in Seq(Nat) /\ \A p : Has(inputs, p) => Has(f, p)
  <2>1. inputs \in Seq(Nat) /\ \A i \in 1..Len(inputs) : Has(f, inputs[i])
    BY <1>2, <1>7, <1>10, AmongFacts DEF inputs
  <2> QED BY <2>1 DEF Has
<1>12. starts \in Nat /\ (starts # 0 => obj[h].state = "paused")
  <2>1. CASE obj[h].state = "paused" /\ resumes # <<>>
    <3>1. resumes \in Seq(Nat) BY <1>2, <1>7, <1>10, AmongFacts DEF resumes
    <3>2. Head(resumes) \in Nat BY <2>1, <3>1
    <3> QED BY <2>1, <3>2 DEF starts
  <2>2. CASE ~(obj[h].state = "paused" /\ resumes # <<>>) BY <2>2 DEF starts
  <2> QED BY <2>1, <2>2
<1>13. KeepsAs(l, cursor[s], intr[s], turnOpen[s], dropped[s], run[h], obj[h])
  BY <1>2 DEF Keeps, s, l
<1>17. PICK y : y = [x EXCEPT !.again = FALSE] OBVIOUS
<1>18. /\ y.bus = obj[h].bus \o inputs /\ Asked(intr[s], y)
       /\ obj[h].state = "running" => y.state = "running"
       /\ x.state = y.state
       /\ obj[h].state = "idle" => ~intr[s]
  <2>1. obj[h].state # "none" /\ Asked(intr[s], obj[h])
    BY <1>1, <1>2, <1>13 DEF Fits, Listens, KeepsAs
  <2>2. y = [FedObject(obj[h], inputs, starts) EXCEPT !.again = FALSE] BY <1>17 DEF x
  <2> QED BY <2>1, <2>2, <1>2, <1>11, <1>12, FedObjectAsked, SMTT(30) DEF x
<1>22. PICK t, T, b : t = [run[h] EXCEPT !.pc = "sleep", !.items = e, !.out = run[h].out \o k \o f,
                                   !.seen = T, !.resuming = b]
              /\ T = run[h].seen \union ToSet(k) \union (ToSet(resumes) \ {starts})
              /\ b = (run[h].resuming \/ resumes # <<>>)
  OBVIOUS
<1>23. run' = [run EXCEPT ![h] = t] /\ obj' = [obj EXCEPT ![h] = y] BY <1>1, <1>17, <1>22
<1>24. t.pc = "sleep" /\ t.out = run[h].out \o k \o f /\ t.cur = run[h].cur
       /\ t.cancelled = run[h].cancelled
  <2>1. PICK o : o = run[h].out \o k \o f OBVIOUS
  <2> DEFINE rr == run[h]
  <2>2. rr \in RunTypes /\ t = [rr EXCEPT !.pc = "sleep", !.items = e, !.out = o, !.seen = T, !.resuming = b]
    BY <1>2, <1>22, <2>1
  <2>3. t.pc = "sleep" /\ t.out = o /\ t.cur = rr.cur /\ t.cancelled = rr.cancelled
    <3> HIDE DEF rr
    <3> QED BY <2>2 DEF RunTypes
  <2> QED BY <2>1, <2>3
<1>25. Feeds(run[h].pc) /\ Past(run[h].pc) BY <1>1 DEF Feeds, Listens, Past
<1>26. run[h].cancelled \/ BeyondCancels(l, t, y)
  <2> SUFFICES ASSUME ~run[h].cancelled PROVE BeyondCancels(l, t, y)
    OBVIOUS
  <2>1. BeyondCancels(l, run[h], obj[h]) BY <1>13, <1>25 DEF KeepsAs
  <2>2. \A p : Has(k, p) \/ Has(f, p) \/ Has(inputs, p) => Has(q, p) BY <1>7, <1>11
  <2> QED BY <1>1, <1>2, <1>4, <1>7, <1>8, <1>11, <1>18, <1>24, <2>1, <2>2, BeyondFed DEF q
<1>27. turnOpen'[s] => turnOpen[s] \/ (obj[h].state = "idle" /\ y.state = "running")
  BY <1>1, <1>2, <1>18 DEF WInv, Flagged
<1>28. KeepsAs(l, cursor[s], intr[s], turnOpen'[s], dropped[s], t, y)
  <2>1. cursor[s] = t.cur /\ (t.cancelled \/ BeyondCancels(l, t, y))
    BY <1>13, <1>24, <1>25, <1>26 DEF KeepsAs
  <2>2. turnOpen'[s] => y.state = "running" \/ dropped[s] # "no"
    BY <1>13, <1>18, <1>25, <1>27 DEF KeepsAs
  <2> QED BY <2>1, <2>2, <1>18 DEF KeepsAs
<1>29. turnOpen'[s] => ~intr[s] BY <1>2, <1>18, <1>27 DEF Turned
<1>30. ElsewhereSame(s) BY <1>1, <1>2 DEF ElsewhereSame, WInv, Flagged
<1>31. StillTable BY <1>1 DEF StillTable
<1>32. /\ log'[s] = l /\ cursor'[s] = cursor[s] /\ intr'[s] = intr[s] /\ dropped'[s] = dropped[s]
  BY <1>1 DEF l
<1>33. KeepsAs(log'[s], cursor'[s], intr'[s], turnOpen'[s], dropped'[s], t, y) BY <1>28, <1>32
<1>34. run[h].pc \notin {"none", "release"} /\ t.pc \notin {"none", "release"}
       /\ (turnOpen'[s] => ~intr'[s])
  BY <1>1, <1>24, <1>29, <1>32
<1> QED BY <1>23, <1>30, <1>31, <1>33, <1>34, ActorKeeps, ZenonT(60) DEF s

-----------
(* A run that is there because its object is. *)
LEMMA ObjectIsFed ==
    ASSUME WInv, NEW h \in Leases, obj[h].state # "none"
    PROVE  Feeds(run[h].pc) /\ Past(run[h].pc) /\ run[h].pc \notin {"none", "release", "wait"}
BY ObjectHasRun DEF Feeds, Past, Listens

(* What is left on a bus lies beyond what all of it did. *)
LEMMA BeyondRemoved ==
    ASSUME NEW l, NEW r, NEW t, NEW x \in ObjTypes, NEW y, NEW i \in 1..Len(x.bus),
           y.bus = RemoveAt(x.bus, i), SameRun(r, t), BeyondCancels(l, r, x)
    PROVE  BeyondCancels(l, t, y)
<1> DEFINE b == x.bus
<1>1. b \in Seq(Nat) /\ i \in 1..Len(b) BY DEF ObjTypes
<1>2. ASSUME NEW j \in 1..Len(y.bus) PROVE \E m \in 1..Len(b) : y.bus[j] = b[m]
  <2> HIDE DEF b
  <2>1. /\ Len(RemoveAt(b, i)) = Len(b) - 1 /\ Len(b) \in Nat
        /\ \A n \in 1..Len(RemoveAt(b, i)) : RemoveAt(b, i)[n] = b[IF n < i THEN n ELSE n + 1]
    <3>1. Len(b) \in Nat BY <1>1
    <3> QED BY <1>1, <3>1, Removed
  <2>2. j \in 1..(Len(b) - 1) /\ y.bus[j] = b[IF j < i THEN j ELSE j + 1] BY <1>2, <2>1 DEF b
  <2>3. PICK m : m = IF j < i THEN j ELSE j + 1 OBVIOUS
  <2>4. m \in 1..Len(b) BY <1>1, <2>1, <2>2, <2>3
  <2>5. y.bus[j] = b[m] BY <2>2, <2>3
  <2> QED BY <2>4, <2>5
<1>3. ASSUME NEW j \in 1..Len(y.bus), NEW q \in (y.bus[j] + 1)..t.cur PROVE l[q].kind # "cancel"
  <2>1. PICK m \in 1..Len(b) : y.bus[j] = b[m] BY <1>2
  <2>2. q \in (x.bus[m] + 1)..r.cur BY <2>1, <1>3 DEF SameRun
  <2> QED BY <2>1, <2>2 DEF BeyondCancels
<1> QED BY <1>3 DEF BeyondCancels, SameRun

(* A boundary drains the bus. *)
LEMMA TurnTakesLives ==
    ASSUME WInv, LInv, NEW h \in Leases, TurnTakes(h)
    PROVE  LInv'
<1> DEFINE s == Session(h)
           l == log[s]
<1>1. /\ Running(h) /\ UNCHANGED <<tableVars, cursor, intr, turnOpen, apiVars, dropped>>
      /\ \E i \in DOMAIN obj[h].bus :
          LET p == obj[h].bus[i] IN
          /\ log' = [log EXCEPT ![s] = Append(@, Record("taken", p))]
          /\ obj' = [obj EXCEPT ![h].bus = RemoveAt(@, i)]
          /\ run' = IF Listening(h)
                    THEN [run EXCEPT ![h] = [@ EXCEPT !.seen = run[h].seen \union {p}, !.wake = TRUE]]
                    ELSE run
  BY DEF TurnTakes
<1>2. Feeds(run[h].pc) /\ Past(run[h].pc) /\ run[h].pc \notin {"none", "release", "wait"}
  BY <1>1, ObjectIsFed DEF Running
<1>3. /\ s \in Sessions /\ run[h] \in RunTypes /\ l \in Logs /\ log \in [Sessions -> Logs]
      /\ obj[h] \in ObjTypes /\ Held(l, run[h], obj[h]) /\ Keeps(h) /\ Turned(s)
      /\ obj \in [Leases -> ObjTypes] /\ run \in [Leases -> RunTypes]
  BY <1>2, Here DEF WInv, Typed, LInv
<1>4. DOMAIN obj[h].bus = 1..Len(obj[h].bus) BY <1>3 DEF ObjTypes
<1>5. PICK i \in 1..Len(obj[h].bus) :
          /\ log' = [log EXCEPT ![s] = Append(@, Record("taken", obj[h].bus[i]))]
          /\ obj' = [obj EXCEPT ![h].bus = RemoveAt(@, i)]
          /\ run' = IF Listening(h)
                    THEN [run EXCEPT ![h] = [@ EXCEPT !.seen = run[h].seen \union {obj[h].bus[i]}, !.wake = TRUE]]
                    ELSE run
  BY <1>1, <1>4
<1> DEFINE p == obj[h].bus[i]
           e == Record("taken", p)
<1>6. PICK y : y = [obj[h] EXCEPT !.bus = RemoveAt(obj[h].bus, i)] OBVIOUS
<1>7. y.bus = RemoveAt(obj[h].bus, i) /\ y.answering = obj[h].answering /\ y.state = obj[h].state
  BY <1>3, <1>6 DEF ObjTypes
<1>8. obj' = [obj EXCEPT ![h] = y] BY <1>3, <1>5, <1>6
<1>9. PICK t : /\ run' = [run EXCEPT ![h] = t]
               /\ t = run[h] \/ t = [run[h] EXCEPT !.seen = run[h].seen \union {p}, !.wake = TRUE]
  <2>1. run = [run EXCEPT ![h] = run[h]] BY <1>3
  <2> QED BY <1>5, <2>1
<1>10. SameRun(run[h], t) BY <1>3, <1>9 DEF RunTypes, SameRun
<1>11. e \in RecordTypes /\ e.kind = "taken" /\ e.of \in 1..Len(l)
  <2>1. p \in 1..Len(l) /\ Len(l) \in Nat BY <1>3, <1>5 DEF Held, Given, Logs
  <2>2. p \in Nat BY <2>1
  <2> HIDE DEF p
  <2> QED BY <2>1, <2>2 DEF Record, RecordTypes
<1> HIDE DEF e
<1>12. LogKept /\ Extends(l, log'[s]) /\ \A u \in Sessions \ {s} : log'[u] = log[u]
  <2>1. log' = [log EXCEPT ![s] = Append(l, e)] /\ cursor' = cursor BY <1>1, <1>5 DEF e
  <2>2. LogKept /\ \A u \in Sessions \ {s} : log'[u] = log[u] BY <1>3, <1>11, <2>1, LogAppend
  <2> QED BY <1>3, <2>2 DEF LogKept, LogStep
<1> HIDE DEF l
<1>13. KeepsAs(l, cursor[s], intr[s], turnOpen[s], dropped[s], run[h], obj[h])
       /\ InLog(l, cursor[s], run[h], obj[h])
  BY <1>2, <1>3, LiesInLog DEF Keeps, l
<1>14. t.cancelled \/ BeyondCancels(log'[s], t, y)
  <2> SUFFICES ASSUME ~t.cancelled PROVE BeyondCancels(log'[s], t, y)
    OBVIOUS
  <2>1. BeyondCancels(l, run[h], obj[h]) /\ cursor[s] = run[h].cur
    BY <1>2, <1>10, <1>13 DEF KeepsAs, SameRun
  <2>2. BeyondCancels(log'[s], run[h], obj[h]) BY <1>12, <1>13, <2>1, BeyondGrows
  <2> QED BY <1>3, <1>7, <1>10, <2>2, BeyondRemoved
<1>15. KeepsAs(log'[s], cursor[s], intr[s], turnOpen[s], dropped[s], t, y)
  <2>1. cursor[s] = t.cur BY <1>2, <1>10, <1>13 DEF KeepsAs, SameRun
  <2>2. Asked(intr[s], y) BY <1>7, <1>13 DEF KeepsAs, Asked
  <2> QED BY <1>1, <1>7, <1>14, <2>1, <2>2 DEF KeepsAs, Running
<1>16. ElsewhereSame(s) /\ (turnOpen'[s] => ~intr'[s]) /\ StillTable
  BY <1>1, <1>3, <1>12 DEF ElsewhereSame, Turned, StillTable
<1>17. t.pc \notin {"none", "release"} /\ KeepsAs(log'[s], cursor'[s], intr'[s], turnOpen'[s], dropped'[s], t, y)
  BY <1>1, <1>2, <1>10, <1>15 DEF SameRun
<1> QED BY <1>2, <1>8, <1>9, <1>16, <1>17, ActorKeeps

(* Where the end of a run leaves its object. *)
LEMMA EndingAsked ==
    ASSUME NEW x \in ObjTypes, NEW state \in {"paused", "idle"}
    PROVE  LET y == EndedRun(x, state) IN
           /\ y.bus = x.bus /\ y.answering = 0
           /\ state = "paused" => y.state = "paused"
           /\ state = "idle" => y.state \in {"idle", "running"}
<1> DEFINE u == [x EXCEPT !.state = state, !.aborted = FALSE, !.answering = 0]
<1>1. u \in ObjTypes /\ u.bus = x.bus /\ u.answering = 0 /\ u.state = state BY DEF ObjTypes
<1>2. EndedRun(x, state) = Woken(u) BY DEF EndedRun
<1> HIDE DEF u
<1>3. Woken(u) = u \/ (u.state = "idle" /\ Woken(u) = [u EXCEPT !.state = "running", !.again = TRUE])
  BY DEF Woken
<1>4. CASE Woken(u) = u BY <1>1, <1>2, <1>4
<1>5. CASE u.state = "idle" /\ Woken(u) = [u EXCEPT !.state = "running", !.again = TRUE]
  BY <1>1, <1>2, <1>5 DEF ObjTypes
<1> QED BY <1>3, <1>4, <1>5

(* The end of a run, however it ends. *)
LEMMA RunOverLives ==
    ASSUME WInv, LInv, NEW h \in Leases, Running(h), run' = Settled(h), NEW y,
           obj' = [obj EXCEPT ![h] = y], y.bus = obj[h].bus, StillTable,
           UNCHANGED <<log, cursor, dropped>>, Asked(intr'[Session(h)], y),
           turnOpen'[Session(h)] => ~intr'[Session(h)] /\ y.state = "running",
           \A u \in Sessions \ {Session(h)} : intr'[u] = intr[u] /\ turnOpen'[u] = turnOpen[u]
    PROVE  LInv'
<1> DEFINE s == Session(h)
<1>2. Feeds(run[h].pc) /\ Past(run[h].pc) /\ run[h].pc \notin {"none", "release", "wait"}
  BY ObjectIsFed DEF Running
<1>3. /\ s \in Sessions /\ run[h] \in RunTypes /\ Keeps(h) /\ run \in [Leases -> RunTypes]
  BY <1>2, Here DEF LInv
<1> DEFINE z == IF Listening(h) /\ obj[h].answering # 0
                THEN run[h].seen \union {obj[h].answering} ELSE run[h].seen
<1>7. run' = [run EXCEPT ![h].seen = z] BY DEF Settled
<1> HIDE DEF z
<1>8. PICK t : t = [run[h] EXCEPT !.seen = z] OBVIOUS
<1>9. run' = [run EXCEPT ![h] = t] BY <1>3, <1>7, <1>8
<1>10. SameRun(run[h], t) BY <1>3, <1>8 DEF RunTypes, SameRun
<1>13. KeepsAs(log[s], cursor[s], intr[s], turnOpen[s], dropped[s], run[h], obj[h])
  BY <1>3 DEF Keeps
<1>14. BeyondCancels(log[s], run[h], obj[h]) => BeyondCancels(log[s], t, y)
  BY <1>10 DEF BeyondCancels, SameRun
<1>15. KeepsAs(log'[s], cursor'[s], intr'[s], turnOpen'[s], dropped'[s], t, y)
  <2>1. cursor[s] = t.cur /\ (t.cancelled \/ BeyondCancels(log[s], t, y))
    BY <1>2, <1>10, <1>13, <1>14 DEF KeepsAs, SameRun
  <2> QED BY <2>1 DEF KeepsAs
<1>16. ElsewhereSame(s) /\ (turnOpen'[s] => ~intr'[s]) BY DEF ElsewhereSame
<1>17. t.pc \notin {"none", "release"} BY <1>2, <1>10 DEF SameRun
<1> QED BY <1>2, <1>9, <1>15, <1>16, <1>17, ActorKeeps

(* The three ways a run ends, in time. *)
LEMMA EndingLives ==
    ASSUME WInv, LInv, NEW h \in Leases, TurnPauses(h) \/ TurnEnds(h) \/ ResumeThrows(h)
    PROVE  LInv'
<1> DEFINE s == Session(h)
<1>1. Running(h) /\ run' = Settled(h) /\ UNCHANGED <<log, cursor, dropped>>
  BY DEF TurnPauses, TurnEnds, ResumeThrows, logVars
<1>2. Feeds(run[h].pc) /\ Past(run[h].pc) /\ run[h].pc \notin {"none", "release", "wait"}
  BY <1>1, ObjectIsFed DEF Running
<1>3. /\ s \in Sessions /\ obj[h] \in ObjTypes /\ obj \in [Leases -> ObjTypes] /\ Keeps(h) /\ Turned(s)
      /\ intr \in [Sessions -> BOOLEAN] /\ turnOpen \in [Sessions -> BOOLEAN]
  BY <1>2, Here DEF LInv, WInv, Flagged
<1>4. Asked(intr[s], obj[h]) BY <1>3 DEF Keeps, KeepsAs
<1>5. CASE TurnPauses(h)
  <2>1. PICK y : y = EndedRun(obj[h], "paused") OBVIOUS
  <2>2. y.bus = obj[h].bus /\ y.answering = 0 /\ y.state = "paused" BY <1>3, <2>1, EndingAsked
  <2>3. /\ obj' = [obj EXCEPT ![h] = y] /\ intr' = [intr EXCEPT ![s] = TRUE]
        /\ turnOpen' = [turnOpen EXCEPT ![s] = FALSE] /\ StillTable
    BY <1>5, <2>1 DEF TurnPauses, StillTable
  <2>4. intr'[s] = TRUE /\ turnOpen'[s] = FALSE
        /\ \A u \in Sessions \ {s} : intr'[u] = intr[u] /\ turnOpen'[u] = turnOpen[u]
    BY <1>3, <2>3
  <2>5. Asked(intr'[s], y) BY <2>2, <2>4 DEF Asked
  <2> QED BY <1>1, <2>2, <2>3, <2>4, <2>5, RunOverLives
<1>6. CASE TurnEnds(h)
  <2>1. PICK y : y = EndedRun(obj[h], "idle") OBVIOUS
  <2>2. y.bus = obj[h].bus /\ y.answering = 0 /\ y.state \in {"idle", "running"}
    BY <1>3, <2>1, EndingAsked
  <2>3. obj' = [obj EXCEPT ![h] = y] /\ StillTable BY <1>6, <2>1 DEF TurnEnds, StillTable
  <2>4. obj'[h] = y BY <1>3, <2>3
  <2>5. /\ intr' = [intr EXCEPT ![s] = @ /\ obj[h].answering = 0]
        /\ turnOpen' = [turnOpen EXCEPT ![s] = y.state = "running"]
    BY <1>6, <2>4 DEF TurnEnds
  <2>6. ~intr'[s] /\ (turnOpen'[s] => y.state = "running")
        /\ \A u \in Sessions \ {s} : intr'[u] = intr[u] /\ turnOpen'[u] = turnOpen[u]
    BY <1>1, <1>3, <1>4, <2>5 DEF Asked, Running
  <2>7. Asked(intr'[s], y) BY <2>2, <2>6 DEF Asked
  <2> QED BY <1>1, <2>2, <2>3, <2>6, <2>7, RunOverLives
<1>7. CASE ResumeThrows(h)
  <2>1. PICK y : y = EndedRun(obj[h], "paused") OBVIOUS
  <2>2. y.bus = obj[h].bus /\ y.answering = 0 /\ y.state = "paused" BY <1>3, <2>1, EndingAsked
  <2>3. /\ obj' = [obj EXCEPT ![h] = y] /\ UNCHANGED <<intr, turnOpen>> /\ StillTable
        /\ obj[h].answering # 0
    BY <1>7, <2>1 DEF ResumeThrows, StillTable, logVars
  <2>4. intr[s] /\ ~turnOpen[s] BY <1>1, <1>3, <1>4, <2>3 DEF Asked, Running, Turned
  <2>5. Asked(intr'[s], y) BY <2>2, <2>3, <2>4 DEF Asked
  <2> QED BY <1>1, <2>2, <2>3, <2>4, <2>5, RunOverLives
<1> QED BY <1>5, <1>6, <1>7

-----------
(* A task settles: its notice comes last. *)
LEMMA TaskSettlesLives ==
    ASSUME WInv, LInv, NEW h \in Leases, TaskSettles(h)
    PROVE  LInv'
<1> DEFINE s == Session(h)
           l == log[s]
           n == Len(l) + 1
           e == Record("input", n)
           u == [obj[h] EXCEPT !.task = FALSE, !.bus = Append(@, n)]
           y == Woken(u)
<1>1. /\ obj[h].task /\ log' = [log EXCEPT ![s] = Append(log[s], e)]
      /\ obj' = [obj EXCEPT ![h] = y]
      /\ turnOpen' = [turnOpen EXCEPT ![s] = @ \/ obj[h].state # y.state]
      /\ run' = [run EXCEPT ![h].settled = Listening(h)]
      /\ UNCHANGED <<tableVars, cursor, intr, apiVars, dropped>>
  BY DEF TaskSettles
<1>2. obj[h].state # "none"
  <2>1. NoObject.task = FALSE BY DEF NoObject
  <2>2. Fits(run[h].pc, obj[h]) BY DEF WInv, Placed
  <2> QED BY <1>1, <2>1, <2>2 DEF Fits
<1>3. Feeds(run[h].pc) /\ Past(run[h].pc) /\ run[h].pc \notin {"none", "release", "wait"}
  BY <1>2, ObjectIsFed
<1>4. /\ s \in Sessions /\ run[h] \in RunTypes /\ l \in Logs /\ obj[h] \in ObjTypes
      /\ obj \in [Leases -> ObjTypes] /\ run \in [Leases -> RunTypes] /\ Keeps(h) /\ Turned(s)
      /\ turnOpen \in [Sessions -> BOOLEAN]
  BY <1>3, Here DEF LInv, WInv, Flagged
<1>5. n \in Nat /\ Append(obj[h].bus, n) \in Seq(Nat) /\ Len(l) \in Nat
  BY <1>4 DEF Logs, ObjTypes
<1>6. /\ u \in ObjTypes /\ u.bus = Append(obj[h].bus, n) /\ u.answering = obj[h].answering
      /\ u.state = obj[h].state
  <2> HIDE DEF n
  <2> QED BY <1>4, <1>5 DEF ObjTypes
<1> HIDE DEF u
<1>7. /\ y.bus = Append(obj[h].bus, n) /\ y.answering = obj[h].answering
      /\ y.state = obj[h].state \/ (obj[h].state = "idle" /\ y.state = "running")
  <2>1. CASE y = u BY <2>1, <1>6
  <2>2. CASE u.state = "idle" /\ y = [u EXCEPT !.state = "running", !.again = TRUE]
    BY <2>2, <1>6 DEF ObjTypes
  <2> QED BY <2>1, <2>2 DEF Woken
<1> HIDE DEF y
<1>8. PICK b : b = Listening(h) OBVIOUS
<1>9. PICK t : t = [run[h] EXCEPT !.settled = b] OBVIOUS
<1>10. run' = [run EXCEPT ![h] = t] BY <1>1, <1>4, <1>8, <1>9
<1>11. SameRun(run[h], t) BY <1>4, <1>9 DEF RunTypes, SameRun
<1>12. e \in RecordTypes /\ e.kind = "input"
  <2> HIDE DEF n
  <2> QED BY <1>5 DEF Record, RecordTypes, InboxKinds
<1>13. LogKept /\ Extends(l, log'[s]) /\ \A v \in Sessions \ {s} : log'[v] = log[v]
  <2> HIDE DEF e
  <2>1. LogKept /\ \A v \in Sessions \ {s} : log'[v] = log[v] BY <1>1, <1>4, <1>12, LogAppend
  <2> QED BY <1>4, <2>1 DEF LogKept, LogStep
<1>14. KeepsAs(l, cursor[s], intr[s], turnOpen[s], dropped[s], run[h], obj[h])
       /\ InLog(l, cursor[s], run[h], obj[h])
  BY <1>3, <1>4, LiesInLog DEF Keeps
<1>15. t.cancelled \/ BeyondCancels(log'[s], t, y)
  <2> SUFFICES ASSUME ~t.cancelled PROVE BeyondCancels(log'[s], t, y)
    OBVIOUS
  <2>1. BeyondCancels(l, run[h], obj[h]) /\ cursor[s] = run[h].cur
    BY <1>3, <1>11, <1>14 DEF KeepsAs, SameRun
  <2>2. BeyondCancels(log'[s], run[h], obj[h]) BY <1>13, <1>14, <2>1, BeyondGrows
  <2>3. ASSUME NEW i \in 1..Len(y.bus), NEW q \in (y.bus[i] + 1)..t.cur PROVE log'[s][q].kind # "cancel"
    <3> DEFINE a == obj[h].bus
    <3>1. a \in Seq(Nat) /\ y.bus = Append(a, n) BY <1>4, <1>7 DEF ObjTypes
    <3>2. (i \in 1..Len(a) /\ y.bus[i] = a[i]) \/ y.bus[i] = n
      <4> HIDE DEF a, n
      <4> QED BY <2>3, <3>1, <1>5
    <3>3. CASE i \in 1..Len(a) /\ y.bus[i] = a[i]
      <4>1. q \in (obj[h].bus[i] + 1)..run[h].cur BY <2>3, <3>3, <1>11 DEF SameRun
      <4> QED BY <3>3, <4>1, <2>2 DEF BeyondCancels
    <3>4. CASE y.bus[i] = n
      <4>1. t.cur \in 0..Len(l) BY <2>1, <1>11, <1>14 DEF InLog, SameRun
      <4> QED BY <2>3, <3>4, <4>1, <1>5
    <3> QED BY <3>2, <3>3, <3>4
  <2> QED BY <2>2, <2>3, <1>11 DEF BeyondCancels, SameRun
<1>16. turnOpen'[s] => turnOpen[s] \/ (obj[h].state = "idle" /\ y.state = "running")
  BY <1>1, <1>4, <1>7
<1>17. Asked(intr[s], obj[h]) /\ Asked(intr[s], y) /\ (turnOpen'[s] => ~intr[s])
  BY <1>4, <1>7, <1>14, <1>16 DEF KeepsAs, Asked, Turned
<1>18. KeepsAs(log'[s], cursor[s], intr[s], turnOpen'[s], dropped[s], t, y)
  <2>1. cursor[s] = t.cur BY <1>3, <1>11, <1>14 DEF KeepsAs, SameRun
  <2>2. turnOpen'[s] => y.state = "running" \/ dropped[s] # "no"
    BY <1>3, <1>7, <1>14, <1>16 DEF KeepsAs
  <2> QED BY <1>15, <1>17, <2>1, <2>2 DEF KeepsAs
<1>19. ElsewhereSame(s) /\ StillTable BY <1>1, <1>4, <1>13 DEF ElsewhereSame, StillTable
<1>20. /\ t.pc \notin {"none", "release"} /\ (turnOpen'[s] => ~intr'[s])
       /\ KeepsAs(log'[s], cursor'[s], intr'[s], turnOpen'[s], dropped'[s], t, y)
  BY <1>1, <1>3, <1>11, <1>17, <1>18 DEF SameRun
<1> HIDE DEF l, n, e
<1> QED BY <1>1, <1>3, <1>10, <1>19, <1>20, ActorKeeps

(* The row is taken: nobody had a run under it. *)
LEMMA StartLives ==
    ASSUME WInv, LInv, NEW h \in Leases, NEW o \in Owners, NEW s \in Sessions, NEW looped,
           Claim(h, o, s) \/ Acquire(h, o, s), Started(h, o, s, looped),
           UNCHANGED <<logVars, obj>>
    PROVE  LInv'
<1>1. /\ IInv' /\ lease'[h].session = s /\ lease'[h].owner = o /\ ~lease'[h].gone
      /\ \A g \in Leases \ {h} : lease'[g] = lease[g]
  BY TakeTable DEF WInv
<1>2. /\ run[h].pc = "none" /\ dropped' = [dropped EXCEPT ![s] = "no"]
      /\ run' = [run EXCEPT ![h] = [NoRun EXCEPT !.pc = "start", !.looped = looped]]
  BY DEF Started
<1>3. /\ Free(s) /\ calls[h] = {} /\ calls' = calls
      /\ row' = [row EXCEPT ![s] = [woken |-> FALSE, owner |-> o, left |-> TTL,
                                    fence |-> row[s].fence + 1]]
      /\ lease' = [lease EXCEPT ![h] = [session |-> s, owner |-> o, fence |-> row[s].fence + 1,
                                        gone |-> FALSE, sure |-> TTL]]
  BY DEF Claim, Claimable, Acquire, Take, Unused
<1>4. TableTypeOK /\ run \in [Leases -> RunTypes] BY DEF WInv, IInv, Typed
<1>5. /\ row'[s].owner = o /\ row'[s].owner # NoOwner /\ lease'[h].sure = TTL
      /\ \A u \in Sessions \ {s} : row'[u] = row[u]
  BY <1>3, <1>4, NoOwnerAssumption DEF TableTypeOK
<1>6. run'[h].pc = "start" /\ \A g \in Leases \ {h} : run'[g] = run[g]
  <2>1. PICK t : t = [NoRun EXCEPT !.pc = "start", !.looped = looped] OBVIOUS
  <2>2. t.pc = "start" BY <2>1 DEF NoRun
  <2> QED BY <1>2, <1>4, <2>1, <2>2
<1>7. ASSUME NEW g \in Leases PROVE Alive(g)'
  <2>1. CASE g = h
    <3>1. TTL >= 0 BY TTLAssumption
    <3> QED BY <2>1, <3>1, <1>1, <1>3, <1>5, <1>6 DEF Alive
  <2>2. CASE g # h
    <3>1. Alive(g) /\ lease'[g] = lease[g] /\ run'[g] = run[g] /\ calls'[g] = calls[g]
      BY <2>2, <1>1, <1>3, <1>6 DEF LInv
    <3> QED BY <3>1 DEF Alive
  <2> QED BY <2>1, <2>2
<1>8. ASSUME NEW g \in Leases, run'[g].pc # "none" PROVE Keeps(g)'
  <2>1. CASE g = h
    <3>1. obj'[g] = NoObject BY <2>1, <1>2 DEF WInv, Placed, Fits, Listens
    <3>2. Asked(intr'[s], NoObject) BY Nothing DEF Asked
    <3>3. Session(g)' = s BY <2>1, <1>1 DEF Session
    <3> QED BY <2>1, <3>1, <3>2, <3>3, <1>6, NotFed DEF Keeps, Feeds, Listens, Past
  <2>2. CASE g # h
    <3>1. Keeps(g) /\ run'[g] = run[g] /\ Session(g)' = Session(g) /\ obj'[g] = obj[g]
      BY <2>2, <1>1, <1>6, <1>8 DEF LInv, Session
    <3>2. CASE run[g].pc = "release"
      <4>1. Asked(intr'[Session(g)], obj'[g]) BY <3>1 DEF Keeps, KeepsAs, logVars
      <4> QED BY <3>1, <3>2, <4>1, NotFed DEF Keeps, Feeds, Listens, Past
    <3>3. CASE run[g].pc # "release"
      <4>1. run[g].pc \notin {"none", "release"} BY <3>1, <3>3, <1>8
      <4>2. Session(g) # s
        <5>1. row[Session(g)].owner # NoOwner /\ row[Session(g)].left >= 0 /\ row[Session(g)] \in RowType
          BY <4>1, <1>4, HoldsRow DEF TableTypeOK
        <5>2. row[Session(g)].left \in Int BY <5>1, LeftIsInt DEF RowType
        <5> QED BY <5>1, <5>2, <1>3 DEF Free
      <4>3. dropped'[Session(g)] = dropped[Session(g)] BY <4>2, <1>2 DEF WInv, Flagged
      <4> QED BY <3>1, <4>3 DEF Keeps, logVars
    <3> QED BY <3>2, <3>3
  <2> QED BY <2>1, <2>2
<1>9. ASSUME NEW u \in Sessions PROVE Turned(u)'
  <2>1. CASE u = s
    <3>1. ~Back(s)'
      <4> SUFFICES ASSUME NEW g \in Leases, (Session(g) = s /\ Mine(g))', "release" \in calls'[g]
                   PROVE  FALSE
        BY <1>5 DEF Back
      <4>1. g # h BY <1>3
      <4>2. Mine(h)' /\ (Session(h) = s)'
        <5>1. lease'[h].fence = row'[s].fence /\ lease'[h].owner = row'[s].owner
          BY <1>3, <1>4 DEF TableTypeOK
        <5> QED BY <5>1, <1>1 DEF Mine, Session
      <4> QED BY <4>1, <4>2, <1>1 DEF Mine, IInv, FenceTellsTakesApart, Session
    <3> QED BY <2>1, <3>1 DEF Turned, LInv, logVars
  <2>2. CASE u # s
    <3>1. Turned(u) /\ dropped'[u] = dropped[u] /\ row'[u] = row[u]
      BY <2>2, <1>2, <1>5 DEF LInv, WInv, Flagged
    <3>2. Back(u)' => Back(u)
      <4>1. ASSUME NEW g \in Leases, (Session(g) = u /\ Mine(g))', "release" \in calls'[g]
            PROVE  Session(g) = u /\ Mine(g) /\ "release" \in calls[g]
        <5>1. g # h BY <4>1, <1>3
        <5> QED BY <5>1, <4>1, <3>1, <1>1, <1>3 DEF Mine, Session
      <4> QED BY <4>1, <3>1 DEF Back
    <3> QED BY <3>1, <3>2 DEF Turned, logVars
  <2> QED BY <2>1, <2>2
<1> QED BY <1>7, <1>8, <1>9 DEF LInv

-----------
(* Losing a wake disturbs nobody. *)
LEMMA KeepsDropped ==
    ASSUME NEW l, NEW c, NEW i, NEW o, NEW d, NEW e, NEW r, NEW x,
           KeepsAs(l, c, i, o, d, r, x), d # "no" => e # "no"
    PROVE  KeepsAs(l, c, i, o, e, r, x)
BY DEF KeepsAs

(* What a run without an object keeps to. *)
LEMMA KeepsNothing ==
    ASSUME NEW l, NEW c, NEW i, NEW o, NEW d, NEW r, ~Feeds(r.pc), ~Past(r.pc)
    PROVE  KeepsAs(l, c, i, o, d, r, NoObject)
<1>1. NoObject.state = "none" /\ NoObject.answering = 0 BY DEF NoObject
<1>2. Asked(i, NoObject) BY <1>1 DEF Asked
<1> QED BY <1>2 DEF KeepsAs

(* What the end of a run does to its lease, and leaves alone. *)
LEMMA FinishFacts ==
    ASSUME WInv, LInv, NEW h \in Leases, Finish(h)
    PROVE  /\ Session(h) \in Sessions /\ run[h].pc = "finish" /\ run'[h].pc = "release"
           /\ UNCHANGED <<logVars, apiVars, obj>> /\ obj[h] = NoObject
           /\ calls' = [calls EXCEPT ![h] = @ \union {"release"}] /\ row' = row
           /\ lease'[h].gone
           /\ \A g \in Leases \ {h} : lease'[g] = lease[g] /\ calls'[g] = calls[g] /\ run'[g] = run[g]
           /\ \A g \in Leases : /\ Session(g)' = Session(g) /\ Host(g)' = Host(g)
                                /\ "woken" \in calls[g] => "woken" \in calls'[g]
           /\ \A u \in Sessions : dropped[u] # "no" => dropped'[u] # "no"
           /\ Host(h) \in stopping => dropped'[Session(h)] # "no"
<1> DEFINE s == Session(h)
<1>1. /\ run[h].pc = "finish" /\ UNCHANGED <<logVars, apiVars, obj>>
      /\ (IF lease[h].gone THEN UNCHANGED tableVars ELSE ReleaseSend(h))
      /\ run' = [run EXCEPT ![h] = [run[h] EXCEPT !.pc = "release", !.listed = FALSE]]
      /\ dropped' = IF Host(h) \in stopping THEN [dropped EXCEPT ![s] = "stop"] ELSE dropped
  BY DEF Finish
<1>2. ~lease[h].gone /\ s \in Sessions BY <1>1, HoldsRow
<1>3. /\ lease' = [lease EXCEPT ![h].gone = TRUE]
      /\ calls' = [calls EXCEPT ![h] = @ \union {"release"}] /\ row' = row
  BY <1>1, <1>2 DEF ReleaseSend
<1>4. TableTypeOK /\ run \in [Leases -> RunTypes] /\ dropped \in [Sessions -> {"no", "late", "stop", "error", "page"}]
  BY DEF WInv, IInv, Typed, Flagged
<1>5. /\ lease'[h].gone
      /\ \A g \in Leases \ {h} : lease'[g] = lease[g] /\ calls'[g] = calls[g] /\ run'[g] = run[g]
      /\ \A g \in Leases : /\ Session(g)' = Session(g) /\ Host(g)' = Host(g)
                           /\ "woken" \in calls[g] => "woken" \in calls'[g]
  BY <1>1, <1>3, <1>4 DEF TableTypeOK, LeaseType, Session, Host
<1>6. run'[h].pc = "release"
  <2>1. PICK t : t = [run[h] EXCEPT !.pc = "release", !.listed = FALSE] OBVIOUS
  <2>2. t.pc = "release" BY <1>4, <2>1 DEF RunTypes
  <2> QED BY <1>1, <1>4, <2>1, <2>2
<1>7. /\ \A u \in Sessions : dropped[u] # "no" => dropped'[u] # "no"
      /\ Host(h) \in stopping => dropped'[s] # "no"
  BY <1>1, <1>2, <1>4
<1>8. obj[h] = NoObject BY <1>1 DEF WInv, Placed, Fits, Listens
<1> QED BY <1>1, <1>2, <1>3, <1>5, <1>6, <1>7, <1>8

(* The run is over: what it left open is known to be lost. *)
LEMMA FinishLives ==
    ASSUME WInv, LInv, NEW h \in Leases, Finish(h)
    PROVE  LInv'
<1> DEFINE s == Session(h)
<1>1. /\ run[h].pc = "finish" /\ UNCHANGED <<logVars, apiVars, obj>> /\ s \in Sessions
      /\ row' = row /\ lease'[h].gone /\ run'[h].pc = "release"
  BY FinishFacts
<1>5. \A g \in Leases \ {h} : lease'[g] = lease[g] /\ calls'[g] = calls[g] /\ run'[g] = run[g]
  BY FinishFacts
<1>7. \A u \in Sessions : dropped[u] # "no" => dropped'[u] # "no" BY FinishFacts
<1>8. ASSUME NEW g \in Leases PROVE Alive(g)'
  <2>1. CASE g = h BY <2>1, <1>1 DEF Alive
  <2>2. CASE g # h BY <2>2, <1>5 DEF Alive, LInv
  <2> QED BY <2>1, <2>2
<1>9. obj[h] = NoObject /\ Keeps(h) /\ Past(run[h].pc) BY <1>1, FinishFacts DEF LInv, Past
<1>10. ASSUME NEW g \in Leases, run'[g].pc # "none" PROVE Keeps(g)'
  <2>1. CASE g = h
    <3>1. ~Feeds(run'[h].pc) /\ ~Past(run'[h].pc) BY <1>1 DEF Feeds, Past, Listens
    <3>2. obj'[h] = NoObject BY <1>1, <1>9
    <3> QED BY <2>1, <3>1, <3>2, KeepsNothing DEF Keeps
  <2>2. CASE g # h
    <3>1. run'[g] = run[g] /\ Session(g)' = Session(g) /\ run[g].pc # "none"
      BY <2>2, <1>5, <1>10 DEF Session
    <3>2. Keeps(g) /\ Session(g) \in Sessions BY <3>1, Here DEF LInv
    <3> QED BY <3>1, <3>2, <1>1, <1>7, KeepsDropped DEF Keeps, logVars
  <2> QED BY <2>1, <2>2
<1>11. ASSUME NEW u \in Sessions PROVE Turned(u)'
  <2>1. Turned(u) /\ (dropped[u] # "no" => dropped'[u] # "no") BY <1>7 DEF LInv
  <2>2. CASE u = s
    <3>1. turnOpen[s] => dropped[s] # "no"
      <4>1. NoObject.state = "none" BY DEF NoObject
      <4> QED BY <1>9, <4>1 DEF Keeps, KeepsAs
    <3> QED BY <2>1, <2>2, <3>1, <1>1 DEF Turned, logVars
  <2>3. CASE u # s
    <3>1. ASSUME NEW g \in Leases, (Session(g) = u /\ Mine(g))', "release" \in calls'[g]
          PROVE  Session(g) = u /\ Mine(g) /\ "release" \in calls[g]
      <4>1. g # h
        <5>1. Session(h)' = Session(h) BY FinishFacts
        <5> QED BY <2>3, <3>1, <5>1
      <4>2. row' = row /\ lease'[g] = lease[g] /\ calls'[g] = calls[g] BY <4>1, <1>1, <1>5
      <4> QED BY <3>1, <4>2 DEF Session, Mine
    <3>2. Back(u)' => Back(u) BY <3>1, <1>1 DEF Back
    <3> QED BY <2>1, <3>2, <1>1 DEF Turned, logVars
  <2> QED BY <2>2, <2>3
<1> QED BY <1>8, <1>10, <1>11 DEF LInv

(* Who waited for a run that is gone goes on; the others stay. *)
LEMMA DoneMoves ==
    ASSUME WInv, NEW h \in Leases, Done(h), NEW g \in Leases
    PROVE  \/ run[g].pc = "release" /\ run'[g].pc = "none"
           \/ SameRun(run[g], run'[g]) /\ StaysRun(run[g], run'[g])
           \/ run[g].pc = "wait" /\ run'[g].pc = "pass"
<1>1. /\ run[h].pc = "release" /\ run'[h] = NoRun
      /\ g # h => \/ run'[g] = run[g]
                  \/ \E b \in BOOLEAN : run'[g] = [run[g] EXCEPT !.listed = b]
                  \/ h \in run[g].behind /\ \E b \in BOOLEAN :
                        run'[g] = [run[g] EXCEPT !.pc = "pass", !.behind = {}, !.listed = b]
  BY DEF Done
<1>2. run[g] \in RunTypes BY DEF WInv, Typed
<1>3. CASE g = h BY <1>1, <1>3, Nothing
<1>4. CASE run'[g] = run[g] BY <1>4 DEF SameRun, StaysRun
<1>5. ASSUME NEW b \in BOOLEAN, run'[g] = [run[g] EXCEPT !.listed = b]
      PROVE  SameRun(run[g], run'[g]) /\ StaysRun(run[g], run'[g])
  BY <1>2, <1>5 DEF RunTypes, SameRun, StaysRun
<1>6. ASSUME NEW b \in BOOLEAN, h \in run[g].behind,
             run'[g] = [run[g] EXCEPT !.pc = "pass", !.behind = {}, !.listed = b]
      PROVE  run[g].pc = "wait" /\ run'[g].pc = "pass"
  BY <1>2, <1>6 DEF RunTypes, WInv, Placed
<1> QED BY <1>1, <1>3, <1>4, <1>5, <1>6

(* Those that waited go on, all under leases of their own. *)
LEMMA DoneLives ==
    ASSUME WInv, LInv, NEW h \in Leases, Done(h)
    PROVE  LInv'
<1>1. UNCHANGED <<tableVars, logVars, apiVars, obj, dropped>> BY DEF Done
<1>6. \A g \in Leases : \/ run[g].pc = "release" /\ run'[g].pc = "none"
                        \/ SameRun(run[g], run'[g])
                        \/ run[g].pc = "wait" /\ run'[g].pc = "pass"
  BY DoneMoves
<1>7. lease' = lease /\ calls' = calls /\ row' = row BY <1>1 DEF tableVars
<1>8. ASSUME NEW g \in Leases PROVE Alive(g)'
  <2>1. run'[g].pc \in {"none", "release"} <=> run[g].pc \in {"none", "release"}
    BY <1>6 DEF SameRun
  <2> QED BY <2>1, <1>7 DEF Alive, LInv
<1>9. ASSUME NEW g \in Leases, run'[g].pc # "none" PROVE Keeps(g)'
  <2> DEFINE s == Session(g)
  <2>1. run[g].pc # "none" /\ Session(g)' = s /\ obj'[g] = obj[g]
    BY <1>1, <1>6, <1>7, <1>9 DEF SameRun, Session
  <2>2. KeepsAs(log[s], cursor[s], intr[s], turnOpen[s], dropped[s], run[g], obj[g])
        /\ s \in Sessions /\ log[s] \in Logs /\ InLog(log[s], cursor[s], run[g], obj[g])
    BY <2>1, LiesInLog DEF LInv, Keeps
  <2>3. CASE SameRun(run[g], run'[g])
    <3>1. Extends(log[s], log[s]) /\ SameObject(obj[g], obj[g])
      BY <2>2, ExtendsItself DEF SameObject
    <3>2. KeepsAs(log[s], cursor[s], intr[s], turnOpen[s], dropped[s], run'[g], obj[g])
      BY <2>2, <2>3, <3>1, KeepsSame
    <3> QED BY <3>2, <2>1, <1>1 DEF Keeps, logVars
  <2>4. CASE run[g].pc = "wait" /\ run'[g].pc = "pass"
    <3>1. obj[g] = NoObject /\ ~Feeds(run'[g].pc) /\ ~Past(run'[g].pc)
      BY <2>4 DEF WInv, Placed, Fits, Listens, Feeds, Past
    <3> QED BY <3>1, <2>1, KeepsNothing DEF Keeps
  <2> QED BY <2>3, <2>4, <1>6, <1>9
<1>10. ASSUME NEW u \in Sessions PROVE Turned(u)'
  <2>1. Turned(u) /\ (Back(u)' => Back(u)) BY <1>7 DEF LInv, Back, Session, Mine
  <2> QED BY <2>1, <1>1 DEF Turned, logVars
<1> QED BY <1>8, <1>9, <1>10 DEF LInv

(* A process dies with everything in it. *)
LEMMA WorkerCrashLives ==
    ASSUME WInv, LInv, NEW o \in Owners, WorkerCrash(o)
    PROVE  LInv'
<1>1. /\ UNCHANGED <<logVars, pending, nudged>> /\ Crash(o)
      /\ run' = [h \in Leases |-> IF Host(h) = o THEN NoRun ELSE run[h]]
      /\ obj' = [h \in Leases |-> IF Host(h) = o THEN NoObject ELSE obj[h]]
      /\ \A s \in Sessions : dropped'[s] = "late" \/ dropped'[s] = dropped[s]
  BY DEF WorkerCrash
<1>2. /\ row' = row
      /\ lease' = [h \in Leases |-> IF lease[h].owner = o THEN [lease[h] EXCEPT !.gone = TRUE]
                                                          ELSE lease[h]]
      /\ calls' = [h \in Leases |-> IF lease[h].owner = o THEN calls[h] \intersect Statements
                                                          ELSE calls[h]]
  BY <1>1 DEF Crash
<1>3. TableTypeOK BY DEF WInv, IInv
<1>4. ASSUME NEW g \in Leases
      PROVE  /\ lease'[g].session = lease[g].session /\ lease'[g].owner = lease[g].owner
             /\ lease'[g].fence = lease[g].fence /\ calls'[g] \subseteq calls[g]
             /\ \/ Host(g) = o /\ lease'[g].gone /\ run'[g] = NoRun
                \/ /\ Host(g) # o /\ lease'[g] = lease[g] /\ calls'[g] = calls[g]
                   /\ run'[g] = run[g] /\ obj'[g] = obj[g]
  BY <1>1, <1>2, <1>3 DEF TableTypeOK, LeaseType, Host
<1>5. ASSUME NEW g \in Leases PROVE Alive(g)'
  <2>1. CASE Host(g) = o BY <2>1, <1>4, Nothing DEF Alive
  <2>2. CASE Host(g) # o BY <2>2, <1>4 DEF Alive, LInv
  <2> QED BY <2>1, <2>2
<1>6. ASSUME NEW g \in Leases, run'[g].pc # "none" PROVE Keeps(g)'
  <2>1. Host(g) # o /\ run'[g] = run[g] /\ obj'[g] = obj[g] /\ Session(g)' = Session(g)
    BY <1>4, <1>6, Nothing DEF Session
  <2>2. Keeps(g) /\ Session(g) \in Sessions BY <2>1, <1>6, Here DEF LInv
  <2>3. dropped[Session(g)] # "no" => dropped'[Session(g)] # "no" BY <2>2, <1>1
  <2> QED BY <2>1, <2>2, <2>3, <1>1, KeepsDropped DEF Keeps, logVars
<1>7. ASSUME NEW u \in Sessions PROVE Turned(u)'
  <2>1. Turned(u) /\ (dropped[u] # "no" => dropped'[u] # "no") BY <1>1 DEF LInv
  <2>2. Back(u)' => Back(u) BY <1>2, <1>4 DEF Back, Session, Mine
  <2> QED BY <2>1, <2>2, <1>1 DEF Turned, logVars
<1> QED BY <1>5, <1>6, <1>7 DEF LInv

-----------
(* Nothing is held, open or lost at first. *)
LEMMA LInit == Init => LInv
<1> SUFFICES ASSUME Init PROVE LInv
  OBVIOUS
<1>1. ASSUME NEW h \in Leases PROVE Alive(h) /\ run[h].pc = "none"
  <2>1. lease[h] = NoLease /\ run[h] = NoRun /\ calls[h] = {} BY DEF Init, TableInit
  <2> QED BY <2>1, Nothing DEF Alive, NoLease
<1>2. ASSUME NEW s \in Sessions PROVE Turned(s) BY DEF Init, Turned
<1> QED BY <1>1, <1>2 DEF LInv

(* The steps of the run under a lease, in time. *)
LEMMA RunStepsLive ==
    ASSUME WInv, LInv, NEW h \in Leases, RunStep(h)
    PROVE  LInv'
<1>1. CASE Enter(h) BY <1>1, EnterLives
<1>2. CASE Pass(h) BY <1>2, PassLives
<1>3. CASE ReadNothing(h) \/ ReadWork(h) \/ HoldEnds(h) BY <1>3, ReadLives
<1>4. CASE StepOverCancels(h) BY <1>4, StepOverLives
<1>5. CASE Open(h) BY <1>5, OpenLives
<1>6. CASE Fails(h) BY <1>6, FailsLives
<1>7. CASE Step(h) BY <1>7, StepLives
<1>8. CASE FeedCancel(h) BY <1>8, FeedCancelLives
<1>9. CASE CursorStored(h) \/ FeedPaused(h) BY <1>9, HoldingLives
<1>10. CASE Feed(h) BY <1>10, FeedLives
<1>11. CASE \E settled \in {"idle", "woken"} : Wakes(h, settled) BY <1>11, WakesLives
<1>12. CASE CancelSettles(h) BY <1>12, CancelSettlesLives
<1>13. CASE Close(h) BY <1>13, CloseLives
<1>14. CASE Closed(h) BY <1>14, ClosedLives
<1>15. CASE After(h) BY <1>15, AfterLives
<1>16. CASE Finish(h) BY <1>16, FinishLives
<1>17. CASE Done(h) BY <1>17, DoneLives
<1> QED BY <1>1, <1>2, <1>3, <1>4, <1>5, <1>6, <1>7, <1>8, <1>9, <1>10, <1>11, <1>12, <1>13,
           <1>14, <1>15, <1>16, <1>17 DEF RunStep

(* The steps of the run in flight, in time. *)
LEMMA TurnStepsLive ==
    ASSUME WInv, LInv, NEW h \in Leases, TurnStep(h)
    PROVE  LInv'
<1>1. CASE TurnTakes(h) BY <1>1, TurnTakesLives
<1>2. CASE TurnWrites(h) \/ TaskSpawns(h) BY <1>2, TurnsStill
<1>3. CASE TurnPauses(h) \/ TurnEnds(h) \/ ResumeThrows(h) BY <1>3, EndingLives
<1>4. CASE TaskSettles(h) BY <1>4, TaskSettlesLives
<1> QED BY <1>1, <1>2, <1>3, <1>4 DEF TurnStep

(* Every step of a behaviour whose heartbeats keep up keeps the invariant. *)
LEMMA LNext ==
    ASSUME WInv, LInv, ~May("lapse"), [Next /\ UNCHANGED scene]_<<vars, scene>>
    PROVE  LInv'
<1>1. CASE UNCHANGED vars BY <1>1, SameLogStep, NothingMoves DEF vars, StillTable
<1>2. CASE Next
  <2>1. ASSUME NEW h \in Leases, TurnStep(h) PROVE LInv' BY <2>1, TurnStepsLive
  <2>2. ASSUME NEW h \in Leases, RunStep(h) PROVE LInv' BY <2>2, RunStepsLive
  <2>3. ASSUME NEW h \in Leases, Heartbeat(h) \/ CallFails(h) \/ NudgeRaises(h) PROVE LInv'
    BY <2>3, BeatsStill
  <2>4. ASSUME NEW h \in Leases, NEW beat \in Beats, BeatAnswered(h, beat) PROVE LInv'
    BY <2>4, BeatsStill
  <2>5. ASSUME NEW s \in Sessions, ServiceStep(s) \/ NudgeLost(s) PROVE LInv'
    BY <2>5, ServiceStill
  <2>6. ASSUME NEW h \in Leases, NEW o \in Owners, NEW s \in Sessions,
               ClaimRun(h, o, s) \/ NudgeTakes(h, o, s)
        PROVE  LInv'
    <3>1. PICK looped \in BOOLEAN : Started(h, o, s, looped) BY <2>6 DEF ClaimRun, NudgeTakes
    <3>2. (Claim(h, o, s) \/ Acquire(h, o, s)) /\ UNCHANGED <<logVars, obj>>
      BY <2>6 DEF ClaimRun, NudgeTakes
    <3> QED BY <3>1, <3>2, StartLives
  <2>7. ASSUME NEW o \in Owners, Stop(o) PROVE LInv' BY <2>7, StopStill
  <2>8. ASSUME NEW o \in Owners, WorkerCrash(o) PROVE LInv' BY <2>8, WorkerCrashLives
  <2>9. ASSUME TableStep PROVE LInv' BY <2>9, TableStill
  <2> QED BY <1>2, <2>1, <2>2, <2>3, <2>4, <2>5, <2>6, <2>7, <2>8, <2>9 DEF Next
<1> QED BY <1>1, <1>2

(* The invariant of workers whose heartbeats keep up with the clock. *)
LEMMA InTimeInvariant == Spec /\ [](~May("lapse")) => []LInv
BY WorkerInvariant, LInit, LNext, PTL DEF Spec

(* It gives one driver per turn. *)
LEMMA OneDriver ==
    ASSUME WInv, LInv
    PROVE  OneDriverPerTurn
<1>1. OneObjectPerProcess BY ObjectIsFed, HoldsAlone DEF OneObjectPerProcess
<1>2. ASSUME NEW s \in Sessions, turnOpen[s] PROVE row[s].owner # NoOwner \/ dropped[s] # "no"
  BY <1>2 DEF LInv, Turned, Back
<1> QED BY <1>1, <1>2 DEF OneDriverPerTurn, OpenTurnIsSomebodys

(* While heartbeats keep up with the clock, a process drives at most one
   session object of a session (session-worker.ts:233-283), and a turn the
   log shows as open has a run that drives it, or its row is one a claim
   will take, or the run that took it over failed before it could close
   the turn (session-worker.ts:250-256): for any number of workers, leases
   and sessions, with crashes and failing queries. Where leases may lapse
   it is false from three leases on. *)
THEOREM OneDriverInTime == Spec /\ [](~May("lapse")) => []OneDriverPerTurn
BY WorkerInvariant, InTimeInvariant, OneDriver, PTL

(* What is on the bus of an object that is still fed lies beyond every
   cancel. *)
LEMMA CancelledStep ==
    ASSUME WInv, LInv, [Next]_vars, NEW h \in Leases, NEW p \in TakenBy(h),
           Discarded(Session(h), p)
    PROVE  run[h].cancelled
<1> DEFINE s == Session(h)
<1>1. obj[h].state # "none" BY TakenIsDrained
<1>2. PICK i \in 1..Len(obj[h].bus) : p = obj[h].bus[i] BY TakenIsDrained
<1>3. Feeds(run[h].pc) /\ Keeps(h) BY <1>1, ObjectIsFed DEF LInv
<1>4. PICK q \in (p + 1)..cursor[s] : log[s][q].kind = "cancel" BY DEF Discarded, Precedes, Kind
<1> QED BY <1>2, <1>3, <1>4 DEF Keeps, KeepsAs, BeyondCancels

(* While heartbeats keep up with the clock, what a cancel discarded enters
   the conversation through the object that was being fed at the time, or
   not at all (session-worker.ts:304-306, 435-455): every object opened
   later reads from beyond the cancel. *)
THEOREM CancelledInTime == Spec /\ [](~May("lapse")) => CancelledNeverReturns
<1>1. ASSUME WInv, LInv, [Next /\ UNCHANGED scene]_<<vars, scene>>
      PROVE  [\A h \in Leases : \A p \in TakenBy(h) :
                Discarded(Session(h), p) => run[h].cancelled]_vars
  <2>1. [Next]_vars BY <1>1
  <2> QED BY <1>1, <2>1, CancelledStep
<1> QED BY <1>1, WorkerInvariant, InTimeInvariant, PTL DEF Spec, CancelledNeverReturns

-----------
(* An object that is not there is not tended. *)
LEMMA TendsNothing ==
    ASSUME NEW stop, NEW r, ~Feeds(r.pc)
    PROVE  Tended(stop, r, NoObject)
<1>1. NoObject.answering = 0 /\ NoObject.state = "none" /\ NoObject.closing = FALSE
  BY DEF NoObject
<1> QED BY <1>1 DEF Tended, Feeds

(* A run that carries work is there, and holds the row. *)
LEMMA CarriesThere ==
    ASSUME NEW l, NEW c, NEW stop, NEW r, NEW x, Carries(l, c, stop, r, x)
    PROVE  r.pc \notin {"none", "release"}
BY DEF Carries, Feeding

(* Every other run of its session is over. *)
LEMMA OthersOver ==
    ASSUME WInv, LInv, NEW h \in Leases, run[h].pc \notin {"none", "release"},
           NEW g \in Leases, Session(g) = Session(h), g # h
    PROVE  run[g].pc \in {"none", "release"} /\ obj[g] = NoObject /\ Waits(run[g], obj[g])
<1>1. run[g].pc \in {"none", "release"} BY HoldsAlone
<1>2. obj[g] = NoObject BY <1>1 DEF WInv, Placed, Fits, Listens
<1>3. NoObject.state = "none" BY DEF NoObject
<1> QED BY <1>1, <1>2, <1>3 DEF Waits, Feeding

(* Where there is a run, it is the run that minds the work. *)
LEMMA Locally ==
    ASSUME WInv, LInv, TInv, NEW h \in Leases, run[h].pc \notin {"none", "release"},
           Work(log[Session(h)], cursor[Session(h)])
    PROVE  \/ Told(Session(h))
           \/ Local(log[Session(h)], cursor[Session(h)], intr[Session(h)],
                    Host(h) \in stopping, run[h], obj[h])
<1> DEFINE s == Session(h)
<1>1. s \in Sessions /\ Mine(h) /\ ~lease[h].gone BY HoldsRow
<1>2. Minded(s) BY <1>1 DEF TInv
<1>3. CASE Carried(s)
  <2>1. PICK g \in Leases : Session(g) = s
                            /\ Carries(log[s], cursor[s], Host(g) \in stopping, run[g], obj[g])
    BY <1>3 DEF Carried
  <2>2. g = h BY <2>1, CarriesThere, HoldsAlone
  <2> QED BY <2>1, <2>2 DEF Local
<1>4. CASE Asking(s) BY <1>4 DEF Asking, Local
<1>5. CASE Abandoned(s) BY <1>1, <1>5 DEF Abandoned
<1> QED BY <1>2, <1>3, <1>4, <1>5 DEF Minded

(* What a step of the run of h, or of its object, has to show. *)
LEMMA ActorTends ==
    ASSUME WInv, LInv, TInv, NEW h \in Leases, run[h].pc \notin {"none", "release"},
           NEW t, NEW y, run' = [run EXCEPT ![h] = t], obj' = [obj EXCEPT ![h] = y],
           UNCHANGED <<row, lease, calls, stopping>>,
           dropped[Session(h)] # "no" => dropped'[Session(h)] # "no",
           \A u \in Sessions \ {Session(h)} : /\ log'[u] = log[u] /\ cursor'[u] = cursor[u]
                                              /\ intr'[u] = intr[u] /\ dropped'[u] = dropped[u],
           Tended(Host(h) \in stopping, t, y),
           LET s == Session(h)
               stop == Host(h) \in stopping IN
             Work(log'[s], cursor'[s]) =>
                \/ Local(log'[s], cursor'[s], intr'[s], stop, t, y)
                \/ dropped'[s] # "no"
                \/ /\ Work(log[s], cursor[s])
                   /\ ~Local(log[s], cursor[s], intr[s], stop, run[h], obj[h])
    PROVE  TInv'
<1> DEFINE s == Session(h)
           stop == Host(h) \in stopping
<1>0. DOMAIN run = Leases /\ DOMAIN obj = Leases BY DEF WInv, Typed
<1>1. /\ run'[h] = t /\ obj'[h] = y
      /\ \A g \in Leases \ {h} : run'[g] = run[g] /\ obj'[g] = obj[g]
  BY <1>0
<1>2. \A g \in Leases : Session(g)' = Session(g) /\ Host(g)' = Host(g) BY DEF Session, Host
<1>3. ASSUME NEW g \in Leases PROVE Tends(g)'
  <2>1. CASE g = h BY <2>1, <1>1, <1>2 DEF Tends
  <2>2. CASE g # h
    <3>1. run'[g] = run[g] /\ obj'[g] = obj[g] /\ Tends(g) BY <2>2, <1>1 DEF TInv
    <3> QED BY <3>1, <1>2 DEF Tends
  <2> QED BY <2>1, <2>2
<1>4. \A u \in Sessions : Told(u) /\ (dropped[u] # "no" => dropped'[u] # "no") => Told(u)'
  BY <1>2 DEF Told
<1>5. ASSUME NEW u \in Sessions, Work(log'[u], cursor'[u]) PROVE Minded(u)'
  <2>1. CASE u # s
    <3>1. Minded(u) /\ log'[u] = log[u] /\ cursor'[u] = cursor[u] /\ intr'[u] = intr[u]
          /\ dropped'[u] = dropped[u]
      BY <2>1, <1>5 DEF TInv
    <3>2. \A g \in Leases : Session(g) = u => run'[g] = run[g] /\ obj'[g] = obj[g] BY <2>1, <1>1
    <3>3. CASE Told(u) BY <3>1, <3>3, <1>4 DEF Minded
    <3>4. CASE Carried(u) BY <3>1, <3>2, <3>4, <1>2 DEF Carried, Minded
    <3>5. CASE Asking(u) BY <3>1, <3>2, <3>5, <1>2 DEF Asking, Minded
    <3>6. CASE Abandoned(u) BY <3>1, <3>6, <1>2 DEF Abandoned, Minded, Mine
    <3> QED BY <3>1, <3>3, <3>4, <3>5, <3>6 DEF Minded
  <2>2. CASE u = s
    <3>1. CASE Local(log'[s], cursor'[s], intr'[s], stop, t, y)
      <4>1. CASE Carries(log'[s], cursor'[s], stop, t, y)
        BY <2>2, <4>1, <1>1, <1>2 DEF Carried, Minded
      <4>2. CASE intr'[s] /\ Waits(t, y)
        <5>1. \A g \in Leases : Session(g) = s => Waits(run'[g], obj'[g])
          BY <4>2, <1>1, OthersOver
        <5> QED BY <2>2, <4>2, <5>1, <1>2 DEF Asking, Minded
      <4> QED BY <3>1, <4>1, <4>2 DEF Local
    <3>2. CASE dropped'[s] # "no" BY <2>2, <3>2 DEF Told, Minded
    <3>3. CASE Work(log[s], cursor[s])
               /\ ~Local(log[s], cursor[s], intr[s], stop, run[h], obj[h])
      <4>1. Told(s) BY <3>3, Locally
      <4> QED BY <2>2, <4>1, <1>4 DEF Minded
    <3> QED BY <2>2, <1>5, <3>1, <3>2, <3>3
  <2> QED BY <2>1, <2>2
<1> QED BY <1>3, <1>5 DEF TInv

(* They carry what they carried, *)
LEMMA CarriesStill ==
    ASSUME NEW l, NEW m, NEW c, NEW d, NEW p, NEW q, NEW r, NEW t, NEW x, NEW y,
           StaysRun(r, t), y.bus = x.bus, p => q,
           \A n \in 1..Len(m) : Fresh(m, d, n) => Fresh(l, c, n),
           Carries(l, c, p, r, x)
    PROVE  Carries(m, d, q, t, y)
<1>1. Line(t) = Line(r) BY DEF Line, StaysRun
<1>2. Knows(l, c, r) => Knows(m, d, t) BY <1>1 DEF Knows, Fresh
<1> QED BY <1>2 DEF Carries, StaysRun, Feeding

(* and are tended as they were. *)
LEMMA TendedStill ==
    ASSUME NEW p, NEW q, NEW r, NEW t, NEW x, NEW y,
           StaysRun(r, t), StaysObject(q, x, y), p => q, Tended(p, r, x)
    PROVE  Tended(q, t, y)
<1>1. Listens(t.pc) => \A i \in 1..Len(t.out) :
          t.out[i] \in t.seen \/ t.out[i] = y.answering \/ Has(y.bus, t.out[i])
  BY DEF Tended, StaysRun, StaysObject
<1> QED BY <1>1 DEF Tended, StaysRun, StaysObject

(* A step in which no run and no object gets anywhere. *)
LEMMA StillTends ==
    ASSUME WInv, TInv, SessionsKept,
           \A g \in Leases : /\ StaysRun(run[g], run'[g])
                             /\ StaysObject(Host(g)' \in stopping', obj[g], obj'[g])
                             /\ Host(g) \in stopping => Host(g)' \in stopping',
           \A s \in Sessions :
              \/ Told(s)'
              \/ /\ UNCHANGED <<log[s], cursor[s], intr[s]>>
                 /\ Told(s) => Carried(s)'
                 /\ Abandoned(s) => Abandoned(s)'
    PROVE  TInv'
<1>1. \A g \in Leases : Session(g)' = Session(g) BY DEF SessionsKept, Session
<1>2. ASSUME NEW g \in Leases PROVE Tends(g)'
  <2>1. Tends(g) /\ run'[g].pc = run[g].pc BY DEF TInv, StaysRun
  <2> QED BY <2>1, TendedStill DEF Tends
<1>3. ASSUME NEW s \in Sessions, Work(log'[s], cursor'[s]) PROVE Minded(s)'
  <2> SUFFICES ASSUME UNCHANGED <<log[s], cursor[s], intr[s]>>,
                      Told(s) => Carried(s)', Abandoned(s) => Abandoned(s)'
               PROVE  Minded(s)'
    BY DEF Minded
  <2>1. Minded(s) BY <1>3 DEF TInv
  <2>2. CASE Carried(s)
    <3>1. PICK g \in Leases : Session(g) = s
                              /\ Carries(log[s], cursor[s], Host(g) \in stopping, run[g], obj[g])
      BY <2>2 DEF Carried
    <3>2. Carries(log'[s], cursor'[s], Host(g)' \in stopping', run'[g], obj'[g])
      <4>1. /\ StaysRun(run[g], run'[g]) /\ obj'[g].bus = obj[g].bus
            /\ Host(g) \in stopping => Host(g)' \in stopping'
            /\ log'[s] = log[s] /\ cursor'[s] = cursor[s]
        BY DEF StaysObject
      <4>2. \A n \in 1..Len(log'[s]) : Fresh(log'[s], cursor'[s], n) => Fresh(log[s], cursor[s], n)
        BY <4>1
      <4> DEFINE p == Host(g) \in stopping
                 q == Host(g)' \in stopping'
                 r == run[g]
                 t == run'[g]
                 x == obj[g]
                 y == obj'[g]
                 l == log[s]
                 m == log'[s]
                 c == cursor[s]
                 d == cursor'[s]
      <4>3. /\ StaysRun(r, t) /\ y.bus = x.bus /\ (p => q) /\ Carries(l, c, p, r, x)
            /\ \A n \in 1..Len(m) : Fresh(m, d, n) => Fresh(l, c, n)
        BY <3>1, <4>1, <4>2
      <4> HIDE DEF p, q, r, t, x, y, l, m, c, d
      <4>4. Carries(m, d, q, t, y) BY <4>3, CarriesStill
      <4> QED BY <4>4 DEF m, d, q, t, y
    <3> QED BY <3>1, <3>2, <1>1 DEF Carried, Minded
  <2>3. CASE Asking(s)
    <3>1. \A g \in Leases : Session(g) = s => Waits(run'[g], obj'[g])
      BY <2>3 DEF Asking, Waits, StaysRun, StaysObject
    <3> QED BY <2>3, <3>1, <1>1 DEF Asking, Minded
  <2> QED BY <2>1, <2>2, <2>3 DEF Minded
<1> QED BY <1>2, <1>3 DEF TInv

-----------
(* A run and an object that are as they were. *)
LEMMA StaysSame ==
    ASSUME NEW r, NEW x, NEW stop
    PROVE  StaysRun(r, r) /\ StaysObject(stop, x, x)
BY DEF StaysRun, StaysObject

(* A step in which no run and no object changes at all. *)
LEMMA CalmTends ==
    ASSUME WInv, TInv, SessionsKept, \A g \in Leases : lease'[g].owner = lease[g].owner,
           UNCHANGED <<run, obj, stopping>>,
           \A s \in Sessions :
              \/ Told(s)'
              \/ /\ ~Told(s) /\ UNCHANGED <<log[s], cursor[s], intr[s]>>
                 /\ Abandoned(s) => Abandoned(s)'
    PROVE  TInv'
<1>1. \A g \in Leases : Host(g)' = Host(g) BY DEF Host
<1>2. ASSUME NEW g \in Leases
      PROVE  /\ StaysRun(run[g], run'[g])
             /\ StaysObject(Host(g)' \in stopping', obj[g], obj'[g])
             /\ Host(g) \in stopping => Host(g)' \in stopping'
  <2>1. run'[g] = run[g] /\ obj'[g] = obj[g] OBVIOUS
  <2> QED BY <2>1, <1>1, StaysSame
<1> QED BY <1>2, StillTends

(* The API nodes look, a nudge is lost, or nothing happens. *)
LEMMA NothingTends ==
    ASSUME WInv, TInv, UNCHANGED <<tableVars, logVars, stopping, run, obj, dropped>>
    PROVE  TInv'
<1>1. SessionsKept /\ \A g \in Leases : lease'[g].owner = lease[g].owner
  BY DEF SessionsKept, tableVars
<1>2. ASSUME NEW s \in Sessions
      PROVE  /\ UNCHANGED <<log[s], cursor[s], intr[s]>>
             /\ Told(s)' <=> Told(s)
             /\ Abandoned(s)' <=> Abandoned(s)
  BY DEF tableVars, logVars, Told, Abandoned, Session, Mine
<1> QED BY <1>1, <1>2, CalmTends

(* What is accepted wakes the row. *)
LEMMA AcceptTends ==
    ASSUME WInv, TInv, NEW s \in Sessions, NEW kind \in {"input", "resume", "cancel"}, Accept(s, kind)
    PROVE  TInv'
<1>1. /\ log' = [log EXCEPT ![s] = Append(log[s], Record(kind, 0))]
      /\ UNCHANGED <<cursor, intr, stopping, run, obj, dropped>>
      /\ row' = [row EXCEPT ![s].woken = TRUE] /\ UNCHANGED <<lease, calls>>
  BY DEF Accept, AppendRecord
<1>2. log \in [Sessions -> Logs] /\ row \in [Sessions -> RowType]
  BY DEF WInv, Typed, IInv, TableTypeOK
<1>3. SessionsKept /\ \A g \in Leases : lease'[g].owner = lease[g].owner
  BY <1>1 DEF SessionsKept
<1>4. ASSUME NEW u \in Sessions
      PROVE  \/ Told(u)'
             \/ /\ ~Told(u) /\ UNCHANGED <<log[u], cursor[u], intr[u]>>
                /\ Abandoned(u) => Abandoned(u)'
  <2>1. CASE u = s
    <3>1. row'[s].woken BY <1>1, <1>2 DEF RowType
    <3> QED BY <2>1, <3>1 DEF Told
  <2>2. CASE u # s
    <3>1. row'[u] = row[u] /\ log'[u] = log[u] BY <2>2, <1>1, <1>2
    <3> QED BY <3>1, <1>1 DEF Told, Abandoned, Session, Mine
  <2> QED BY <2>1, <2>2
<1> QED BY <1>1, <1>3, <1>4, CalmTends

(* The API nodes, and nudges nobody answers. *)
LEMMA ServiceTends ==
    ASSUME WInv, TInv, NEW s \in Sessions, ServiceStep(s) \/ NudgeLost(s)
    PROVE  TInv'
<1>1. ASSUME NEW kind \in {"input", "resume"}, CheckState(s, kind) PROVE TInv'
  BY <1>1, NothingTends DEF CheckState
<1>2. CASE AppendChecked(s)
  <2>1. pending[s] \in {"input", "resume"} /\ Accept(s, pending[s])
    BY <1>2 DEF AppendChecked, WInv, Flagged
  <2> QED BY <2>1, AcceptTends
<1>3. CASE RequestCancel(s) BY <1>3, AcceptTends DEF RequestCancel
<1>4. CASE NudgeLost(s) BY <1>4, NothingTends DEF NudgeLost
<1> QED BY <1>1, <1>2, <1>3, <1>4 DEF ServiceStep

(* A heartbeat is sent, or a statement or its answer is lost. *)
LEMMA CallsTend ==
    ASSUME WInv, TInv, NEW h \in Leases, Heartbeat(h) \/ CallFails(h)
    PROVE  TInv'
<1>0. /\ calls \in [Leases -> SUBSET (Beats \union Statements)]
      /\ dropped \in [Sessions -> {"no", "late", "stop", "error", "page"}]
  BY DEF WInv, IInv, TableTypeOK, Flagged
<1>1. UNCHANGED <<row, lease, logVars, stopping, run, obj>>
  BY DEF Heartbeat, RenewSend, CallFails, QueryFails, apiVars
<1>2. SessionsKept /\ \A g \in Leases : lease'[g].owner = lease[g].owner /\ Session(g)' = Session(g)
  BY <1>1 DEF SessionsKept, Session
<1>3. \A g \in Leases : /\ "release" \in calls'[g] => "release" \in calls[g]
                        /\ g # h => calls'[g] = calls[g]
  BY <1>0 DEF Heartbeat, RenewSend, CallFails, QueryFails
<1>4. /\ \A s \in Sessions : dropped[s] # "no" => dropped'[s] # "no"
      /\ \/ "woken" \in calls[h] => "woken" \in calls'[h]
         \/ Session(h) \in Sessions => dropped'[Session(h)] # "no"
  <2>1. CASE Heartbeat(h) BY <1>0, <2>1 DEF Heartbeat, RenewSend
  <2>2. CASE CallFails(h)
    <3>1. dropped' = IF "woken" \in calls[h] \ calls'[h]
                     THEN [dropped EXCEPT ![Session(h)] = "error"] ELSE dropped
      BY <2>2 DEF CallFails
    <3> QED BY <3>1, <1>0
  <2> QED BY <2>1, <2>2
<1>5. ASSUME NEW s \in Sessions
      PROVE  /\ UNCHANGED <<log[s], cursor[s], intr[s]>>
             /\ Told(s) => Told(s)'
             /\ Abandoned(s) => Abandoned(s)'
  <2>1. Told(s) => Told(s)'
    <3>1. ASSUME NEW g \in Leases, Session(g) = s, "woken" \in calls[g] PROVE Told(s)'
      BY <3>1, <1>2, <1>3, <1>4 DEF Told
    <3> QED BY <3>1, <1>1, <1>4 DEF Told
  <2>2. Abandoned(s) => Abandoned(s)' BY <1>1, <1>2, <1>3 DEF Abandoned, Mine
  <2> QED BY <2>1, <2>2, <1>1 DEF logVars
<1> QED BY <1>1, <1>2, <1>5, CalmTends

(* The statements commit: woken goes from the row into the answer, and a
   row that is given back was not abandoned. *)
LEMMA RenewTends ==
    ASSUME WInv, TInv, NEW h \in Leases, RenewCommit(h),
           UNCHANGED <<logVars, apiVars, run, obj, dropped>>
    PROVE  TInv'
<1> DEFINE v == lease[h].session
<1>0. TableTypeOK BY DEF WInv, IInv
<1>1. /\ \A g \in Leases \ {h} : calls'[g] = calls[g]
      /\ \A g \in Leases : "release" \in calls'[g] => "release" \in calls[g]
      /\ "woken" \in calls[h] => "woken" \in calls'[h]
      /\ Mine(h) /\ row[v].woken => "woken" \in calls'[h]
  BY <1>0 DEF RenewCommit, TableTypeOK
<1>2. \A g \in Leases : /\ lease'[g].session = lease[g].session /\ lease'[g].owner = lease[g].owner
                        /\ lease'[g].fence = lease[g].fence /\ lease'[g].gone = lease[g].gone
  BY <1>0 DEF RenewCommit, TableTypeOK, LeaseType
<1>3. ASSUME NEW s \in Sessions
      PROVE  /\ row'[s].owner = row[s].owner /\ row'[s].fence = row[s].fence
             /\ row'[s].woken = row[s].woken \/ (Mine(h) /\ s = v)
  <2>1. row' = row \/ (Mine(h) /\ row' = [row EXCEPT ![v] = [@ EXCEPT !.woken = FALSE, !.left = TTL]])
    BY DEF RenewCommit
  <2>2. row[s] \in RowType /\ row \in [Sessions -> RowType] BY <1>0 DEF TableTypeOK
  <2>3. CASE s # v \/ row' = row BY <2>1, <2>2, <2>3
  <2>4. CASE s = v /\ row' # row
    <3>1. row'[s] = [row[s] EXCEPT !.woken = FALSE, !.left = TTL] /\ Mine(h) BY <2>1, <2>2, <2>4
    <3> QED BY <2>2, <2>4, <3>1 DEF RowType
  <2> QED BY <2>3, <2>4
<1>4. ASSUME NEW s \in Sessions
      PROVE  /\ UNCHANGED <<log[s], cursor[s], intr[s]>>
             /\ Told(s) => Told(s)'
             /\ Abandoned(s) => Abandoned(s)'
  <2>1. Told(s) => Told(s)'
    <3>1. ASSUME NEW g \in Leases, Session(g) = s, "woken" \in calls[g] PROVE Told(s)'
      BY <3>1, <1>1, <1>2 DEF Told, Session
    <3>2. ASSUME row[s].woken PROVE Told(s)' BY <3>2, <1>1, <1>2, <1>3 DEF Told, Session
    <3> QED BY <3>1, <3>2 DEF Told
  <2>2. Abandoned(s) => Abandoned(s)' BY <1>1, <1>2, <1>3 DEF Abandoned, Mine, Session
  <2> QED BY <2>1, <2>2 DEF logVars
<1> QED BY <1>2, <1>4, CalmTends DEF SessionsKept, apiVars

(* A release commits. *)
LEMMA ReleaseTends ==
    ASSUME WInv, TInv, NEW h \in Leases, ReleaseCommit(h),
           UNCHANGED <<logVars, apiVars, run, obj, dropped>>
    PROVE  TInv'
<1> DEFINE v == lease[h].session
<1>0. TableTypeOK BY DEF WInv, IInv
<1>1. /\ lease' = lease /\ "release" \in calls[h]
      /\ \A g \in Leases : \A c \in {"woken", "release"} :
            /\ c \in calls'[g] => c \in calls[g]
            /\ c = "woken" => (c \in calls'[g] <=> c \in calls[g])
  BY <1>0 DEF ReleaseCommit, TableTypeOK
<1>2. \/ row' = row
      \/ Mine(h) /\ row' = [row EXCEPT ![v] = [@ EXCEPT !.owner = NoOwner, !.left = -1]]
  BY DEF ReleaseCommit
<1>3. ASSUME NEW s \in Sessions
      PROVE  /\ row'[s].woken = row[s].woken
             /\ row'[s] = row[s] \/ (Mine(h) /\ s = v)
  <2>1. row[s] \in RowType /\ row \in [Sessions -> RowType] BY <1>0 DEF TableTypeOK
  <2>2. CASE s # v \/ row' = row BY <1>2, <2>1, <2>2
  <2>3. CASE s = v /\ row' # row
    <3>1. row'[s] = [row[s] EXCEPT !.owner = NoOwner, !.left = -1] /\ Mine(h)
      BY <1>2, <2>1, <2>3
    <3> QED BY <2>1, <2>3, <3>1 DEF RowType
  <2> QED BY <2>2, <2>3
<1>4. ASSUME NEW s \in Sessions
      PROVE  /\ UNCHANGED <<log[s], cursor[s], intr[s]>>
             /\ Told(s) => Told(s)'
             /\ Abandoned(s) => Abandoned(s)'
  <2>1. Told(s) => Told(s)' BY <1>1, <1>3 DEF Told, Session
  <2>2. Abandoned(s) => Abandoned(s)'
    <3>1. CASE row'[s] = row[s] BY <3>1, <1>1 DEF Abandoned, Mine, Session
    <3>2. CASE Mine(h) /\ s = v BY <3>2, <1>1 DEF Abandoned, Session
    <3> QED BY <3>1, <3>2, <1>3
  <2> QED BY <2>1, <2>2 DEF logVars
<1> QED BY <1>1, <1>4, CalmTends DEF SessionsKept, apiVars

(* The clock ticks. *)
LEMMA TableTends ==
    ASSUME WInv, TInv, TableStep
    PROVE  TInv'
<1>1. UNCHANGED <<logVars, apiVars, run, obj, dropped>> BY DEF TableStep
<1>2. CASE \E h \in Leases : RenewCommit(h) \/ ReleaseCommit(h)
  BY <1>1, <1>2, RenewTends, ReleaseTends
<1>3. CASE Tick
  <2>0. TableTypeOK BY DEF WInv, IInv
  <2>1. /\ calls' = calls
        /\ \A s \in Sessions : /\ row'[s].woken = row[s].woken /\ row'[s].owner = row[s].owner
                               /\ row'[s].fence = row[s].fence
        /\ \A g \in Leases : /\ lease'[g].session = lease[g].session
                             /\ lease'[g].owner = lease[g].owner
                             /\ lease'[g].fence = lease[g].fence /\ lease'[g].gone = lease[g].gone
    BY <1>3, <2>0 DEF Tick, TableTypeOK, RowType, LeaseType
  <2>2. ASSUME NEW s \in Sessions
        PROVE  /\ UNCHANGED <<log[s], cursor[s], intr[s]>>
               /\ Told(s) => Told(s)'
               /\ Abandoned(s) => Abandoned(s)'
    BY <1>1, <2>1 DEF Told, Abandoned, Mine, Session, logVars
  <2> QED BY <1>1, <2>1, <2>2, CalmTends DEF SessionsKept, apiVars
<1> QED BY <1>2, <1>3 DEF TableStep

-----------
(* A wake that is raised stays raised. *)
LEMMA WakeStays ==
    ASSUME NEW r \in RunTypes, NEW b \in BOOLEAN, r.wake => b
    PROVE  StaysRun(r, [r EXCEPT !.wake = b]) /\ [r EXCEPT !.wake = b].wake = b
BY DEF RunTypes, StaysRun

(* A run whose wake is up looks at the inbox again, or fails to by
   stopping, wherever it is short of its last look. *)
LEMMA WakeCarries ==
    ASSUME NEW l, NEW c, NEW stop, NEW r \in RunTypes, NEW x, r.wake,
           r.pc \notin {"finish", "release", "none"}
    PROVE  Carries(l, c, stop, r, x)
BY DEF Carries, RunTypes, Places, Feeding

(* A nudge raises a wake. *)
LEMMA NudgeTends ==
    ASSUME WInv, TInv, NEW h \in Leases, NudgeRaises(h)
    PROVE  TInv'
<1>1. UNCHANGED <<tableVars, logVars, stopping, obj, dropped>> /\ run' = [run EXCEPT ![h].wake = TRUE]
  BY DEF NudgeRaises
<1>2. run \in [Leases -> RunTypes] BY DEF WInv, Typed
<1>3. ASSUME NEW g \in Leases
      PROVE  /\ StaysRun(run[g], run'[g])
             /\ StaysObject(Host(g)' \in stopping', obj[g], obj'[g])
             /\ Host(g) \in stopping => Host(g)' \in stopping'
  <2>1. StaysRun(run[g], run'[g]) BY <1>1, <1>2, WakeStays, StaysSame
  <2>2. obj'[g] = obj[g] /\ Host(g)' = Host(g) /\ stopping' = stopping
    BY <1>1 DEF tableVars, Host
  <2> QED BY <2>1, <2>2, StaysSame
<1>4. ASSUME NEW s \in Sessions
      PROVE  /\ UNCHANGED <<log[s], cursor[s], intr[s]>>
             /\ Told(s)' <=> Told(s)
             /\ Abandoned(s)' <=> Abandoned(s)
  BY <1>1 DEF tableVars, logVars, Told, Abandoned, Session, Mine
<1>5. SessionsKept BY <1>1 DEF SessionsKept, tableVars
<1> QED BY <1>3, <1>4, <1>5, StillTends

(* What a heartbeat is told goes to the run, or is known to come too late. *)
LEMMA BeatTends ==
    ASSUME WInv, LInv, TInv, NEW h \in Leases, NEW beat \in Beats, BeatAnswered(h, beat)
    PROVE  TInv'
<1> DEFINE b == run[h].wake \/ beat = "woken"
<1>0. /\ TableTypeOK /\ run \in [Leases -> RunTypes] /\ run[h].wake \in BOOLEAN
      /\ dropped \in [Sessions -> {"no", "late", "stop", "error", "page"}]
  BY DEF WInv, IInv, Typed, Flagged, RunTypes
<1>1. /\ run' = [run EXCEPT ![h].wake = b] /\ UNCHANGED <<logVars, stopping, obj, row>>
      /\ calls' = [calls EXCEPT ![h] = @ \ {beat}]
      /\ lease' = [lease EXCEPT ![h].gone = @ \/ beat = "lost"] /\ beat \in calls[h]
      /\ dropped' = IF beat = "woken" /\ run[h].pc \in {"finish", "release", "none"}
                    THEN [dropped EXCEPT ![Session(h)] = "late"] ELSE dropped
  BY DEF BeatAnswered, RenewAnswer, apiVars
<1>2. \A g \in Leases : /\ lease'[g].session = lease[g].session /\ lease'[g].owner = lease[g].owner
                        /\ lease'[g].fence = lease[g].fence
                        /\ lease[g].gone => lease'[g].gone
                        /\ calls'[g] \subseteq calls[g] /\ (g # h => calls'[g] = calls[g])
                        /\ "woken" \in calls[g] => "woken" \in calls'[g] \/ (g = h /\ beat = "woken")
  BY <1>0, <1>1 DEF TableTypeOK, LeaseType
<1>3. PICK w \in BOOLEAN : w = b BY <1>0
<1> HIDE DEF b
<1>4. run'[h] = [run[h] EXCEPT !.wake = w] /\ \A g \in Leases \ {h} : run'[g] = run[g]
  BY <1>0, <1>1, <1>3
<1>5. run[h].wake => w BY <1>3 DEF b
<1>6. ASSUME NEW g \in Leases
      PROVE  /\ StaysRun(run[g], run'[g])
             /\ StaysObject(Host(g)' \in stopping', obj[g], obj'[g])
             /\ Host(g) \in stopping => Host(g)' \in stopping'
  <2>1. StaysRun(run[g], run'[g]) BY <1>0, <1>4, <1>5, WakeStays, StaysSame
  <2>2. obj'[g] = obj[g] /\ Host(g)' = Host(g) /\ stopping' = stopping BY <1>1, <1>2 DEF Host
  <2> QED BY <2>1, <2>2, StaysSame
<1>7. beat = "woken" /\ Session(h) \in Sessions => (Told(Session(h)) \/ Carried(Session(h)))'
  <2> SUFFICES ASSUME beat = "woken", Session(h) \in Sessions
               PROVE  (Told(Session(h)) \/ Carried(Session(h)))'
    OBVIOUS
  <2>1. Session(h)' = Session(h) BY <1>2 DEF Session
  <2>2. CASE run[h].pc \in {"finish", "release", "none"} BY <2>1, <2>2, <1>0, <1>1 DEF Told
  <2>3. CASE run[h].pc \notin {"finish", "release", "none"}
    <3>1. w = TRUE BY <1>3 DEF b
    <3>2. run[h] \in RunTypes BY <1>0
    <3>3. PICK t : t = [run[h] EXCEPT !.wake = TRUE] OBVIOUS
    <3>4. t \in RunTypes /\ t.wake /\ t.pc = run[h].pc /\ run'[h] = t
      BY <1>4, <3>1, <3>2, <3>3 DEF RunTypes
    <3>5. Carries(log'[Session(h)], cursor'[Session(h)], Host(h)' \in stopping', t, obj'[h])
      BY <2>3, <3>4, WakeCarries
    <3> QED BY <2>1, <3>4, <3>5 DEF Carried
  <2> QED BY <2>2, <2>3
<1>8. ASSUME NEW s \in Sessions
      PROVE  \/ Told(s)'
             \/ /\ UNCHANGED <<log[s], cursor[s], intr[s]>>
                /\ Told(s) => Carried(s)'
                /\ Abandoned(s) => Abandoned(s)'
  <2>1. Told(s) => (Told(s) \/ Carried(s))'
    <3>1. CASE row[s].woken \/ dropped[s] # "no" BY <3>1, <1>0, <1>1 DEF Told
    <3>2. ASSUME NEW g \in Leases, Session(g) = s, "woken" \in calls[g]
          PROVE  (Told(s) \/ Carried(s))'
      <4>1. CASE "woken" \in calls'[g] BY <3>2, <4>1, <1>2 DEF Told, Session
      <4>2. CASE g = h /\ beat = "woken"
        <5>1. Session(h)' = s /\ Session(h) = s BY <3>2, <4>2, <1>2 DEF Session
        <5> QED BY <4>2, <5>1, <1>7
      <4> QED BY <3>2, <4>1, <4>2, <1>2
    <3> QED BY <3>1, <3>2 DEF Told
  <2>2. Abandoned(s) => Abandoned(s)' BY <1>1, <1>2 DEF Abandoned, Mine, Session
  <2>3. UNCHANGED <<log[s], cursor[s], intr[s]>> BY <1>1 DEF logVars
  <2> QED BY <2>1, <2>2, <2>3
<1>9. SessionsKept BY <1>2 DEF SessionsKept
<1> QED BY <1>6, <1>8, <1>9, StillTends

(* stop() closes what it finds, and every run knows. *)
LEMMA StopTends ==
    ASSUME WInv, TInv, NEW o \in Owners, Stop(o)
    PROVE  TInv'
<1>1. /\ run' = [h \in Leases |-> IF run[h].listed /\ Host(h) = o
                                  THEN [run[h] EXCEPT !.wake = TRUE] ELSE run[h]]
      /\ obj' = [h \in Leases |-> IF obj[h].state # "none" /\ Host(h) = o
                                  THEN [Aborted(obj[h]) EXCEPT !.closing = TRUE] ELSE obj[h]]
      /\ UNCHANGED <<tableVars, logVars, dropped>> /\ stopping' = stopping \union {o}
  BY DEF Stop
<1>2. run \in [Leases -> RunTypes] /\ obj \in [Leases -> ObjTypes] BY DEF WInv, Typed
<1>3. \A g \in Leases : Host(g)' = Host(g) BY <1>1 DEF Host, tableVars
<1>4. ASSUME NEW g \in Leases PROVE StaysRun(run[g], run'[g])
  <2>1. run'[g] = run[g] \/ run'[g] = [run[g] EXCEPT !.wake = TRUE] BY <1>1
  <2> QED BY <2>1, <1>2, WakeStays, StaysSame
<1>5. ASSUME NEW g \in Leases PROVE StaysObject(Host(g)' \in stopping', obj[g], obj'[g])
  <2>1. \/ obj'[g] = obj[g]
        \/ Host(g)' \in stopping' /\ obj'[g] = [Aborted(obj[g]) EXCEPT !.closing = TRUE]
    BY <1>1, <1>3
  <2>2. PICK x : x = Aborted(obj[g]) OBVIOUS
  <2>3. x = [obj[g] EXCEPT !.aborted = obj[g].state = "running"] BY <2>2 DEF Aborted
  <2>4. /\ x.state = obj[g].state /\ x.answering = obj[g].answering /\ x.bus = obj[g].bus
        /\ x.again = obj[g].again /\ x.task = obj[g].task /\ x \in ObjTypes
    BY <1>2, <2>3 DEF ObjTypes
  <2>5. CASE Host(g)' \in stopping' /\ obj'[g] = [x EXCEPT !.closing = TRUE]
    <3>1. PICK y : y = [x EXCEPT !.closing = TRUE] OBVIOUS
    <3>2. /\ y.state = x.state /\ y.answering = x.answering /\ y.bus = x.bus
          /\ y.again = x.again /\ y.task = x.task /\ y.closing = TRUE
      BY <2>4, <3>1 DEF ObjTypes
    <3> QED BY <2>4, <2>5, <3>1, <3>2 DEF StaysObject
  <2> QED BY <2>1, <2>2, <2>5, StaysSame
<1>6. ASSUME NEW g \in Leases PROVE Host(g) \in stopping => Host(g)' \in stopping' BY <1>1, <1>3
<1>7. ASSUME NEW s \in Sessions
      PROVE  /\ UNCHANGED <<log[s], cursor[s], intr[s]>>
             /\ Told(s)' <=> Told(s)
             /\ Abandoned(s)' <=> Abandoned(s)
  BY <1>1 DEF tableVars, logVars, Told, Abandoned, Session, Mine
<1>8. SessionsKept BY <1>1 DEF SessionsKept, tableVars
<1> QED BY <1>4, <1>5, <1>6, <1>7, <1>8, StillTends

-----------
LEMMA GoingOn ==
    ASSUME WInv, LInv, TInv, NEW h \in Leases, run[h].pc \notin {"none", "release"},
           NEW t, NEW y, run' = [run EXCEPT ![h] = t], obj' = [obj EXCEPT ![h] = y],
           Aside(h), Tended(Host(h) \in stopping, t, y),
           t.pc \in GoesOn \/ (Host(h) \in stopping /\ t.pc \notin {"none", "release"})
    PROVE  TInv'
<1>1. Local(log'[Session(h)], cursor'[Session(h)], intr'[Session(h)], Host(h) \in stopping, t, y)
  BY DEF Local, Carries, GoesOn
<1> QED BY <1>1, ActorTends DEF Aside

(* Outside the feed loop a run has no object. *)
LEMMA HasNoObject ==
    ASSUME WInv, NEW h \in Leases, ~Feeds(run[h].pc)
    PROVE  obj[h] = NoObject /\ (obj' = obj => obj' = [obj EXCEPT ![h] = NoObject])
BY DEF WInv, Placed, Fits, Feeds, Typed

(* A step of a run without an object. *)
LEMMA BareTends ==
    ASSUME WInv, LInv, TInv, NEW h \in Leases, run[h].pc \notin {"none", "release"},
           NEW t, run' = [run EXCEPT ![h] = t], obj' = [obj EXCEPT ![h] = NoObject],
           Aside(h), t.pc \in {"start", "wait", "pass", "read", "open"}
    PROVE  TInv'
<1>1. Tended(Host(h) \in stopping, t, NoObject) BY TendsNothing DEF Feeds, Listens
<1> QED BY <1>1, GoingOn DEF GoesOn

(* Steps that touch nothing but runs and objects. *)
LEMMA AsideSame ==
    ASSUME UNCHANGED <<row, lease, calls, logVars, stopping, dropped>>, NEW h
    PROVE  Aside(h)
BY DEF Aside, logVars

(* The run, up to the read of the inbox. *)
LEMMA EnterTends ==
    ASSUME WInv, LInv, TInv, NEW h \in Leases, Enter(h)
    PROVE  TInv'
<1>1. run[h].pc = "start" /\ UNCHANGED <<tableVars, logVars, apiVars, obj, dropped>> /\ run[h] \in RunTypes
  BY Here DEF Enter
<1>2. PICK t : /\ run' = [run EXCEPT ![h] = t]
               /\ \/ t = [run[h] EXCEPT !.pc = "pass", !.listed = TRUE]
                  \/ t = [run[h] EXCEPT !.pc = "wait", !.behind = Listed(Host(h), Session(h))]
  BY DEF Enter
<1>3. t.pc \in {"pass", "wait"} BY <1>1, <1>2 DEF RunTypes
<1>4. Aside(h) BY <1>1, AsideSame DEF tableVars, apiVars
<1>5. obj' = [obj EXCEPT ![h] = NoObject] BY <1>1, HasNoObject DEF Feeds, Listens
<1> QED BY <1>1, <1>2, <1>3, <1>4, <1>5, BareTends

(* A pass, and cancels stepped over. *)
LEMMA PassTends ==
    ASSUME WInv, LInv, TInv, NEW h \in Leases, Pass(h) \/ StepOverCancels(h)
    PROVE  TInv'
<1>0. run[h].pc \in {"pass", "read"} /\ UNCHANGED <<tableVars, log, intr, apiVars, obj, dropped>>
  BY DEF Pass, StepOverCancels
<1>1. /\ run[h] \in RunTypes /\ run \in [Leases -> RunTypes] /\ Session(h) \in Sessions
      /\ cursor \in [Sessions -> Nat]
  BY <1>0, Here DEF WInv, Typed
<1>2. PICK t : t.pc = "read" /\ run' = [run EXCEPT ![h] = t]
  <2>1. CASE Pass(h)
    <3>1. PICK t : t = [run[h] EXCEPT !.pc = "read", !.wake = FALSE] OBVIOUS
    <3>2. t.pc = "read" BY <1>1, <3>1 DEF RunTypes
    <3> QED BY <2>1, <3>1, <3>2 DEF Pass
  <2>2. CASE StepOverCancels(h)
    <3>1. run' = [run EXCEPT ![h] = run[h]] /\ run[h].pc = "read"
      BY <2>2, <1>1 DEF StepOverCancels
    <3> QED BY <3>1
  <2> QED BY <2>1, <2>2
<1>3. \A u \in Sessions \ {Session(h)} : cursor'[u] = cursor[u]
  BY <1>1 DEF Pass, StepOverCancels
<1>4. Aside(h) BY <1>0, <1>3 DEF Aside, tableVars, apiVars
<1>5. obj' = [obj EXCEPT ![h] = NoObject] BY <1>0, HasNoObject DEF Feeds, Listens
<1> QED BY <1>0, <1>2, <1>4, <1>5, BareTends

(* A read misses nothing that is not excluded, but what its page overlooks.*)
LEMMA ReadAll ==
    ASSUME WInv, NEW s \in Sessions, NEW a \in Seq(Nat),
           NEW p, Fresh(log[s], cursor[s], p), ~Overlooks(s, cursor[s])
    PROVE  Has(a, p) \/ Has(readInbox(s, cursor[s], ToSet(a)), p)
<1> DEFINE c == cursor[s]
           l == log[s]
           S == {n \in PageAfter(s, c) : Kind(s, n) \in InboxKinds /\ n \notin ToSet(a)}
<1>1. c \in Nat /\ Len(l) \in Nat /\ DOMAIN l = 1..Len(l) /\ PageSize \in Nat
      /\ PageAfter(s, c) \in SUBSET (1..Len(l)) /\ IsFiniteSet(1..Len(l))
  BY PageFinite, WorkerBounds DEF WInv, Typed, PageSize
<1>2. Lists(InLogOrder(S), S)
  <2>1. S \in SUBSET (1..Len(l)) /\ S \in SUBSET Nat BY <1>1
  <2>2. IsFiniteSet(S)
    <3> DEFINE D == 1..Len(l)
    <3>1. S \in SUBSET D /\ IsFiniteSet(D) BY <1>1, <2>1
    <3> HIDE DEF S, D
    <3> QED BY <3>1, FS_Subset
  <2> HIDE DEF S
  <2> QED BY <2>1, <2>2, Ranked
<1>3. readInbox(s, c, ToSet(a)) = InLogOrder(S) BY DEF readInbox
<1>4. p \in 1..Len(l) /\ c < p /\ Kind(s, p) \in InboxKinds BY DEF Fresh, Kind
<1>5. p <= c + PageSize
  <2>1. p \in DOMAIN l /\ ~(c + PageSize < p) BY <1>1, <1>4 DEF Overlooks
  <2> QED BY <1>1, <1>4, <2>1
<1>6. CASE p \in ToSet(a) BY <1>6 DEF ToSet, Has
<1>7. CASE p \notin ToSet(a)
  <2>1. p \in S /\ p \in Nat BY <1>1, <1>4, <1>5, <1>7 DEF PageAfter
  <2> HIDE DEF S
  <2> QED BY <1>2, <1>3, <2>1 DEF Lists, Has
<1> QED BY <1>6, <1>7

(* So where it finds nothing, there is no work. *)
LEMMA EmptyRead ==
    ASSUME WInv, NEW s \in Sessions, readInbox(s, cursor[s], {}) = <<>>,
           ~Overlooks(s, cursor[s])
    PROVE  ~Work(log[s], cursor[s])
<1> DEFINE a == <<>>
<1>1. a \in Seq(Nat) /\ ToSet(a) = {} /\ \A p : ~Has(a, p) BY DEF ToSet, Has
<1>2. \A p : Fresh(log[s], cursor[s], p) => Has(a, p)
  <2>1. ASSUME NEW p, Fresh(log[s], cursor[s], p) PROVE Has(a, p)
    <3> HIDE DEF a
    <3>1. Has(a, p) \/ Has(readInbox(s, cursor[s], ToSet(a)), p) BY <1>1, <2>1, ReadAll
    <3> QED BY <1>1, <3>1 DEF a
  <2> QED BY <2>1
<1> QED BY <1>1, <1>2 DEF Work

(* A read that finds work, and one that finds nothing. *)
LEMMA ReadTends ==
    ASSUME WInv, LInv, TInv, NEW h \in Leases, ReadNothing(h) \/ ReadWork(h)
    PROVE  TInv'
<1> DEFINE s == Session(h)
           stop == Host(h) \in stopping
<1>1. run[h].pc = "read" /\ UNCHANGED <<tableVars, logVars, apiVars, obj>>
  BY DEF ReadNothing, ReadWork
<1>2. /\ run[h] \in RunTypes /\ run \in [Leases -> RunTypes] /\ s \in Sessions /\ ~lease[h].gone
  BY <1>1, Here, HoldsRow
<1>3. obj' = [obj EXCEPT ![h] = NoObject] BY <1>1, HasNoObject DEF Feeds, Listens
<1>4. ASSUME NEW pc \in {"open", "after"}, Goto(h, pc)
      PROVE  \E t : t.pc = pc /\ run' = [run EXCEPT ![h] = t]
  <2>1. PICK t : t = [run[h] EXCEPT !.pc = pc] OBVIOUS
  <2>2. t.pc = pc /\ run' = [run EXCEPT ![h] = t] BY <1>2, <1>4, <2>1 DEF RunTypes, Goto
  <2> QED BY <2>2
<1>5. CASE ReadWork(h)
  <2>1. PICK t : t.pc = "open" /\ run' = [run EXCEPT ![h] = t] BY <1>4, <1>5 DEF ReadWork
  <2>2. Aside(h) BY <1>1, <1>5, AsideSame DEF ReadWork, tableVars, apiVars
  <2> QED BY <1>1, <1>3, <2>1, <2>2, BareTends
<1>6. CASE ReadNothing(h)
  <2>1. PICK t : t.pc = "after" /\ run' = [run EXCEPT ![h] = t] BY <1>4, <1>6 DEF ReadNothing
  <2>2. Tended(stop, t, NoObject) BY <2>1, TendsNothing DEF Feeds, Listens
  <2>3. PageRead(h, cursor[s]) BY <1>6 DEF ReadNothing
  <2>4. Aside(h) BY <1>1, <1>2, <2>3, PageReadIs DEF Aside, tableVars, apiVars, logVars
  <2>5. CASE stop BY <1>1, <1>3, <2>1, <2>2, <2>4, <2>5, GoingOn
  <2>6. CASE ~stop
    <3>1. ~Halted(h) /\ Unread(h) = <<>> BY <1>2, <1>6, <2>6 DEF ReadNothing, Halted
    <3>2. Overlooks(s, cursor[s]) => dropped'[s] # "no" BY <1>2, <2>3, <3>1, PageReadIs
    <3>3. ~Overlooks(s, cursor[s]) => ~Work(log'[s], cursor'[s])
      BY <1>1, <1>2, <3>1, EmptyRead DEF Unread, logVars
    <3> QED BY <1>1, <1>3, <2>1, <2>2, <2>4, <3>2, <3>3, ActorTends DEF Aside
  <2> QED BY <2>5, <2>6
<1> QED BY <1>5, <1>6

(* A failure outside a turn is known to lose the wake. *)
LEMMA FailsTends ==
    ASSUME WInv, LInv, TInv, NEW h \in Leases, Fails(h)
    PROVE  TInv'
<1> DEFINE s == Session(h)
<1>1. /\ run[h].pc \in {"pass", "read", "open"} /\ Goto(h, "finish")
      /\ dropped' = [dropped EXCEPT ![s] = "error"]
      /\ UNCHANGED <<row, lease, calls, logVars, stopping, obj>>
  BY DEF Fails, apiVars
<1>2. /\ run[h] \in RunTypes /\ run \in [Leases -> RunTypes] /\ s \in Sessions
      /\ dropped \in [Sessions -> {"no", "late", "stop", "error", "page"}]
  BY <1>1, Here DEF WInv, Flagged
<1>3. PICK t : t = [run[h] EXCEPT !.pc = "finish"] OBVIOUS
<1>4. t.pc = "finish" /\ run' = [run EXCEPT ![h] = t] BY <1>1, <1>2, <1>3 DEF RunTypes, Goto
<1>5. obj' = [obj EXCEPT ![h] = NoObject] BY <1>1, HasNoObject DEF Feeds, Listens
<1>6. Tended(Host(h) \in stopping, t, NoObject) BY <1>4, TendsNothing DEF Feeds, Listens
<1>7. dropped'[s] # "no" /\ \A u \in Sessions \ {s} : dropped'[u] = dropped[u] BY <1>1, <1>2
<1> QED BY <1>1, <1>4, <1>5, <1>6, <1>7, ActorTends DEF logVars

(* The last look at the wake. *)
LEMMA AfterTends ==
    ASSUME WInv, LInv, TInv, NEW h \in Leases, After(h)
    PROVE  TInv'
<1> DEFINE s == Session(h)
           stop == Host(h) \in stopping
           r == run[h]
<1>1. r.pc = "after" /\ UNCHANGED <<tableVars, logVars, apiVars, obj, dropped>> BY DEF After
<1>2. r \in RunTypes /\ run \in [Leases -> RunTypes] /\ s \in Sessions /\ ~lease[h].gone
  BY <1>1, Here, HoldsRow
<1>3. Aside(h) /\ obj' = [obj EXCEPT ![h] = NoObject] /\ obj[h] = NoObject
  BY <1>1, AsideSame, HasNoObject DEF tableVars, apiVars, Feeds, Listens
<1>4. PICK pc \in {"pass", "finish"} :
         /\ run' = [run EXCEPT ![h] = [@ EXCEPT !.wake = FALSE, !.pc = pc]]
         /\ pc = "finish" => ~r.wake \/ stop
  BY <1>2 DEF After, Halted
<1>5. PICK t : t = [r EXCEPT !.wake = FALSE, !.pc = pc] OBVIOUS
<1>6. t.pc = pc /\ run' = [run EXCEPT ![h] = t] BY <1>2, <1>4, <1>5 DEF RunTypes
<1>7. CASE pc = "pass" BY <1>1, <1>3, <1>6, <1>7, BareTends
<1>8. CASE pc = "finish"
  <2>1. Tended(stop, t, NoObject) BY <1>6, <1>8, TendsNothing DEF Feeds, Listens
  <2>2. Local(log[s], cursor[s], intr[s], stop, r, obj[h])
           => Local(log'[s], cursor'[s], intr'[s], stop, t, NoObject)
    <3>1. Carries(log[s], cursor[s], stop, r, obj[h]) => stop
      BY <1>1, <1>4, <1>8 DEF Carries, Feeding
    <3>2. stop => Carries(log'[s], cursor'[s], stop, t, NoObject) BY <1>6, <1>8 DEF Carries
    <3>3. Waits(r, obj[h]) => Waits(t, NoObject) BY <1>3, <1>6, <1>8 DEF Waits, Feeding
    <3> QED BY <1>1, <3>1, <3>2, <3>3 DEF Local, logVars
  <2>3. Work(log'[s], cursor'[s]) => Work(log[s], cursor[s]) BY <1>1 DEF logVars
  <2> QED BY <1>1, <1>3, <1>6, <1>8, <2>1, <2>2, <2>3, ActorTends DEF Aside
<1> QED BY <1>7, <1>8

(* An object is opened: it has nothing to do yet. *)
LEMMA OpenTends ==
    ASSUME WInv, LInv, TInv, NEW h \in Leases, Open(h)
    PROVE  TInv'
<1> DEFINE s == Session(h)
           c == cursor[s]
           a == IF intr[s] THEN "paused" ELSE "idle"
<1>1. /\ run[h].pc = "open" /\ obj' = [obj EXCEPT ![h] = [NoObject EXCEPT !.state = a]]
      /\ run' = [run EXCEPT ![h] =
                    [@ EXCEPT !.pc = "step", !.seen = {}, !.out = <<>>, !.items = <<>>,
                              !.cur = c, !.resuming = FALSE,
                              !.cancelled = FALSE, !.settled = FALSE]]
      /\ UNCHANGED <<tableVars, log, cursor, intr, apiVars, dropped>>
  BY DEF Open
<1>2. run[h] \in RunTypes /\ run \in [Leases -> RunTypes] BY <1>1, Here
<1> HIDE DEF c
<1>3. PICK t : t = [run[h] EXCEPT !.pc = "step", !.seen = {}, !.out = <<>>, !.items = <<>>,
                              !.cur = c, !.resuming = FALSE,
                              !.cancelled = FALSE, !.settled = FALSE]
  OBVIOUS
<1>4. t.pc = "step" /\ t.out = <<>> /\ run' = [run EXCEPT ![h] = t]
  BY <1>1, <1>2, <1>3 DEF RunTypes
<1>5. PICK y : y = [NoObject EXCEPT !.state = a] OBVIOUS
<1>6. y.answering = 0 /\ y.bus = <<>> /\ y.closing = FALSE /\ obj' = [obj EXCEPT ![h] = y]
  BY <1>1, <1>5 DEF NoObject
<1>7. Tended(Host(h) \in stopping, t, y)
  <2>1. 1..Len(t.out) = {} BY <1>4
  <2> QED BY <1>4, <1>6, <2>1 DEF Tended
<1>8. Aside(h) BY <1>1 DEF Aside, tableVars, apiVars
<1> QED BY <1>1, <1>4, <1>6, <1>7, <1>8, GoingOn DEF GoesOn

-----------
(* An object is tended as its run goes on in the loop. *)
LEMMA TendedOn ==
    ASSUME NEW stop, NEW r, NEW t, NEW x, Tended(stop, r, x), r.pc # "closing",
           Listens(t.pc) => /\ Listens(r.pc) /\ r.seen \subseteq t.seen
                            /\ \A i \in 1..Len(t.out) : Has(r.out, t.out[i]),
           t.pc \in {"close", "closing"} =>
              stop \/ t.cancelled \/ (x.state # "running" /\ ~x.task)
    PROVE  Tended(stop, t, x)
<1>1. ASSUME Listens(t.pc), NEW i \in 1..Len(t.out)
      PROVE  t.out[i] \in t.seen \/ t.out[i] = x.answering \/ Has(x.bus, t.out[i])
  <2>1. PICK j \in 1..Len(r.out) : r.out[j] = t.out[i] BY <1>1 DEF Has
  <2>2. r.out[j] \in r.seen \/ r.out[j] = x.answering \/ Has(x.bus, r.out[j]) BY <1>1 DEF Tended
  <2> QED BY <2>1, <2>2, <1>1
<1>2. x.closing => stop BY DEF Tended
<1> QED BY <1>1, <1>2 DEF Tended

(* What is outstanding is outstanding. *)
LEMMA OutHas ==
    ASSUME NEW q
    PROVE  \A i \in 1..Len(q) : Has(q, q[i])
BY DEF Has

(* A task has settled, or a wake came: around again, or halted. *)
LEMMA HoldEndsTends ==
    ASSUME WInv, LInv, TInv, NEW h \in Leases, HoldEnds(h)
    PROVE  TInv'
<1> DEFINE stop == Host(h) \in stopping
           r == run[h]
           to == IF Halted(h) THEN "close" ELSE "step"
<1>1. r.pc = "hold" /\ Goto(h, to) /\ UNCHANGED <<tableVars, logVars, apiVars, obj, dropped>>
  BY DEF HoldEnds
<1>2. /\ r \in RunTypes /\ run \in [Leases -> RunTypes] /\ obj \in [Leases -> ObjTypes]
      /\ ~lease[h].gone
  BY <1>1, Here, HoldsRow
<1>3. to \in {"close", "step"} /\ (to = "close" => stop) BY <1>2 DEF Halted
<1> HIDE DEF to
<1>4. PICK t : t = [r EXCEPT !.pc = to] OBVIOUS
<1>5. /\ t.pc = to /\ t.out = r.out /\ t.seen = r.seen /\ run' = [run EXCEPT ![h] = t]
  BY <1>1, <1>2, <1>3, <1>4 DEF RunTypes, Goto
<1>6. Aside(h) /\ obj' = [obj EXCEPT ![h] = obj[h]]
  BY <1>1, <1>2, AsideSame DEF tableVars, apiVars
<1>7. Tended(stop, r, obj[h]) BY <1>1 DEF TInv, Tends
<1>8. Tended(stop, t, obj[h])
  <2>1. Listens(r.pc) /\ r.pc # "closing" BY <1>1 DEF Listens
  <2>2. \A i \in 1..Len(t.out) : Has(r.out, t.out[i]) BY <1>5, OutHas
  <2>3. t.pc \in {"close", "closing"} => stop BY <1>3, <1>5
  <2> QED BY <1>5, <1>7, <2>1, <2>2, <2>3, TendedOn
<1> QED BY <1>1, <1>3, <1>5, <1>6, <1>8, GoingOn DEF GoesOn

(* The object is closed: no more runs. *)
LEMMA CloseTends ==
    ASSUME WInv, LInv, TInv, NEW h \in Leases, Close(h)
    PROVE  TInv'
<1> DEFINE s == Session(h)
           stop == Host(h) \in stopping
           r == run[h]
           x == obj[h]
<1>1. /\ r.pc = "close" /\ obj' = [obj EXCEPT ![h] = [Aborted(x) EXCEPT !.closing = TRUE]]
      /\ Goto(h, "closing") /\ UNCHANGED <<tableVars, logVars, apiVars, dropped>>
  BY DEF Close
<1>2. r \in RunTypes /\ run \in [Leases -> RunTypes] /\ x \in ObjTypes BY <1>1, Here
<1>3. PICK t : t = [r EXCEPT !.pc = "closing"] OBVIOUS
<1>4. /\ t.pc = "closing" /\ t.cancelled = r.cancelled /\ t.wake = r.wake
      /\ run' = [run EXCEPT ![h] = t]
  BY <1>1, <1>2, <1>3 DEF RunTypes, Goto
<1>5. PICK z : z = Aborted(x) OBVIOUS
<1>6. /\ z \in ObjTypes /\ z.state = x.state /\ z.answering = x.answering /\ z.again = x.again
      /\ z.task = x.task
  <2>1. z = [x EXCEPT !.aborted = x.state = "running"] BY <1>5 DEF Aborted
  <2> QED BY <1>2, <2>1 DEF ObjTypes
<1>7. PICK y : y = [z EXCEPT !.closing = TRUE] OBVIOUS
<1>8. /\ y.state = x.state /\ y.answering = x.answering /\ y.again = x.again
      /\ y.task = x.task /\ y.closing = TRUE /\ obj' = [obj EXCEPT ![h] = y]
  BY <1>1, <1>5, <1>6, <1>7 DEF ObjTypes
<1>9. Tended(stop, r, x) BY <1>1 DEF TInv, Tends
<1>10. Tended(stop, t, y) BY <1>1, <1>4, <1>8, <1>9 DEF Tended, Listens
<1>11. Aside(h) BY <1>1, AsideSame DEF tableVars, apiVars
<1>12. Local(log[s], cursor[s], intr[s], stop, r, x)
          => Local(log'[s], cursor'[s], intr'[s], stop, t, y)
  <2>1. Carries(log[s], cursor[s], stop, r, x) => stop \/ r.cancelled \/ r.wake
    BY <1>1 DEF Carries, Feeding
  <2>2. stop \/ t.cancelled \/ t.wake => Carries(log'[s], cursor'[s], stop, t, y)
    BY <1>4 DEF Carries
  <2>3. Waits(r, x) => Waits(t, y) BY <1>4, <1>8 DEF Waits, Feeding
  <2> QED BY <1>1, <1>4, <2>1, <2>2, <2>3 DEF Local, logVars
<1>13. Work(log'[s], cursor'[s]) => Work(log[s], cursor[s]) BY <1>1 DEF logVars
<1> QED BY <1>1, <1>4, <1>8, <1>10, <1>11, <1>12, <1>13, ActorTends, ZenonT(60) DEF Aside

(* It is gone: after a cancel around again, else to the last look. *)
LEMMA ClosedTends ==
    ASSUME WInv, LInv, TInv, NEW h \in Leases, Closed(h)
    PROVE  TInv'
<1> DEFINE s == Session(h)
           stop == Host(h) \in stopping
           r == run[h]
           x == obj[h]
           to == IF r.cancelled THEN "read" ELSE "after"
<1>1. /\ r.pc = "closing" /\ obj' = [obj EXCEPT ![h] = NoObject]
      /\ Goto(h, to) /\ UNCHANGED <<tableVars, logVars, apiVars, dropped>>
  BY DEF Closed
<1>2. r \in RunTypes /\ run \in [Leases -> RunTypes] BY <1>1, Here
<1>3. to \in {"read", "after"} /\ (to = "after" => ~r.cancelled) OBVIOUS
<1> HIDE DEF to
<1>4. PICK t : t = [r EXCEPT !.pc = to] OBVIOUS
<1>5. t.pc = to /\ t.wake = r.wake /\ run' = [run EXCEPT ![h] = t]
  BY <1>1, <1>2, <1>3, <1>4 DEF RunTypes, Goto
<1>6. Aside(h) BY <1>1, AsideSame DEF tableVars, apiVars
<1>7. CASE to = "read" BY <1>1, <1>5, <1>6, <1>7, BareTends
<1>8. CASE to = "after"
  <2>1. Tended(stop, t, NoObject) BY <1>5, <1>8, TendsNothing DEF Feeds, Listens
  <2>2. Local(log[s], cursor[s], intr[s], stop, r, x)
           => Local(log'[s], cursor'[s], intr'[s], stop, t, NoObject)
    <3>1. Carries(log[s], cursor[s], stop, r, x) => stop \/ r.wake
      BY <1>1, <1>3, <1>8 DEF Carries, Feeding
    <3>2. stop \/ t.wake => Carries(log'[s], cursor'[s], stop, t, NoObject)
      BY <1>5, <1>8 DEF Carries
    <3>3. Waits(t, NoObject) BY <1>5, <1>8 DEF Waits, Feeding, NoObject
    <3> QED BY <1>1, <1>5, <3>1, <3>2, <3>3 DEF Local, logVars
  <2>3. Work(log'[s], cursor'[s]) => Work(log[s], cursor[s]) BY <1>1 DEF logVars
  <2> QED BY <1>1, <1>5, <1>6, <2>1, <2>2, <2>3, ActorTends DEF Aside
<1> QED BY <1>3, <1>7, <1>8

(* A cancel consumes all there is. *)
LEMMA FeedCancelTends ==
    ASSUME WInv, LInv, TInv, NEW h \in Leases, FeedCancel(h)
    PROVE  TInv'
<1> DEFINE s == Session(h)
           stop == Host(h) \in stopping
           r == run[h]
           x == obj[h]
           a == SubSeq(r.items, 1, LastCancel(s, r.items))
<1>1. /\ r.pc = "feed" /\ LastCancel(s, r.items) # 0
      /\ run' = [run EXCEPT ![h] = [r EXCEPT !.pc = "cancel", !.out = r.out \o a,
                    !.seen = r.seen \union ToSet(r.out) \union ToSet(a)]]
      /\ obj' = [obj EXCEPT ![h] = [Aborted(x) EXCEPT !.again = FALSE]]
      /\ UNCHANGED <<tableVars, logVars, apiVars, dropped>>
  BY DEF FeedCancel
<1>2. r \in RunTypes /\ run \in [Leases -> RunTypes] /\ x \in ObjTypes /\ s \in Sessions
  BY <1>1, Here
<1>3. r.out \in Seq(Nat) /\ r.items \in Seq(Nat) BY <1>2, LineType
<1>4. a \in Seq(Nat)
  <2> DEFINE q == r.items
             n == LastCancel(s, q)
  <2>1. q \in Seq(Nat) /\ n \in 0..Len(q) /\ Len(q) \in Nat BY <1>2, <1>3, Selected
  <2> HIDE DEF q, n
  <2>2. 1 \in 1..(Len(q) + 1) /\ n \in (1 - 1)..Len(q) BY <2>1
  <2>3. SubSeq(q, 1, n) \in Seq(Nat) BY <2>1, <2>2, CutOut
  <2> QED BY <2>3 DEF q, n
<1> HIDE DEF a
<1>5. PICK o : o = r.out \o a OBVIOUS
<1>6. PICK S : S = r.seen \union ToSet(r.out) \union ToSet(a) OBVIOUS
<1>7. PICK t : t = [r EXCEPT !.pc = "cancel", !.out = o, !.seen = S] OBVIOUS
<1>8. t.pc = "cancel" /\ t.out = o /\ t.seen = S /\ run' = [run EXCEPT ![h] = t]
  BY <1>1, <1>2, <1>5, <1>6, <1>7 DEF RunTypes
<1>9. PICK z : z = Aborted(x) OBVIOUS
<1>10. z \in ObjTypes /\ z.state = x.state /\ z.bus = x.bus /\ z.closing = x.closing
  <2>1. z = [x EXCEPT !.aborted = x.state = "running"] BY <1>9 DEF Aborted
  <2> QED BY <1>2, <2>1 DEF ObjTypes
<1>11. PICK y : y = [z EXCEPT !.again = FALSE] OBVIOUS
<1>12. /\ y.state = x.state /\ y.bus = x.bus /\ y.closing = x.closing /\ y.again = FALSE
       /\ obj' = [obj EXCEPT ![h] = y]
  BY <1>1, <1>9, <1>10, <1>11 DEF ObjTypes
<1>13. Tended(stop, r, x) BY <1>1 DEF TInv, Tends
<1>14. Tended(stop, t, y)
  <2>1. ASSUME NEW i \in 1..Len(o) PROVE o[i] \in S
    <3>1. Has(r.out, o[i]) \/ Has(a, o[i]) BY <1>3, <1>4, <1>5, <2>1, JoinedHasEither
    <3>2. \A q \in Seq(Nat) : \A p : Has(q, p) => p \in ToSet(q) BY DEF Has, ToSet
    <3> QED BY <1>3, <1>4, <1>6, <3>1, <3>2
  <2> QED BY <1>1, <1>8, <1>12, <1>13, <2>1 DEF Tended
<1>15. Aside(h) BY <1>1, AsideSame DEF tableVars, apiVars
<1> QED BY <1>1, <1>8, <1>12, <1>14, <1>15, GoingOn DEF GoesOn

-----------
(* What is in a part is in the whole. *)
LEMMA PartHas ==
    ASSUME NEW a \in Seq(Nat), NEW b \in Seq(Nat), NEW p, Has(a, p) \/ Has(b, p)
    PROVE  Has(a \o b, p)
<1> DEFINE q == a \o b
<1>1. /\ Len(q) = Len(a) + Len(b) /\ Len(a) \in Nat /\ Len(b) \in Nat
      /\ \A i \in 1..Len(a) : q[i] = a[i]
      /\ \A i \in 1..Len(b) : q[Len(a) + i] = b[i]
  BY Joined
<1> HIDE DEF q
<1>2. CASE Has(a, p)
  <2>1. PICK i \in 1..Len(a) : a[i] = p BY <1>2 DEF Has
  <2>2. i \in 1..Len(q) /\ q[i] = p BY <1>1, <2>1
  <2> QED BY <2>2 DEF Has, q
<1>3. CASE Has(b, p)
  <2>1. PICK i \in 1..Len(b) : b[i] = p BY <1>3 DEF Has
  <2>2. Len(a) + i \in 1..Len(q) /\ q[Len(a) + i] = p BY <1>1, <2>1
  <2> QED BY <2>2 DEF Has, q
<1> QED BY <1>2, <1>3

(* The run's own cursor is the session's. *)
LEMMA CursorIsRuns ==
    ASSUME WInv, LInv, NEW h \in Leases, Feeds(run[h].pc)
    PROVE  cursor[Session(h)] = run[h].cur
<1>1. run[h].pc # "none" BY DEF Feeds, Listens
<1>2. Keeps(h) BY <1>1 DEF LInv
<1> QED BY <1>2 DEF Keeps, KeepsAs

(* The top of the loop: what is read is all there is, or is marked not to be. *)
LEMMA StepTends ==
    ASSUME WInv, LInv, TInv, NEW h \in Leases, Step(h)
    PROVE  TInv'
<1> DEFINE s == Session(h)
           stop == Host(h) \in stopping
           r == run[h]
           x == obj[h]
           q == readInbox(s, r.cur, ToSet(r.out))
<1>1. /\ r.pc = "step" /\ UNCHANGED <<tableVars, logVars, apiVars, obj>> /\ PageRead(h, r.cur)
      /\ run' = [run EXCEPT ![h] =
                    IF Halted(h) THEN [r EXCEPT !.pc = "close"]
                    ELSE [r EXCEPT !.pc = "feed", !.wake = FALSE, !.items = q]]
  BY DEF Step
<1>2. /\ r \in RunTypes /\ run \in [Leases -> RunTypes] /\ obj \in [Leases -> ObjTypes]
      /\ ~lease[h].gone /\ s \in Sessions /\ r.out \in Seq(Nat)
  BY <1>1, Here, HoldsRow, LineType
<1>3. Aside(h) /\ obj' = [obj EXCEPT ![h] = x]
  BY <1>1, <1>2, PageReadIs DEF Aside, tableVars, apiVars, logVars
<1>4. Tended(stop, r, x) BY <1>1 DEF TInv, Tends
<1>5. cursor[s] = r.cur BY <1>1, CursorIsRuns DEF Feeds, Listens
<1>6. CASE Halted(h)
  <2>1. PICK t : t = [r EXCEPT !.pc = "close"] OBVIOUS
  <2>2. t.pc = "close" /\ run' = [run EXCEPT ![h] = t] BY <1>1, <1>2, <1>6, <2>1 DEF RunTypes
  <2>3. stop BY <1>2, <1>6 DEF Halted
  <2>4. Tended(stop, t, x) BY <1>1, <1>4, <2>2, <2>3, TendedOn DEF Listens
  <2> QED BY <1>1, <1>3, <2>2, <2>3, <2>4, GoingOn
<1>7. CASE ~Halted(h)
  <2>1. q \in Seq(Nat)
    <3>1. PageOf(log[s], q, r.cur, r.out) BY <1>2, <1>5, ReadPage DEF WInv, Typed
    <3> QED BY <3>1 DEF PageOf
  <2>2. \/ dropped'[s] # "no"
        \/ \A p \in 1..Len(log[s]) : Fresh(log[s], cursor[s], p) => Has(r.out, p) \/ Has(q, p)
    <3>1. CASE Overlooks(s, cursor[s]) BY <1>1, <1>2, <1>5, <1>7, <3>1, PageReadIs
    <3>2. CASE ~Overlooks(s, cursor[s]) BY <1>2, <1>5, <3>2, ReadAll
    <3> QED BY <3>1, <3>2
  <2> HIDE DEF q
  <2>3. PICK t : t = [r EXCEPT !.pc = "feed", !.wake = FALSE, !.items = q] OBVIOUS
  <2>4. /\ t.pc = "feed" /\ t.out = r.out /\ t.items = q /\ t.seen = r.seen
        /\ run' = [run EXCEPT ![h] = t]
    BY <1>1, <1>2, <1>7, <2>3 DEF RunTypes
  <2>5. Tended(stop, t, x)
    <3>1. \A i \in 1..Len(t.out) : Has(r.out, t.out[i]) BY <2>4, OutHas
    <3> QED BY <1>1, <1>4, <2>4, <3>1, TendedOn DEF Listens
  <2>6. dropped'[s] # "no" \/ Local(log'[s], cursor'[s], intr'[s], stop, t, x)
    <3>1. Line(t) = r.out \o q BY <2>4 DEF Line
    <3>2. dropped'[s] # "no" \/ Knows(log[s], cursor[s], t)
      BY <1>2, <2>1, <2>2, <3>1, PartHas DEF Knows
    <3> QED BY <1>1, <2>4, <3>2 DEF Local, Carries, logVars
  <2>7. run[h].pc \notin {"none", "release"} /\ run' = [run EXCEPT ![h] = t] BY <1>1, <2>4
  <2> QED BY <1>3, <2>5, <2>6, <2>7, ActorTends DEF Aside
<1> QED BY <1>6, <1>7

-----------
(* What it takes for the loop to end. *)
LEMMA ClosesWhen ==
    ASSUME NEW h, HoldOrClose(h) = "close"
    PROVE  (Running(h) => Halted(h)) /\ (~Running(h) => ~obj[h].task)
<1>1. CASE Running(h) /\ ~Halted(h) BY <1>1 DEF HoldOrClose
<1>2. CASE ~Running(h) /\ obj[h].task BY <1>2 DEF HoldOrClose
<1> QED BY <1>1, <1>2

(* Where it ends, what is on the bus waits for an answer, as does what is
   in hand of a paused object. *)
LEMMA HoldingTends ==
    ASSUME WInv, LInv, TInv, NEW h \in Leases, run[h].pc \in {"put", "feed", "sleep"}, NEW t,
           run' = [run EXCEPT ![h] = t], t.pc = HoldOrClose(h),
           t.out = run[h].out, t.seen = run[h].seen, t.wake = run[h].wake,
           UNCHANGED <<tableVars, logVars, apiVars, obj, dropped>>,
           LET s == Session(h) IN
             run[h].pc # "put" /\ Knows(log[s], cursor[s], run[h]) /\ obj[h].bus = <<>>
                => obj[h].state = "paused" \/ ~Work(log[s], cursor[s])
    PROVE  TInv'
<1> DEFINE s == Session(h)
           stop == Host(h) \in stopping
           r == run[h]
           x == obj[h]
<1>1. /\ r \in RunTypes /\ obj \in [Leases -> ObjTypes] /\ ~lease[h].gone /\ s \in Sessions
      /\ x.state # "none" /\ x.closing \in BOOLEAN
  BY Here, HoldsRow DEF Fits, Listens, ObjTypes
<1>2. Aside(h) /\ obj' = [obj EXCEPT ![h] = x] BY <1>1, AsideSame DEF tableVars, apiVars
<1>3. Tended(stop, r, x) BY DEF TInv, Tends
<1>4. r.pc \notin {"closing", "none", "release"} /\ Listens(r.pc) /\ (x.closing => stop)
  BY <1>3 DEF Tended, Listens
<1>5. t.pc = "close" => stop \/ (x.state # "running" /\ ~x.task)
  BY <1>1, ClosesWhen DEF Running, Halted
<1>6. t.pc \in {"step", "hold", "close"} BY HoldOrCloseWhere
<1>7. Tended(stop, t, x)
  <2>1. \A i \in 1..Len(t.out) : Has(r.out, t.out[i]) BY OutHas
  <2> QED BY <1>3, <1>4, <1>5, <1>6, <2>1, TendedOn
<1>8. CASE stop \/ t.pc # "close" BY <1>2, <1>4, <1>6, <1>7, <1>8, GoingOn DEF GoesOn
<1>9. CASE ~stop /\ t.pc = "close"
  <2>1. Asked(intr[s], x) BY <1>4 DEF LInv, Keeps, KeepsAs
  <2>2. x.state = "paused" => intr'[s] /\ Waits(t, x)
    BY <1>9, <2>1 DEF Asked, Waits, Feeding, logVars
  <2>3. x.bus # <<>> => x.state = "paused"
    <3>1. x.state \in {"none", "idle", "running", "paused"} BY <1>1 DEF ObjTypes
    <3>2. x.state # "running" BY <1>5, <1>9
    <3>3. x.state = "idle" => x.bus = <<>> BY <1>3, <1>4, <1>9 DEF Tended
    <3> QED BY <1>1, <3>1, <3>2, <3>3
  <2>4. r.wake => Carries(log'[s], cursor'[s], stop, t, x) BY <1>9 DEF Carries
  <2>5. Carries(log[s], cursor[s], stop, r, x)
           => \/ r.wake \/ x.bus # <<>>
              \/ r.pc # "put" /\ Knows(log[s], cursor[s], r)
    BY <1>9 DEF Carries
  <2>6. ~Waits(r, x) BY DEF Waits, Feeding
  <2>7. Work(log'[s], cursor'[s]) => Work(log[s], cursor[s]) BY DEF logVars
  <2>8. Work(log'[s], cursor'[s]) =>
           \/ Local(log'[s], cursor'[s], intr'[s], stop, t, x)
           \/ Work(log[s], cursor[s]) /\ ~Local(log[s], cursor[s], intr[s], stop, r, x)
    BY <2>2, <2>3, <2>4, <2>5, <2>6, <2>7 DEF Local
  <2> QED BY <1>2, <1>4, <1>7, <2>8, ActorTends DEF Aside
<1> QED BY <1>8, <1>9

(* The cursor is stored; and a paused object is not fed. *)
LEMMA HoldingsTend ==
    ASSUME WInv, LInv, TInv, NEW h \in Leases, CursorStored(h) \/ FeedPaused(h)
    PROVE  TInv'
<1> DEFINE r == run[h]
           to == HoldOrClose(h)
<1>1. /\ run' = [run EXCEPT ![h] = [r EXCEPT !.pc = to, !.settled = FALSE]]
      /\ UNCHANGED <<tableVars, logVars, apiVars, obj, dropped>>
      /\ r.pc = "put" \/ (r.pc = "feed" /\ obj[h].state = "paused")
  BY DEF CursorStored, FeedPaused, AwaitsAnswer
<1>2. r \in RunTypes BY <1>1, Here
<1>3. to \in {"step", "hold", "close"} BY HoldOrCloseWhere
<1> HIDE DEF to
<1>4. PICK t : t = [r EXCEPT !.pc = to, !.settled = FALSE] OBVIOUS
<1>5. /\ t.pc = to /\ t.out = r.out /\ t.seen = r.seen /\ t.wake = r.wake
      /\ run' = [run EXCEPT ![h] = t]
  BY <1>1, <1>2, <1>4 DEF RunTypes
<1>6. t.pc = HoldOrClose(h) BY <1>5 DEF to
<1> QED BY <1>1, <1>5, <1>6, HoldingTends

-----------
(* The cursor advances: what is fresh was fresh, and is not all consumed. *)
LEMMA AdvancesOver ==
    ASSUME NEW l \in Logs, NEW r \in RunTypes, Reads(l, r), r.pc # "feed",
           NEW p, Fresh(l, Advanced(r).cur, p)
    PROVE  /\ Fresh(l, r.cur, p)
           /\ Has(r.out, p) => \E i \in 1..Len(r.out) : r.out[i] \notin r.seen
<1> DEFINE q == r.out
           k == ConsumedPrefix(r.out, r.seen)
           c == Advanced(r).cur
<1>1. /\ k \in 0..Len(q) /\ k \in Nat /\ Len(q) \in Nat /\ q \in Seq(Nat) /\ r.cur \in Nat
      /\ \A j \in 1..Len(q) : (\A i \in 1..j : q[i] \in r.seen) => j <= k
      /\ k = 0 => c = r.cur
      /\ k # 0 => k \in 1..Len(q) /\ c = q[k]
  BY AdvancedFacts, LineType
<1>2. /\ \A i \in 1..Len(q) : q[i] \in 1..Len(l) /\ r.cur < q[i]
      /\ \A i, j \in 1..Len(q) : i < j => q[i] < q[j]
  BY DEF Reads, Line, Lined
<1>3. p \in 1..Len(l) /\ c < p /\ l[p].kind \in InboxKinds /\ Len(l) \in Nat BY DEF Fresh, Logs
<1> HIDE DEF q, k, c
<1>4. r.cur < p
  <2>1. CASE k = 0 BY <2>1, <1>1, <1>3
  <2>2. CASE k # 0
    <3>1. c \in Nat /\ r.cur < c BY <2>2, <1>1, <1>2, <1>3
    <3> QED BY <1>1, <1>3, <3>1
  <2> QED BY <2>1, <2>2
<1>5. ASSUME Has(q, p), \A i \in 1..Len(q) : q[i] \in r.seen PROVE FALSE
  <2>1. PICK i \in 1..Len(q) : q[i] = p BY <1>5 DEF Has
  <2>2. Len(q) \in 1..Len(q) /\ k = Len(q) /\ k # 0 BY <1>1, <1>5, <2>1
  <2>3. c = q[k] /\ (i = k \/ i < k) BY <1>1, <2>1, <2>2
  <2>4. p <= c BY <1>1, <1>2, <1>3, <2>1, <2>2, <2>3
  <2> QED BY <1>2, <1>3, <2>2, <2>3, <2>4
<1> QED BY <1>3, <1>4, <1>5 DEF Fresh, q

(* With no run in flight of an earlier feed and nothing on the bus, all
   that is outstanding is consumed; a run that knows its inbox is through
   with it. *)
LEMMA IdleIsThrough ==
    ASSUME WInv, LInv, TInv, NEW h \in Leases, run[h].pc = "sleep", WasIdle(h),
           obj[h].bus = <<>>, Knows(log[Session(h)], cursor[Session(h)], run[h])
    PROVE  ~Work(log[Session(h)], Advanced(run[h]).cur)
<1> DEFINE l == log[Session(h)]
           r == run[h]
           x == obj[h]
<1>1. r \in RunTypes /\ l \in Logs /\ Held(l, r, x) /\ Keeps(h) /\ Tends(h)
  BY Here DEF LInv, TInv
<1>2. Reads(l, r) /\ Listens(r.pc) BY <1>1 DEF Held, Listens
<1>3. Line(r) = r.out /\ r.cur = cursor[Session(h)]
  BY <1>1 DEF Line, Keeps, KeepsAs, Feeds, Listens
<1>4. x.answering = 0
  <2>1. x.state # "running" => x.answering = 0 BY <1>1 DEF Keeps, KeepsAs, Asked
  <2>2. x.answering # 0 => ~x.again BY <1>1 DEF Tends, Tended
  <2> QED BY <2>1, <2>2 DEF WasIdle, Running
<1>5. ASSUME NEW i \in 1..Len(r.out) PROVE r.out[i] \in r.seen
  <2>1. r.out[i] \in r.seen \/ r.out[i] = x.answering \/ Has(x.bus, r.out[i])
    BY <1>1, <1>2 DEF Tends, Tended
  <2>2. r.out[i] \in 1..Len(l) BY <1>2, <1>3 DEF Reads, Lined
  <2>3. ~Has(x.bus, r.out[i]) BY DEF Has
  <2> QED BY <1>1, <1>4, <2>1, <2>2, <2>3 DEF Logs
<1>6. ASSUME NEW p, Fresh(l, Advanced(r).cur, p) PROVE FALSE
  <2>1. Fresh(l, r.cur, p) /\ (Has(r.out, p) => \E i \in 1..Len(r.out) : r.out[i] \notin r.seen)
    BY <1>1, <1>2, <1>6, AdvancesOver
  <2>2. Has(r.out, p) BY <1>3, <2>1 DEF Knows, Fresh
  <2> QED BY <1>5, <2>1, <2>2
<1> QED BY <1>6 DEF Work

(* What stays outstanding was outstanding. *)
LEMMA AdvancedOut ==
    ASSUME NEW r \in RunTypes
    PROVE  \A i \in 1..Len(Advanced(r).out) : Has(r.out, Advanced(r).out[i])
<1> DEFINE q == r.out
           k == ConsumedPrefix(r.out, r.seen)
           a == Advanced(r).out
<1>1. /\ k \in 0..Len(q) /\ k \in Nat /\ Len(q) \in Nat /\ q \in Seq(Nat)
      /\ k = 0 => a = q
      /\ k # 0 => k \in 1..Len(q) /\ a = SubSeq(q, k + 1, Len(q))
  BY AdvancedFacts, LineType
<1> HIDE DEF q, k, a
<1>2. CASE k = 0 BY <1>1, <1>2, OutHas DEF q, a
<1>3. CASE k # 0
  <2> DEFINE m == k + 1
             n == Len(q)
  <2>1. m \in 1..(Len(q) + 1) /\ n \in (m - 1)..Len(q) /\ m \in Nat /\ n \in Nat BY <1>1, <1>3
  <2>2. a = SubSeq(q, m, n) BY <1>1, <1>3
  <2> HIDE DEF m, n
  <2>3. Len(a) = n - m + 1 /\ \A i \in 1..(n - m + 1) : a[i] = q[m + i - 1]
    BY <1>1, <2>1, <2>2, CutOut
  <2>4. ASSUME NEW i \in 1..Len(a) PROVE Has(q, a[i])
    <3>1. m + i - 1 \in 1..Len(q) /\ a[i] = q[m + i - 1] BY <2>1, <2>3, <2>4, <1>1
    <3> QED BY <3>1 DEF Has
  <2> QED BY <2>4 DEF q, a
<1> QED BY <1>2, <1>3

(* Storing the cursor is the run's own affair. *)
LEMMA PutAside ==
    ASSUME WInv, LInv, NEW h \in Leases, run[h].pc \in {"sleep", "cancel"}, CursorPut(h),
           UNCHANGED <<tableVars, log, intr, turnOpen, apiVars, obj, dropped>>
    PROVE  /\ Aside(h) /\ cursor'[Session(h)] = Advanced(run[h]).cur
           /\ obj' = [obj EXCEPT ![h] = obj[h]]
           /\ Work(log'[Session(h)], cursor'[Session(h)])
                 => Work(log[Session(h)], cursor[Session(h)])
<1> DEFINE s == Session(h)
           r == run[h]
           c == Advanced(r).cur
<1>1. r.pc # "none" /\ r.pc # "feed" /\ Listens(r.pc) /\ Feeds(r.pc) BY DEF Feeds, Listens
<1>2. cursor[s] = r.cur BY <1>1, CursorIsRuns
<1>3. cursor'[s] = c /\ \A u \in Sessions \ {s} : cursor'[u] = cursor[u]
  BY <1>1, <1>2, PutKeepsStep
<1>4. r \in RunTypes /\ log[s] \in Logs /\ Reads(log[s], r) /\ obj \in [Leases -> ObjTypes]
  BY <1>1, Here DEF Held
<1>5. \A p : Fresh(log[s], c, p) => Fresh(log[s], r.cur, p) BY <1>1, <1>4, AdvancesOver
<1>6. Aside(h) BY <1>3 DEF Aside, tableVars, apiVars
<1>7. Work(log'[s], cursor'[s]) => Work(log[s], cursor[s])
  <2>1. log'[s] = log[s] OBVIOUS
  <2> HIDE DEF c
  <2> QED BY <2>1, <1>2, <1>3, <1>5 DEF Work
<1> QED BY <1>3, <1>4, <1>6, <1>7

(* After a cancel the object is closed and the inbox read again. *)
LEMMA CancelSettlesTends ==
    ASSUME WInv, LInv, TInv, NEW h \in Leases, CancelSettles(h)
    PROVE  TInv'
<1> DEFINE s == Session(h)
           stop == Host(h) \in stopping
           r == run[h]
           x == obj[h]
           A == Advanced(r)
<1>1. /\ r.pc = "cancel" /\ CursorPut(h)
      /\ run' = [run EXCEPT ![h] = [A EXCEPT !.pc = "close", !.cancelled = TRUE]]
      /\ UNCHANGED <<tableVars, log, intr, turnOpen, apiVars, obj, dropped>>
  BY DEF CancelSettles
<1>2. A \in RunTypes BY <1>1, Here, AdvancedFacts
<1> HIDE DEF A
<1>3. PICK t : t = [A EXCEPT !.pc = "close", !.cancelled = TRUE] OBVIOUS
<1>4. t.pc = "close" /\ t.cancelled /\ run' = [run EXCEPT ![h] = t]
  BY <1>1, <1>2, <1>3 DEF RunTypes
<1>5. Aside(h) /\ obj' = [obj EXCEPT ![h] = x] BY <1>1, PutAside
<1>6. Tended(stop, t, x)
  <2>1. Tended(stop, r, x) BY <1>1 DEF TInv, Tends
  <2> QED BY <1>1, <1>4, <2>1, TendedOn DEF Listens
<1>7. Local(log'[s], cursor'[s], intr'[s], stop, t, x) BY <1>4 DEF Local, Carries
<1>8. r.pc \notin {"none", "release"} BY <1>1
<1> QED BY <1>4, <1>5, <1>6, <1>7, <1>8, ActorTends DEF Aside

(* The race of the turn and the wake is decided. *)
LEMMA WakesTends ==
    ASSUME WInv, LInv, TInv, NEW h \in Leases, NEW settled \in {"idle", "woken"}, Wakes(h, settled)
    PROVE  TInv'
<1> DEFINE s == Session(h)
           stop == Host(h) \in stopping
           r == run[h]
           x == obj[h]
           idle == settled = "idle"
           done == idle /\ run[h].items = <<>>
           to == IF ~done THEN "step" ELSE IF Moved(h) THEN "put" ELSE HoldOrClose(h)
           left == run[h].resuming /\ ~idle
           kept == run[h].settled /\ ~done
           A == Advanced(r)
<1>1. /\ r.pc = "sleep" /\ CursorPut(h)
      /\ run' = [run EXCEPT ![h] = [A EXCEPT !.pc = to, !.resuming = left, !.settled = kept]]
      /\ UNCHANGED <<tableVars, log, intr, turnOpen, apiVars, obj, dropped>>
      /\ settled = "idle" => WasIdle(h)
  BY DEF Wakes
<1>2. A \in RunTypes /\ r \in RunTypes BY <1>1, Here, AdvancedFacts
<1>3. /\ A.seen = r.seen /\ A.wake = r.wake
      /\ ~Moved(h) => A.out = r.out /\ cursor' = cursor
  <2>1. A.seen = r.seen /\ (~Moved(h) => A.out = r.out)
    <3>1. ConsumedPrefix(r.out, r.seen) \in Nat BY <1>2, AdvancedFacts
    <3> QED BY <1>2, <3>1, AdvancedFacts DEF Moved
  <2>2. PICK q, c : A = [r EXCEPT !.out = q, !.cur = c] BY DEF Advanced
  <2>3. A.wake = r.wake
    <3> HIDE DEF A, r
    <3> QED BY <1>2, <2>2 DEF RunTypes
  <2> QED BY <1>1, <2>1, <2>3 DEF CursorPut
<1>4. \A i \in 1..Len(A.out) : Has(r.out, A.out[i]) BY <1>2, AdvancedOut
<1>5. /\ Aside(h) /\ cursor'[s] = A.cur /\ obj' = [obj EXCEPT ![h] = x]
      /\ Work(log'[s], cursor'[s]) => Work(log[s], cursor[s])
  BY <1>1, PutAside
<1>6. done /\ x.bus = <<>> /\ Knows(log[s], cursor[s], r) => ~Work(log[s], A.cur)
  BY <1>1, IdleIsThrough
<1>7. PICK pc \in {"step", "put", "hold", "close"} : pc = to BY HoldOrCloseWhere
<1>8. PICK t : t = [A EXCEPT !.pc = pc, !.resuming = left, !.settled = kept] OBVIOUS
<1>9. run' = [run EXCEPT ![h] = t] BY <1>1, <1>7, <1>8
<1>10. (~done => pc = "step") /\ (done => pc = IF Moved(h) THEN "put" ELSE HoldOrClose(h))
  BY <1>7
<1> HIDE DEF to, left, kept, A
<1>11. t.pc = pc /\ t.out = A.out /\ t.seen = A.seen /\ t.wake = A.wake
  BY <1>2, <1>8 DEF RunTypes
<1>12. Tended(stop, r, x) /\ r.pc \notin {"none", "release", "closing"} /\ Listens(r.pc)
  BY <1>1 DEF TInv, Tends, Listens
<1>13. pc \in {"step", "put"} => Tended(stop, t, x) BY <1>3, <1>4, <1>11, <1>12, TendedOn
<1>14. CASE ~done BY <1>5, <1>9, <1>10, <1>11, <1>12, <1>13, <1>14, GoingOn DEF GoesOn
<1>15. CASE done /\ Moved(h)
  <2>1. t.pc = "put" BY <1>10, <1>11, <1>15
  <2>2. Carries(log[s], cursor[s], stop, r, x)
           => stop \/ x.bus # <<>> \/ r.wake \/ Knows(log[s], cursor[s], r)
    BY <1>1 DEF Carries
  <2>3. stop \/ x.bus # <<>> \/ r.wake => Carries(log'[s], cursor'[s], stop, t, x)
    BY <1>3, <1>11, <2>1 DEF Carries, Feeding
  <2>4. ~Waits(r, x) BY <1>1 DEF Waits, Feeding
  <2>5. Work(log'[s], cursor'[s]) =>
           \/ Local(log'[s], cursor'[s], intr'[s], stop, t, x)
           \/ Work(log[s], cursor[s]) /\ ~Local(log[s], cursor[s], intr[s], stop, r, x)
    BY <1>1, <1>5, <1>6, <1>15, <2>2, <2>3, <2>4 DEF Local
  <2> QED BY <1>5, <1>9, <1>12, <1>13, <1>11, <2>1, <2>5, ActorTends DEF Aside
<1>16. CASE done /\ ~Moved(h)
  <2>1. t.pc = HoldOrClose(h) /\ t.out = r.out /\ t.seen = r.seen /\ t.wake = r.wake
    BY <1>3, <1>10, <1>11, <1>16
  <2>2. UNCHANGED <<tableVars, logVars, apiVars, obj, dropped>> BY <1>1, <1>3, <1>16 DEF logVars
  <2>3. cursor[s] = A.cur BY <1>3, <1>5, <1>16
  <2>4. Knows(log[s], cursor[s], r) /\ x.bus = <<>> => ~Work(log[s], cursor[s])
    BY <1>6, <1>16, <2>3
  <2> QED BY <1>1, <1>9, <2>1, <2>2, <2>4, HoldingTends
<1> QED BY <1>14, <1>15, <1>16

-----------
(* What is read is of the inbox. *)
LEMMA ReadKinds ==
    ASSUME NEW l \in Logs, NEW r \in RunTypes, Reads(l, r), r.pc = "feed", NEW p, Has(r.items, p)
    PROVE  p \in 1..Len(l) /\ l[p].kind \in InboxKinds
<1> DEFINE o == r.out
           q == r.items
<1>1. Lined(l, o \o q, r.cur) /\ o \in Seq(Nat) /\ q \in Seq(Nat) BY LineType DEF Reads, Line
<1>2. PICK i \in 1..Len(q) : q[i] = p BY DEF Has
<1> HIDE DEF o, q
<1>3. /\ Len(o \o q) = Len(o) + Len(q) /\ Len(o) \in Nat /\ Len(q) \in Nat
      /\ \A j \in 1..Len(q) : (o \o q)[Len(o) + j] = q[j]
  BY <1>1, Joined
<1>4. Len(o) + i \in 1..Len(o \o q) /\ (o \o q)[Len(o) + i] = p BY <1>2, <1>3
<1> QED BY <1>1, <1>4 DEF Lined

(* What is cut in two is there in one part or the other. *)
LEMMA CutWhole ==
    ASSUME NEW q \in Seq(Nat), NEW r \in 1..(Len(q) + 1), NEW p, Has(q, p)
    PROVE  Has(SubSeq(q, 1, r - 1), p) \/ Has(SubSeq(q, r, Len(q)), p)
<1> DEFINE k == SubSeq(q, 1, r - 1)
           e == SubSeq(q, r, Len(q))
           n == Len(q)
<1>1. PICK i \in 1..Len(q) : q[i] = p BY DEF Has
<1>2. n \in Nat /\ r \in Nat /\ r \in 1..(n + 1) /\ i \in 1..n OBVIOUS
<1>3. Len(k) = r - 1 /\ \A j \in 1..(r - 1) : k[j] = q[j]
  <2> DEFINE m == r - 1
  <2>1. 1 \in 1..(n + 1) /\ m \in (1 - 1)..n BY <1>2
  <2> HIDE DEF m
  <2>2. Len(SubSeq(q, 1, m)) = m - 1 + 1 /\ \A j \in 1..(m - 1 + 1) : SubSeq(q, 1, m)[j] = q[1 + j - 1]
    BY <2>1, CutOut
  <2>3. m - 1 + 1 = m /\ m \in Int BY <1>2 DEF m
  <2>4. \A j \in 1..m : q[1 + j - 1] = q[j]
    <3>1. \A j \in 1..m : 1 + j - 1 = j BY <2>3
    <3> QED BY <3>1
  <2>5. Len(SubSeq(q, 1, m)) = m /\ \A j \in 1..m : SubSeq(q, 1, m)[j] = q[j]
    BY <2>2, <2>3, <2>4
  <2> QED BY <2>5 DEF m
<1>4. Len(e) = n - r + 1 /\ \A j \in 1..(n - r + 1) : e[j] = q[r + j - 1]
  <2>1. r \in 1..(Len(q) + 1) /\ n \in (r - 1)..Len(q) BY <1>2
  <2> HIDE DEF n
  <2>2. Len(SubSeq(q, r, n)) = n - r + 1 /\ \A j \in 1..(n - r + 1) : SubSeq(q, r, n)[j] = q[r + j - 1]
    BY <2>1, CutOut
  <2> QED BY <2>2 DEF n
<1> HIDE DEF k, e, n
<1>5. CASE i < r
  <2>1. i \in 1..Len(k) /\ k[i] = p BY <1>1, <1>2, <1>3, <1>5
  <2> QED BY <2>1 DEF Has, k
<1>6. CASE ~(i < r)
  <2> DEFINE j == i - r + 1
  <2>1. j \in 1..(n - r + 1) /\ r + j - 1 = i BY <1>2, <1>6
  <2> HIDE DEF j
  <2>2. j \in 1..Len(e) /\ e[j] = p BY <1>1, <1>4, <2>1
  <2> QED BY <2>2 DEF Has, e
<1> QED BY <1>5, <1>6

(* An object that is fed is idle only with an empty bus. *)
LEMMA FedObjectTended ==
    ASSUME NEW x \in ObjTypes, NEW inputs \in Seq(Nat), NEW starts \in Nat
    PROVE  LET y == [FedObject(x, inputs, starts) EXCEPT !.again = FALSE] IN
           /\ y.again = FALSE /\ y.closing = x.closing
           /\ y.state = "idle" /\ ~y.closing => y.bus = <<>>
<1> DEFINE z == FedObject(x, inputs, starts)
           y == [z EXCEPT !.again = FALSE]
           u == [x EXCEPT !.bus = x.bus \o inputs]
<1>1. x.bus \o inputs \in Seq(Nat) BY DEF ObjTypes
<1>2. u \in ObjTypes /\ u.closing = x.closing BY <1>1 DEF ObjTypes
<1>3. \/ starts # 0 /\ z = [u EXCEPT !.state = "running", !.answering = starts]
      \/ starts = 0 /\ z = Woken(u)
  BY DEF FedObject
<1> HIDE DEF u, z
<1>4. \/ Woken(u) = u /\ (u.state = "idle" /\ ~u.closing => u.bus = <<>>)
      \/ Woken(u) = [u EXCEPT !.state = "running", !.again = TRUE]
  BY DEF Woken
<1>5. z \in ObjTypes /\ z.closing = x.closing /\ (z.state = "idle" /\ ~z.closing => z.bus = <<>>)
  <2>1. CASE starts # 0 BY <2>1, <1>2, <1>3 DEF ObjTypes
  <2>2. CASE starts = 0 /\ Woken(u) = u /\ (u.state = "idle" /\ ~u.closing => u.bus = <<>>)
    BY <2>2, <1>2, <1>3
  <2>3. CASE starts = 0 /\ Woken(u) = [u EXCEPT !.state = "running", !.again = TRUE]
    BY <2>3, <1>2, <1>3, ZenonT(60) DEF ObjTypes
  <2> QED BY <2>1, <2>2, <2>3, <1>3, <1>4
<1>6. y.bus = z.bus /\ y.state = z.state /\ y.closing = z.closing /\ y.again = FALSE
  BY <1>5 DEF ObjTypes
<1> QED BY <1>5, <1>6 DEF z

(* What is read is fed, or the run is halted. *)
LEMMA FeedTends ==
    ASSUME WInv, LInv, TInv, NEW h \in Leases, Feed(h)
    PROVE  TInv'
<1> DEFINE s == Session(h)
           stop == Host(h) \in stopping
           l == log[s]
           q == run[h].items
           o == run[h].out
           r == IF AwaitsAnswer(h) THEN FirstResume(s, q) ELSE 1
           k == SubSeq(q, 1, r - 1)
           e == SubSeq(q, r, Len(q))
           f == IF Halted(h) THEN <<>> ELSE e
           inputs == Among(l, f, "input")
           resumes == Among(l, f, "resume")
           starts == IF obj[h].state = "paused" /\ resumes # <<>> THEN Head(resumes) ELSE 0
           x == FedObject(obj[h], inputs, starts)
<1>1. /\ run[h].pc = "feed" /\ LastCancel(s, q) = 0 /\ r # 0
      /\ obj' = [obj EXCEPT ![h] = [x EXCEPT !.again = FALSE]]
      /\ run' = [run EXCEPT ![h] =
           [@ EXCEPT !.pc = "sleep", !.items = e, !.out = o \o k \o f,
                   !.seen = run[h].seen \union ToSet(k) \union (ToSet(resumes) \ {starts}),
                   !.resuming = run[h].resuming \/ resumes # <<>>]]
      /\ UNCHANGED <<tableVars, log, cursor, intr, apiVars, dropped>>
  BY ZenonT(60) DEF Feed, FedObject, Among, Kind
<1>2. /\ s \in Sessions /\ run[h] \in RunTypes /\ l \in Logs /\ ~lease[h].gone
      /\ obj[h] \in ObjTypes /\ obj[h].state # "none" /\ Held(l, run[h], obj[h])
      /\ Keeps(h) /\ Tended(stop, run[h], obj[h])
  BY <1>1, Here, HoldsRow DEF LInv, TInv, Tends, Fits, Listens
<1>3. q \in Seq(Nat) /\ o \in Seq(Nat) /\ Len(q) \in Nat BY <1>2, LineType
<1>4. FirstResume(s, q) \in 0..Len(q) /\ \A i \in 1..Len(q) : l[q[i]].kind # "cancel"
  <2>1. FirstResume(s, q) \in 0..Len(q) /\ \A i \in 1..Len(q) : Kind(s, q[i]) # "cancel"
    <3> HIDE DEF s, q
    <3> QED BY <1>1, <1>2, <1>3, Selected
  <2> QED BY <2>1 DEF Kind
<1>5. r \in 1..(Len(q) + 1)
  <2> DEFINE n == FirstResume(s, q)
  <2>1. n \in 0..Len(q) /\ (r = n \/ r = 1) /\ r # 0 BY <1>1, <1>4
  <2> HIDE DEF n, r
  <2> QED BY <2>1, <1>3
<1>6. (f = e \/ f = <<>>) /\ (~stop => f = e) BY <1>2 DEF Halted
<1>7. Reads(l, run[h]) /\ InLog(l, cursor[s], run[h], obj[h])
  BY <1>1, <1>2, LiesInLog DEF Held, Listens
<1>8. \A p : Has(q, p) => p \in 1..Len(l) /\ l[p].kind \in {"input", "resume"}
  <2> SUFFICES ASSUME NEW p, Has(q, p) PROVE p \in 1..Len(l) /\ l[p].kind \in {"input", "resume"}
    OBVIOUS
  <2>1. p \in 1..Len(l) /\ l[p].kind \in InboxKinds BY <1>1, <1>2, <1>7, ReadKinds
  <2>2. l[p].kind # "cancel" BY <1>4 DEF Has
  <2> QED BY <2>1, <2>2 DEF InboxKinds
<1> HIDE DEF r, f, l, q, o, inputs, resumes, starts, x
<1>9. /\ k \in Seq(Nat) /\ f \in Seq(Nat)
      /\ \A p : Has(f, p) => Has(q, p)
      /\ \A p : Has(q, p) => Has(k, p) \/ Has(e, p)
  <2>1. /\ k \in Seq(Nat) /\ f \in Seq(Nat)
        /\ \A p : Has(f, p) => \E i \in r..Len(q) : q[i] = p
    BY <1>3, <1>5, <1>6, CutTwice
  <2>2. \A i \in r..Len(q) : i \in 1..Len(q) BY <1>3, <1>5
  <2>3. \A p : Has(q, p) => Has(k, p) \/ Has(e, p) BY <1>3, <1>5, CutWhole
  <2> HIDE DEF k, e
  <2> QED BY <2>1, <2>2, <2>3 DEF Has
<1> HIDE DEF k, e
<1>10. inputs \in Seq(Nat) /\ \A p : Has(f, p) /\ l[p].kind = "input" => Has(inputs, p)
  <2>1. inputs \in Seq(Nat) /\ \A p : p \in ToSet(inputs) <=> Has(f, p) /\ l[p].kind = "input"
    BY <1>2, <1>8, <1>9, AmongFacts DEF inputs
  <2>2. \A p : p \in ToSet(inputs) => Has(inputs, p) BY <2>1 DEF ToSet, Has
  <2> QED BY <2>1, <2>2
<1>11. resumes \in Seq(Nat) /\ \A p : Has(f, p) /\ l[p].kind = "resume" => p \in ToSet(resumes)
  BY <1>2, <1>8, <1>9, AmongFacts DEF resumes
<1>12. starts \in Nat /\ (starts # 0 => obj[h].state = "paused")
  <2>1. CASE obj[h].state = "paused" /\ resumes # <<>>
    <3>1. Head(resumes) \in Nat BY <2>1, <1>11
    <3> QED BY <2>1, <3>1 DEF starts
  <2>2. CASE ~(obj[h].state = "paused" /\ resumes # <<>>) BY <2>2 DEF starts
  <2> QED BY <2>1, <2>2
<1>13. PICK y : y = [x EXCEPT !.again = FALSE] OBVIOUS
<1>14. /\ y.bus = obj[h].bus \o inputs /\ y.again = FALSE /\ y.closing = obj[h].closing
       /\ y.answering = IF starts # 0 THEN starts ELSE obj[h].answering
       /\ y.state = "idle" /\ ~y.closing => y.bus = <<>>
  <2>1. y = [FedObject(obj[h], inputs, starts) EXCEPT !.again = FALSE] BY <1>13 DEF x
  <2>2. y.bus = obj[h].bus \o inputs /\ y.answering = IF starts # 0 THEN starts ELSE obj[h].answering
    BY <2>1, <1>2, <1>10, <1>12, FedObjectFacts
  <2>3. /\ y.again = FALSE /\ y.closing = obj[h].closing
        /\ y.state = "idle" /\ ~y.closing => y.bus = <<>>
    BY <2>1, <1>2, <1>10, <1>12, FedObjectTended
  <2> QED BY <2>2, <2>3
<1>15. PICK t, T, b, O : t = [run[h] EXCEPT !.pc = "sleep", !.items = e, !.out = O,
                                   !.seen = T, !.resuming = b]
              /\ T = run[h].seen \union ToSet(k) \union (ToSet(resumes) \ {starts})
              /\ b = (run[h].resuming \/ resumes # <<>>)
              /\ O = o \o k \o f
  OBVIOUS
<1>16. run' = [run EXCEPT ![h] = t] /\ obj' = [obj EXCEPT ![h] = y] BY <1>1, <1>13, <1>15
<1>17. t.pc = "sleep" /\ t.out = o \o k \o f /\ t.seen = T /\ t.wake = run[h].wake
  <2> DEFINE rr == run[h]
  <2>1. rr \in RunTypes /\ t = [rr EXCEPT !.pc = "sleep", !.items = e, !.out = O, !.seen = T, !.resuming = b]
    BY <1>2, <1>15
  <2>2. t.pc = "sleep" /\ t.out = O /\ t.seen = T /\ t.wake = rr.wake
    <3> HIDE DEF rr
    <3> QED BY <2>1 DEF RunTypes
  <2> QED BY <2>2, <1>15
<1>18. obj[h].bus \in Seq(Nat) BY <1>2 DEF ObjTypes
(* Every part of what is outstanding is where it should be. *)
<1>19. ASSUME NEW p, Has(o, p) PROVE p \in T \/ p = y.answering \/ Has(y.bus, p)
  <2>1. PICK i \in 1..Len(o) : o[i] = p BY <1>19 DEF Has
  <2>2. p \in run[h].seen \/ p = obj[h].answering \/ Has(obj[h].bus, p)
    BY <1>1, <1>2, <2>1 DEF Tended, Listens, o
  <2>3. CASE p \in run[h].seen BY <1>15, <2>3
  <2>4. CASE p = obj[h].answering
    <3>1. p # 0
      <4>1. p \in 1..Len(l) BY <1>1, <1>7, <2>1 DEF InLog, Listens, o
      <4> QED BY <4>1
    <3>2. obj[h].state = "running" BY <1>2, <2>4, <3>1 DEF Keeps, KeepsAs, Asked
    <3> QED BY <1>12, <1>14, <2>4, <3>2
  <2>5. CASE Has(obj[h].bus, p) BY <1>10, <1>14, <1>18, <2>5, PartHas
  <2> QED BY <2>2, <2>3, <2>4, <2>5
<1>20. ASSUME NEW p, Has(k, p) PROVE p \in T
  <2>1. p \in ToSet(k) BY <1>9, <1>20 DEF Has, ToSet
  <2> QED BY <1>15, <2>1
<1>21. ASSUME NEW p, Has(f, p) PROVE p \in T \/ p = y.answering \/ Has(y.bus, p)
  <2>1. p \in 1..Len(l) /\ l[p].kind \in {"input", "resume"} BY <1>8, <1>9, <1>21
  <2>2. CASE l[p].kind = "input"
    <3>1. Has(inputs, p) BY <1>10, <1>21, <2>2
    <3> QED BY <1>10, <1>14, <1>18, <3>1, PartHas
  <2>3. CASE l[p].kind = "resume"
    <3>1. p \in ToSet(resumes) /\ p # 0 BY <1>11, <1>21, <2>1, <2>3
    <3> QED BY <1>14, <1>15, <3>1
  <2> QED BY <2>1, <2>2, <2>3
<1>22. Tended(stop, t, y)
  <2>1. ASSUME NEW i \in 1..Len(t.out)
        PROVE  t.out[i] \in t.seen \/ t.out[i] = y.answering \/ Has(y.bus, t.out[i])
    <3>1. i \in 1..Len(o \o k \o f) /\ t.out[i] = (o \o k \o f)[i] BY <1>17
    <3>2. Has(o, t.out[i]) \/ Has(k, t.out[i]) \/ Has(f, t.out[i])
      BY <1>3, <1>9, <3>1, JoinedHas
    <3> QED BY <1>17, <1>19, <1>20, <1>21, <3>2
  <2>2. y.closing => stop BY <1>1, <1>2, <1>14 DEF Tended
  <2> QED BY <1>14, <1>17, <2>1, <2>2 DEF Tended
<1>23. Local(log[s], cursor[s], intr[s], stop, run[h], obj[h])
          => Carries(log'[s], cursor'[s], stop, t, y)
  <2>1. ~Waits(run[h], obj[h]) BY <1>1 DEF Waits, Feeding
  <2>2. CASE stop BY <1>17, <2>2 DEF Carries
  <2>3. CASE obj[h].bus # <<>>
    <3>1. y.bus # <<>> BY <1>10, <1>14, <1>18, <2>3
    <3> QED BY <1>17, <3>1 DEF Carries, Feeding
  <2>4. CASE run[h].wake BY <1>17, <2>4 DEF Carries, Feeding
  <2>5. CASE ~stop /\ Knows(log[s], cursor[s], run[h])
    <3>1. f = e BY <1>6, <2>5
    <3>2. ASSUME NEW p, Has(o \o q, p) PROVE Has(o \o k \o f, p)
      <4>1. PICK i \in 1..Len(o \o q) : (o \o q)[i] = p BY <3>2 DEF Has
      <4>2. Has(o, p) \/ Has(q, p) BY <1>3, <4>1, JoinedHasEither
      <4>3. Has(o, p) \/ Has(k, p) \/ Has(f, p) BY <1>9, <3>1, <4>2
      <4>4. o \o k \in Seq(Nat) BY <1>3, <1>9, Joined
      <4> QED BY <1>3, <1>9, <4>3, <4>4, PartHas
    <3>3. Line(run[h]) = o \o q /\ Line(t) = o \o k \o f BY <1>1, <1>17 DEF Line, o, q
    <3>4. Knows(log[s], cursor[s], t) BY <2>5, <3>2, <3>3 DEF Knows
    <3> QED BY <1>1, <1>17, <3>4 DEF Carries
  <2>6. Carries(log[s], cursor[s], stop, run[h], obj[h])
           => stop \/ obj[h].bus # <<>> \/ run[h].wake \/ Knows(log[s], cursor[s], run[h])
    BY <1>1 DEF Carries
  <2> QED BY <2>1, <2>2, <2>3, <2>4, <2>5, <2>6 DEF Local
<1>24. Aside(h) BY <1>1 DEF Aside, tableVars, apiVars
<1>25. Work(log'[s], cursor'[s]) =>
          \/ Local(log'[s], cursor'[s], intr'[s], stop, t, y)
          \/ Work(log[s], cursor[s]) /\ ~Local(log[s], cursor[s], intr[s], stop, run[h], obj[h])
  BY <1>1, <1>23 DEF Local
<1>26. run[h].pc \notin {"none", "release"} BY <1>1
<1> QED BY <1>16, <1>22, <1>24, <1>25, <1>26, ActorTends DEF Aside

-----------
(* The run is over: what it did not read is woken, waits for an answer, or
   is known to be lost. *)
LEMMA FinishTends ==
    ASSUME WInv, LInv, TInv, NEW h \in Leases, Finish(h)
    PROVE  TInv'
<1> DEFINE s == Session(h)
           stop == Host(h) \in stopping
<1>1. /\ run[h].pc = "finish" /\ UNCHANGED <<logVars, apiVars, obj>> /\ s \in Sessions
      /\ row' = row /\ run'[h].pc = "release" /\ obj[h] = NoObject
      /\ obj' = obj /\ stopping' = stopping
  BY FinishFacts DEF apiVars
<1>5. /\ \A g \in Leases \ {h} : lease'[g] = lease[g] /\ calls'[g] = calls[g] /\ run'[g] = run[g]
      /\ \A g \in Leases : /\ Session(g)' = Session(g) /\ Host(g)' = Host(g)
                           /\ "woken" \in calls[g] => "woken" \in calls'[g]
  BY FinishFacts
<1>7. /\ \A u \in Sessions : dropped[u] # "no" => dropped'[u] # "no"
      /\ stop => dropped'[s] # "no"
  BY FinishFacts
<1>9. ASSUME NEW g \in Leases PROVE Tends(g)'
  <2>1. CASE g = h BY <2>1, <1>1, TendsNothing DEF Tends, Feeds, Listens
  <2>2. CASE g # h
    <3>1. Tends(g) /\ run'[g] = run[g] /\ obj'[g] = obj[g] BY <2>2, <1>5, <1>1 DEF TInv
    <3> QED BY <3>1, <1>5, <1>1 DEF Tends
  <2> QED BY <2>1, <2>2
<1>10. ASSUME NEW u \in Sessions, Told(u) PROVE Told(u)' BY <1>1, <1>5, <1>7, <1>10 DEF Told
<1>11. ASSUME NEW u \in Sessions, Work(log'[u], cursor'[u]) PROVE Minded(u)'
  <2>1. log' = log /\ cursor' = cursor /\ intr' = intr BY <1>1 DEF logVars
  <2>2. Work(log[u], cursor[u]) BY <1>11, <2>1
  <2>3. CASE u = s
    <3>1. Told(u) \/ Local(log[u], cursor[u], intr[u], stop, run[h], obj[h])
      BY <1>1, <2>2, <2>3, Locally
    <3>2. Carries(log[u], cursor[u], stop, run[h], obj[h]) => stop BY <1>1 DEF Carries, Feeding
    <3>3. ASSUME intr[u] PROVE Asking(u)'
      <4>1. Waits(run'[h], obj'[h]) BY <1>1 DEF Waits, Feeding, NoObject
      <4>2. \A g \in Leases \ {h} : Session(g) = u => Waits(run'[g], obj'[g])
        BY <1>1, <1>5, <2>3, OthersOver
      <4> QED BY <2>1, <3>3, <4>1, <4>2, <1>5 DEF Asking
    <3>4. stop => Told(u)' BY <2>3, <1>7 DEF Told
    <3>5. Told(u)' \/ Asking(u)' BY <3>1, <3>2, <3>3, <3>4, <1>10 DEF Local
    <3> QED BY <3>5 DEF Minded
  <2>4. CASE u # s
    <3>1. \A g \in Leases : Session(g) = u => /\ run'[g] = run[g] /\ lease'[g] = lease[g]
                                              /\ calls'[g] = calls[g]
      BY <2>4, <1>5
    <3>2. Minded(u) BY <2>2 DEF TInv
    <3>3. Carried(u) => Carried(u)' BY <2>1, <3>1, <1>5, <1>1 DEF Carried
    <3>4. Asking(u) => Asking(u)' BY <2>1, <3>1, <1>5, <1>1 DEF Asking
    <3>5. Abandoned(u) => Abandoned(u)' BY <3>1, <1>1, <1>5 DEF Abandoned, Mine
    <3> QED BY <3>2, <3>3, <3>4, <3>5, <1>10 DEF Minded
  <2> QED BY <2>3, <2>4
<1> QED BY <1>9, <1>11 DEF TInv

(* It is listed no longer: those that waited for it go on. *)
LEMMA DoneTends ==
    ASSUME WInv, LInv, TInv, NEW h \in Leases, Done(h)
    PROVE  TInv'
<1>1. UNCHANGED <<tableVars, logVars, apiVars, obj, dropped>> BY DEF Done
<1>6. \A g \in Leases : \/ run[g].pc = "release" /\ run'[g].pc = "none"
                        \/ StaysRun(run[g], run'[g])
                        \/ run[g].pc = "wait" /\ run'[g].pc = "pass"
  BY DoneMoves
<1>7. /\ lease' = lease /\ calls' = calls /\ row' = row /\ obj' = obj /\ stopping' = stopping
      /\ log' = log /\ cursor' = cursor /\ intr' = intr /\ dropped' = dropped
      /\ \A g \in Leases : Session(g)' = Session(g) /\ Host(g)' = Host(g)
  BY <1>1 DEF tableVars, logVars, apiVars, Session, Host
<1>8. \A g \in Leases : run[g].pc \in {"release", "wait"} => obj[g] = NoObject
  BY HasNoObject DEF Feeds, Listens
<1>9. ASSUME NEW g \in Leases PROVE Tends(g)'
  <2> SUFFICES ASSUME run'[g].pc # "none" PROVE Tended(Host(g) \in stopping, run'[g], obj[g])
    BY <1>7 DEF Tends
  <2>1. CASE StaysRun(run[g], run'[g])
    <3>1. Tended(Host(g) \in stopping, run[g], obj[g]) BY <2>1 DEF TInv, Tends, StaysRun
    <3> DEFINE p == Host(g) \in stopping
               r == run[g]
               t == run'[g]
               x == obj[g]
    <3>2. StaysRun(r, t) /\ Tended(p, r, x) /\ (p => p) BY <2>1, <3>1
    <3> HIDE DEF p, r, t, x
    <3>3. StaysObject(p, x, x) BY StaysSame
    <3>4. Tended(p, t, x) BY <3>2, <3>3, TendedStill
    <3> QED BY <3>4 DEF p, t, x
  <2>2. CASE run[g].pc = "wait" /\ run'[g].pc = "pass"
    BY <2>2, <1>8, TendsNothing DEF Feeds, Listens
  <2> QED BY <2>1, <2>2, <1>6
<1>10. ASSUME NEW u \in Sessions, Work(log'[u], cursor'[u]) PROVE Minded(u)'
  <2>1. Minded(u) BY <1>7, <1>10 DEF TInv
  <2>2. CASE Told(u) \/ Abandoned(u) BY <2>2, <1>7 DEF Told, Abandoned, Mine, Minded
  <2>3. CASE Carried(u)
    <3>1. PICK g \in Leases : Session(g) = u
                              /\ Carries(log[u], cursor[u], Host(g) \in stopping, run[g], obj[g])
      BY <2>3 DEF Carried
    <3>2. CASE StaysRun(run[g], run'[g])
      <4> DEFINE p == Host(g) \in stopping
                 r == run[g]
                 t == run'[g]
                 x == obj[g]
                 l == log[u]
                 c == cursor[u]
      <4>1. StaysRun(r, t) /\ Carries(l, c, p, r, x) BY <3>1, <3>2
      <4>2. /\ x.bus = x.bus /\ (p => p)
            /\ \A n \in 1..Len(l) : Fresh(l, c, n) => Fresh(l, c, n)
        OBVIOUS
      <4> HIDE DEF p, r, t, x, l, c
      <4>3. Carries(l, c, p, t, x) BY <4>1, <4>2, CarriesStill
      <4>4. Carries(log'[u], cursor'[u], Host(g)' \in stopping', run'[g], obj'[g])
        BY <4>3, <1>7 DEF p, t, x, l, c
      <4> QED BY <3>1, <4>4, <1>7 DEF Carried, Minded
    <3>3. CASE run'[g].pc = "pass"
      <4>1. Carries(log'[u], cursor'[u], Host(g)' \in stopping', run'[g], obj'[g])
        BY <3>3 DEF Carries
      <4> QED BY <3>1, <4>1, <1>7 DEF Carried, Minded
    <3> QED BY <3>1, <3>2, <3>3, <1>6, CarriesThere
  <2>4. CASE Asking(u)
    <3>1. ASSUME NEW g \in Leases, Session(g) = u PROVE Waits(run'[g], obj'[g])
      <4>1. Waits(run[g], obj[g]) BY <2>4, <3>1 DEF Asking
      <4> QED BY <4>1, <1>6, <1>7 DEF Waits, Feeding, StaysRun
    <3> QED BY <2>4, <3>1, <1>7 DEF Asking, Minded
  <2> QED BY <2>1, <2>2, <2>3, <2>4 DEF Minded
<1> QED BY <1>9, <1>10 DEF TInv

-----------
(* The row is taken: the new run reads the inbox. *)
LEMMA StartTends ==
    ASSUME WInv, LInv, TInv, NEW h \in Leases, NEW o \in Owners, NEW s \in Sessions, NEW looped,
           Claim(h, o, s) \/ Acquire(h, o, s), Started(h, o, s, looped),
           UNCHANGED <<logVars, stopping, obj>>
    PROVE  TInv'
<1>1. /\ lease'[h].session = s /\ lease'[h].owner = o
      /\ \A g \in Leases \ {h} : lease'[g] = lease[g]
  BY TakeTable DEF WInv
<1>2. /\ run[h].pc = "none" /\ dropped' = [dropped EXCEPT ![s] = "no"]
      /\ run' = [run EXCEPT ![h] = [NoRun EXCEPT !.pc = "start", !.looped = looped]]
  BY DEF Started
<1>3. /\ calls[h] = {} /\ calls' = calls
      /\ row' = [row EXCEPT ![s] = [woken |-> FALSE, owner |-> o, left |-> TTL,
                                    fence |-> row[s].fence + 1]]
  BY DEF Claim, Claimable, Acquire, Take, Unused
<1>4. TableTypeOK /\ run \in [Leases -> RunTypes] /\ dropped \in [Sessions -> {"no", "late", "stop", "error", "page"}]
  BY DEF WInv, IInv, Typed, Flagged
<1>5. \A u \in Sessions \ {s} : row'[u] = row[u] /\ dropped'[u] = dropped[u]
  BY <1>2, <1>3, <1>4 DEF TableTypeOK
<1>6. run'[h].pc = "start" /\ \A g \in Leases \ {h} : run'[g] = run[g]
  <2>1. PICK t : t = [NoRun EXCEPT !.pc = "start", !.looped = looped] OBVIOUS
  <2>2. t.pc = "start" BY <2>1 DEF NoRun
  <2> QED BY <1>2, <1>4, <2>1, <2>2
<1>7. /\ obj' = obj /\ obj[h] = NoObject /\ stopping' = stopping
      /\ log' = log /\ cursor' = cursor /\ intr' = intr
  BY <1>2, HasNoObject DEF Feeds, Listens, logVars
<1>8. /\ \A g \in Leases \ {h} : Session(g)' = Session(g) /\ Host(g)' = Host(g)
      /\ Session(h)' = s
  BY <1>1 DEF Session, Host
<1>9. ASSUME NEW g \in Leases PROVE Tends(g)'
  <2>1. CASE g = h BY <2>1, <1>6, <1>7, TendsNothing DEF Tends, Feeds, Listens
  <2>2. CASE g # h
    <3>1. Tends(g) /\ run'[g] = run[g] /\ obj'[g] = obj[g] BY <2>2, <1>6, <1>7 DEF TInv
    <3> QED BY <2>2, <3>1, <1>7, <1>8 DEF Tends
  <2> QED BY <2>1, <2>2
<1>10. ASSUME NEW u \in Sessions, Work(log'[u], cursor'[u]) PROVE Minded(u)'
  <2>1. CASE u = s
    <3>1. Carries(log'[u], cursor'[u], Host(h)' \in stopping', run'[h], obj'[h])
      BY <1>6 DEF Carries
    <3> QED BY <2>1, <3>1, <1>8 DEF Carried, Minded
  <2>2. CASE u # s
    <3>1. \A g \in Leases : Session(g)' = u => /\ Session(g) = u /\ run'[g] = run[g]
                                               /\ lease'[g] = lease[g] /\ g # h
      BY <2>2, <1>1, <1>6, <1>8
    <3>2. Minded(u) BY <1>7, <1>10 DEF TInv
    <3>3. Told(u) => Told(u)' BY <2>2, <1>3, <1>5, <1>8 DEF Told
    <3>4. Carried(u) => Carried(u)'
      <4>1. ASSUME NEW g \in Leases, Session(g) = u,
                   Carries(log[u], cursor[u], Host(g) \in stopping, run[g], obj[g])
            PROVE  Carried(u)'
        <5>1. g # h BY <1>2, <4>1, CarriesThere
        <5> QED BY <4>1, <5>1, <1>6, <1>7, <1>8 DEF Carried
      <4> QED BY <4>1 DEF Carried
    <3>5. Asking(u) => Asking(u)' BY <3>1, <1>7 DEF Asking
    <3>6. Abandoned(u) => Abandoned(u)'
      <4>1. row'[u] = row[u] BY <2>2, <1>5
      <4>2. ASSUME NEW g \in Leases, (Session(g) = u /\ Mine(g))'
            PROVE  Session(g) = u /\ Mine(g) /\ lease'[g] = lease[g] /\ calls'[g] = calls[g]
        <5>1. Session(g)' = u BY <4>2
        <5>2. Session(g) = u /\ lease'[g] = lease[g] BY <3>1, <5>1
        <5> QED BY <4>1, <4>2, <5>2, <1>3 DEF Mine, Session
      <4> QED BY <4>1, <4>2 DEF Abandoned
    <3> QED BY <3>2, <3>3, <3>4, <3>5, <3>6 DEF Minded
  <2> QED BY <2>1, <2>2
<1> QED BY <1>9, <1>10 DEF TInv

(* A process dies: what its runs had to do is left to the clock. *)
LEMMA WorkerCrashTends ==
    ASSUME WInv, LInv, TInv, NEW o \in Owners, WorkerCrash(o)
    PROVE  TInv'
<1>1. /\ UNCHANGED <<logVars, pending, nudged>> /\ Crash(o)
      /\ run' = [h \in Leases |-> IF Host(h) = o THEN NoRun ELSE run[h]]
      /\ obj' = [h \in Leases |-> IF Host(h) = o THEN NoObject ELSE obj[h]]
      /\ stopping' = stopping \ {o}
      /\ dropped' = [s \in Sessions |->
            IF \E h \in Leases : /\ Host(h) = o /\ Session(h) = s /\ "woken" \in calls[h]
                                 /\ run[h].pc \in {"release", "none"}
            THEN "late" ELSE dropped[s]]
  BY DEF WorkerCrash
<1>2. /\ row' = row
      /\ lease' = [h \in Leases |-> IF lease[h].owner = o THEN [lease[h] EXCEPT !.gone = TRUE]
                                                          ELSE lease[h]]
      /\ calls' = [h \in Leases |-> IF lease[h].owner = o THEN calls[h] \intersect Statements
                                                          ELSE calls[h]]
  BY <1>1 DEF Crash
<1>3. TableTypeOK /\ \A g, k \in Leases : Session(g) = Session(k) /\ Mine(g) /\ Mine(k) => g = k
  BY DEF WInv, IInv, FenceTellsTakesApart, Mine, Session
<1>4. ASSUME NEW g \in Leases
      PROVE  /\ Session(g)' = Session(g) /\ Host(g)' = Host(g) /\ Mine(g)' = Mine(g)
             /\ "release" \in calls'[g] => "release" \in calls[g]
             /\ \/ Host(g) = o /\ lease'[g].gone /\ run'[g] = NoRun /\ obj'[g] = NoObject
                \/ /\ Host(g) # o /\ lease'[g] = lease[g] /\ calls'[g] = calls[g]
                   /\ run'[g] = run[g] /\ obj'[g] = obj[g]
                   /\ (Host(g) \in stopping) = (Host(g)' \in stopping')
  BY <1>1, <1>2, <1>3 DEF TableTypeOK, LeaseType, Host, Session, Mine
<1>5. log' = log /\ cursor' = cursor /\ intr' = intr BY <1>1 DEF logVars
<1>6. ASSUME NEW g \in Leases PROVE Tends(g)'
  <2>1. CASE Host(g) = o BY <2>1, <1>4, Nothing DEF Tends
  <2>2. CASE Host(g) # o BY <2>2, <1>4 DEF Tends, TInv
  <2> QED BY <2>1, <2>2
<1>7. ASSUME NEW k \in Leases, Host(k) = o, run[k].pc \notin {"none", "release"}
      PROVE  Abandoned(Session(k))'
  <2> DEFINE u == Session(k)
  <2>1. Mine(k) /\ row[u].owner # NoOwner /\ "release" \notin calls[k] /\ u \in Sessions
    BY <1>7, HoldsRow
  <2>2. PICK v \in Sessions : v = u BY <2>1
  <2>3. ASSUME NEW g \in Leases, (Session(g) = v /\ Mine(g))'
        PROVE  lease'[g].gone /\ "release" \notin calls'[g]
    <3>1. g = k BY <2>1, <2>2, <2>3, <1>3, <1>4
    <3> QED BY <2>1, <3>1, <1>4, <1>7
  <2>4. row'[v].owner # NoOwner BY <2>1, <2>2, <1>2
  <2>5. Abandoned(v)' BY <2>3, <2>4 DEF Abandoned
  <2> QED BY <2>2, <2>5, <1>4
<1>8. ASSUME NEW u \in Sessions, Work(log'[u], cursor'[u]) PROVE Minded(u)'
  <2> SUFFICES ASSUME \A k \in Leases : Session(k) = u /\ Host(k) = o => run[k].pc \in {"none", "release"}
               PROVE  Minded(u)'
    BY <1>4, <1>7 DEF Minded
  <2>1. Minded(u) BY <1>5, <1>8 DEF TInv
  <2>2. CASE Told(u)
    <3>1. dropped[u] # "no" => dropped'[u] # "no" BY <1>1
    <3>2. ASSUME NEW g \in Leases, Session(g) = u, "woken" \in calls[g] PROVE Told(u)'
      <4>1. CASE Host(g) = o
        <5>1. dropped'[u] # "no" BY <3>2, <4>1, <1>1
        <5> QED BY <5>1 DEF Told
      <4>2. CASE Host(g) # o BY <3>2, <4>2, <1>4 DEF Told
      <4> QED BY <4>1, <4>2
    <3> QED BY <2>2, <3>1, <3>2, <1>2 DEF Told, Minded
  <2>3. CASE Carried(u)
    <3>1. PICK g \in Leases : Session(g) = u
                              /\ Carries(log[u], cursor[u], Host(g) \in stopping, run[g], obj[g])
      BY <2>3 DEF Carried
    <3>2. Host(g) # o BY <3>1, CarriesThere
    <3> QED BY <3>1, <3>2, <1>4, <1>5 DEF Carried, Minded
  <2>4. CASE Asking(u)
    <3>1. Waits(NoRun, NoObject) BY DEF Waits, NoObject, NoRun, Feeding
    <3>2. \A g \in Leases : Session(g) = u => Waits(run'[g], obj'[g])
      BY <2>4, <3>1, <1>4 DEF Asking
    <3> QED BY <2>4, <3>2, <1>4, <1>5 DEF Asking, Minded
  <2>5. CASE Abandoned(u)
    <3>1. \A g \in Leases : lease[g].gone => lease'[g].gone BY <1>4
    <3> QED BY <2>5, <3>1, <1>2, <1>4 DEF Abandoned, Minded
  <2> QED BY <2>1, <2>2, <2>3, <2>4, <2>5 DEF Minded
<1> QED BY <1>6, <1>8 DEF TInv

-----------
(* A step of a run in flight: nobody waits for an answer. *)
LEMMA RunningTends ==
    ASSUME WInv, LInv, TInv, NEW h \in Leases, Running(h), NEW t, NEW y,
           run' = [run EXCEPT ![h] = t], obj' = [obj EXCEPT ![h] = y], Aside(h),
           Tended(Host(h) \in stopping, run[h], obj[h]) => Tended(Host(h) \in stopping, t, y),
           \A n \in 1..Len(log'[Session(h)]) :
              Fresh(log'[Session(h)], cursor'[Session(h)], n)
                 => Fresh(log[Session(h)], cursor[Session(h)], n),
           Carries(log[Session(h)], cursor[Session(h)], Host(h) \in stopping, run[h], obj[h])
              => Carries(log'[Session(h)], cursor'[Session(h)], Host(h) \in stopping, t, y)
    PROVE  TInv'
<1> DEFINE s == Session(h)
           stop == Host(h) \in stopping
<1>1. run[h].pc \notin {"none", "release"} BY ObjectIsFed DEF Running
<1>2. Tended(stop, t, y) BY <1>1 DEF TInv, Tends
<1>3. Work(log'[s], cursor'[s]) => Work(log[s], cursor[s]) BY DEF Work, Fresh
<1>4. ~Waits(run[h], obj[h]) BY DEF Waits, Running
<1>5. Local(log[s], cursor[s], intr[s], stop, run[h], obj[h])
         => Local(log'[s], cursor'[s], intr'[s], stop, t, y)
  BY <1>4 DEF Local
<1> QED BY <1>1, <1>2, <1>3, <1>5, ActorTends DEF Aside

(* What the run writes is no news to it. *)
LEMMA NotNews ==
    ASSUME NEW l \in Logs, NEW e, e.kind \notin InboxKinds, NEW c
    PROVE  \A n \in 1..Len(Append(l, e)) : Fresh(Append(l, e), c, n) => Fresh(l, c, n)
<1>1. Len(l) \in Nat /\ Len(Append(l, e)) = Len(l) + 1 /\ Append(l, e)[Len(l) + 1] = e
      /\ \A n \in 1..Len(l) : Append(l, e)[n] = l[n]
  BY DEF Logs
<1> SUFFICES ASSUME NEW n \in 1..Len(Append(l, e)), Fresh(Append(l, e), c, n)
             PROVE  Fresh(l, c, n)
  OBVIOUS
<1>2. n \in 1..Len(l) \/ n = Len(l) + 1 BY <1>1
<1>3. CASE n \in 1..Len(l) BY <1>1, <1>3 DEF Fresh
<1>4. CASE n = Len(l) + 1 BY <1>1, <1>4 DEF Fresh
<1> QED BY <1>2, <1>3, <1>4

(* The run writes, or spawns a task. *)
LEMMA TurnsOnTend ==
    ASSUME WInv, LInv, TInv, NEW h \in Leases, TurnWrites(h) \/ TaskSpawns(h)
    PROVE  TInv'
<1> DEFINE s == Session(h)
           stop == Host(h) \in stopping
           l == log[s]
<1>1. Running(h) /\ UNCHANGED <<tableVars, cursor, intr, apiVars, run, dropped>>
  BY DEF TurnWrites, TaskSpawns, logVars
<1>2. run[h].pc \notin {"none", "release"} BY <1>1, ObjectIsFed DEF Running
<1>3. /\ run \in [Leases -> RunTypes] /\ obj \in [Leases -> ObjTypes] /\ l \in Logs
      /\ log \in [Sessions -> Logs] /\ s \in Sessions /\ obj[h] \in ObjTypes
  BY <1>2, Here DEF WInv, Typed
<1>4. PICK t : t = run[h] OBVIOUS
<1>5. run' = [run EXCEPT ![h] = t] BY <1>1, <1>3, <1>4
<1>6. CASE TurnWrites(h)
  <2> DEFINE e == Record("other", 0)
             m == Append(l, e)
  <2>1. log' = [log EXCEPT ![s] = m] /\ obj' = [obj EXCEPT ![h] = obj[h]]
    BY <1>3, <1>6 DEF TurnWrites
  <2>2. log'[s] = m /\ \A u \in Sessions \ {s} : log'[u] = log[u] BY <1>3, <2>1
  <2>3. Aside(h) BY <1>1, <2>2 DEF Aside, tableVars, apiVars
  <2>4. e.kind \notin InboxKinds BY DEF Record, InboxKinds
  <2>5. \A n \in 1..Len(m) : Fresh(m, cursor[s], n) => Fresh(l, cursor[s], n)
    <3> DEFINE c == cursor[s]
    <3> HIDE DEF e, l, c
    <3> QED BY <1>3, <2>4, NotNews
  <2>6. Carries(l, cursor[s], stop, run[h], obj[h]) => Carries(m, cursor[s], stop, t, obj[h])
    <3> DEFINE c == cursor[s]
               x == obj[h]
    <3>1. StaysRun(t, t) /\ x.bus = x.bus /\ (stop => stop) BY StaysSame
    <3>2. \A n \in 1..Len(m) : Fresh(m, c, n) => Fresh(l, c, n) BY <2>5
    <3> HIDE DEF m, l, c, x, stop
    <3>3. Carries(l, c, stop, t, x) => Carries(m, c, stop, t, x) BY <3>1, <3>2, CarriesStill
    <3> QED BY <1>4, <3>3 DEF c, x
  <2> QED BY <1>1, <1>4, <1>5, <2>1, <2>2, <2>3, <2>5, <2>6, RunningTends
<1>7. CASE TaskSpawns(h)
  <2>1. PICK y : y = [obj[h] EXCEPT !.task = TRUE] OBVIOUS
  <2>2. /\ y.state = obj[h].state /\ y.bus = obj[h].bus /\ y.answering = obj[h].answering
        /\ y.again = obj[h].again /\ y.closing = obj[h].closing
        /\ obj' = [obj EXCEPT ![h] = y]
    BY <1>3, <1>7, <2>1 DEF ObjTypes, TaskSpawns
  <2>3. UNCHANGED logVars BY <1>7 DEF TaskSpawns
  <2>4. Aside(h) BY <1>1, <2>3, AsideSame DEF tableVars, apiVars
  <2>5. Tended(stop, run[h], obj[h]) => Tended(stop, t, y)
    BY <1>1, <1>4, <2>2 DEF Tended, Running
  <2>6. Carries(l, cursor[s], stop, run[h], obj[h]) => Carries(l, cursor[s], stop, t, y)
    BY <1>4, <2>2 DEF Carries
  <2>7. log'[s] = l /\ cursor'[s] = cursor[s] BY <2>3 DEF logVars
  <2> QED BY <1>1, <1>5, <2>2, <2>4, <2>5, <2>6, <2>7, RunningTends
<1> QED BY <1>6, <1>7

(* A message is taken off the bus: whoever listens hears of it. *)
LEMMA TurnTakesTends ==
    ASSUME WInv, LInv, TInv, NEW h \in Leases, TurnTakes(h)
    PROVE  TInv'
<1> DEFINE s == Session(h)
           stop == Host(h) \in stopping
           l == log[s]
           b == obj[h].bus
<1>1. /\ Running(h) /\ UNCHANGED <<tableVars, cursor, intr, turnOpen, apiVars, dropped>>
      /\ \E i \in DOMAIN b :
          LET p == b[i] IN
          /\ log' = [log EXCEPT ![s] = Append(@, Record("taken", p))]
          /\ obj' = [obj EXCEPT ![h].bus = RemoveAt(@, i)]
          /\ run' = IF Listening(h)
                    THEN [run EXCEPT ![h] = [@ EXCEPT !.seen = run[h].seen \union {p}, !.wake = TRUE]]
                    ELSE run
  BY DEF TurnTakes
<1>2. Feeds(run[h].pc) BY <1>1, ObjectIsFed DEF Running
<1>3. /\ run \in [Leases -> RunTypes] /\ obj \in [Leases -> ObjTypes] /\ l \in Logs
      /\ log \in [Sessions -> Logs] /\ s \in Sessions /\ obj[h] \in ObjTypes /\ run[h] \in RunTypes
      /\ b \in Seq(Nat) /\ DOMAIN b = 1..Len(b)
  <2>1. run[h].pc # "none" BY <1>2 DEF Feeds, Listens
  <2> QED BY <2>1, Here DEF WInv, Typed, ObjTypes
<1>4. PICK i \in 1..Len(b) :
          /\ log' = [log EXCEPT ![s] = Append(@, Record("taken", b[i]))]
          /\ obj' = [obj EXCEPT ![h].bus = RemoveAt(@, i)]
          /\ run' = IF Listening(h)
                    THEN [run EXCEPT ![h] = [@ EXCEPT !.seen = run[h].seen \union {b[i]}, !.wake = TRUE]]
                    ELSE run
  BY <1>1, <1>3
<1> DEFINE e == Record("taken", b[i])
           m == Append(l, e)
<1>5. PICK y : y = [obj[h] EXCEPT !.bus = RemoveAt(b, i)] OBVIOUS
<1>6. /\ y.bus = RemoveAt(b, i) /\ y.answering = obj[h].answering /\ y.state = obj[h].state
      /\ y.again = obj[h].again /\ y.closing = obj[h].closing /\ y.task = obj[h].task
      /\ obj' = [obj EXCEPT ![h] = y]
  BY <1>3, <1>4, <1>5 DEF ObjTypes
<1>7. PICK t : /\ run' = [run EXCEPT ![h] = t]
               /\ \/ ~Listening(h) /\ t = run[h]
                  \/ Listening(h) /\ t = [run[h] EXCEPT !.seen = run[h].seen \union {b[i]}, !.wake = TRUE]
  <2>1. run = [run EXCEPT ![h] = run[h]] BY <1>3
  <2> QED BY <1>4, <2>1
<1>8. /\ t.pc = run[h].pc /\ t.out = run[h].out /\ t.cancelled = run[h].cancelled
      /\ Listens(t.pc) => b[i] \in t.seen /\ run[h].seen \subseteq t.seen /\ t.wake
      /\ ~Listens(t.pc) => t = run[h]
  <2> DEFINE r == run[h]
             S == run[h].seen \union {b[i]}
  <2>1. r \in RunTypes BY <1>3
  <2>2. (Listening(h) <=> Listens(r.pc)) /\ b[i] \in S /\ r.seen \subseteq S
    BY DEF Listening, Listens
  <2>3. \/ ~Listens(r.pc) /\ t = r
        \/ Listens(r.pc) /\ t = [r EXCEPT !.seen = S, !.wake = TRUE]
    BY <1>7, <2>2
  <2> HIDE DEF r, S, b
  <2>4. CASE ~Listens(r.pc) /\ t = r BY <2>4 DEF r
  <2>5. CASE Listens(r.pc) /\ t = [r EXCEPT !.seen = S, !.wake = TRUE]
    <3>1. t.pc = r.pc /\ t.out = r.out /\ t.cancelled = r.cancelled /\ t.seen = S /\ t.wake = TRUE
      BY <2>1, <2>5 DEF RunTypes
    <3> QED BY <2>2, <2>5, <3>1 DEF r
  <2> QED BY <2>3, <2>4, <2>5
<1>9. log'[s] = m /\ \A u \in Sessions \ {s} : log'[u] = log[u] BY <1>3, <1>4
<1>10. Aside(h) BY <1>1, <1>9 DEF Aside, tableVars, apiVars
<1>11. \A v : Has(b, v) => v = b[i] \/ Has(y.bus, v)
  <2> SUFFICES ASSUME NEW j \in 1..Len(b), j # i PROVE Has(y.bus, b[j])
    BY DEF Has
  <2> DEFINE a == RemoveAt(b, i)
  <2> HIDE DEF b
  <2>1. /\ Len(a) = Len(b) - 1 /\ Len(b) \in Nat
        /\ \A n \in 1..Len(a) : a[n] = b[IF n < i THEN n ELSE n + 1]
    <3>1. b \in Seq(Nat) BY <1>3
    <3>2. Len(b) \in Nat BY <3>1
    <3> QED BY <3>1, <3>2, Removed
  <2> HIDE DEF a
  <2>2. PICK n : n = IF j < i THEN j ELSE j - 1 OBVIOUS
  <2>3. n \in 1..Len(a) /\ (IF n < i THEN n ELSE n + 1) = j BY <2>1, <2>2
  <2>4. a[n] = b[j] BY <2>1, <2>3
  <2> QED BY <1>6, <2>3, <2>4 DEF Has, a
<1>12. Tended(stop, run[h], obj[h]) => Tended(stop, t, y)
  <2> SUFFICES ASSUME Tended(stop, run[h], obj[h]) PROVE Tended(stop, t, y)
    OBVIOUS
  <2>1. ASSUME Listens(t.pc), NEW j \in 1..Len(t.out)
        PROVE  t.out[j] \in t.seen \/ t.out[j] = y.answering \/ Has(y.bus, t.out[j])
    <3>1. PICK v : v = t.out[j] OBVIOUS
    <3>2. v \in run[h].seen \/ v = obj[h].answering \/ Has(b, v) BY <1>8, <2>1, <3>1 DEF Tended
    <3>3. v \in t.seen \/ v = y.answering \/ Has(y.bus, v) BY <1>6, <1>8, <1>11, <2>1, <3>2
    <3> QED BY <3>1, <3>3
  <2> QED BY <1>1, <1>6, <1>8, <2>1 DEF Tended, Running
<1>13. \A n \in 1..Len(m) : Fresh(m, cursor[s], n) => Fresh(l, cursor[s], n)
  <2> DEFINE c == cursor[s]
  <2>1. e.kind \notin InboxKinds BY DEF Record, InboxKinds
  <2> HIDE DEF e, l, c
  <2> QED BY <1>3, <2>1, NotNews
<1>14. Carries(l, cursor[s], stop, run[h], obj[h]) => Carries(m, cursor[s], stop, t, y)
  <2>1. CASE Listens(t.pc) BY <1>8, <2>1 DEF Carries, Listens, Feeding
  <2>2. CASE t.pc \in {"close", "closing"} BY <1>8, <2>2 DEF Carries, Listens, Feeding
  <2> QED BY <1>2, <1>8, <2>1, <2>2 DEF Feeds
<1>15. cursor'[s] = cursor[s] BY <1>1
<1> HIDE DEF m, l, b
<1> QED BY <1>1, <1>6, <1>7, <1>9, <1>10, <1>12, <1>13, <1>14, <1>15, RunningTends DEF l

-----------
(* What waking an object makes of it. *)
LEMMA WokenTended ==
    ASSUME NEW u \in ObjTypes
    PROVE  LET y == Woken(u) IN
           /\ y.bus = u.bus /\ y.closing = u.closing /\ y.answering = u.answering
           /\ y.again => u.again \/ u.state = "idle"
           /\ y.state = "idle" /\ ~y.closing => y.bus = <<>>
<1>1. \/ Woken(u) = u /\ (u.state = "idle" /\ ~u.closing => u.bus = <<>>)
      \/ u.state = "idle" /\ Woken(u) = [u EXCEPT !.state = "running", !.again = TRUE]
  BY DEF Woken
<1>2. CASE Woken(u) = u /\ (u.state = "idle" /\ ~u.closing => u.bus = <<>>) BY <1>2
<1>3. CASE u.state = "idle" /\ Woken(u) = [u EXCEPT !.state = "running", !.again = TRUE]
  BY <1>3 DEF ObjTypes
<1> QED BY <1>1, <1>2, <1>3

(* The end of a run, however it ends: the answer it gave is consumed, and
   what is on the bus starts another run unless the session is paused. *)
LEMMA RunOverTends ==
    ASSUME WInv, LInv, TInv, NEW h \in Leases, Running(h), run' = Settled(h),
           NEW state \in {"paused", "idle"}, obj' = [obj EXCEPT ![h] = EndedRun(@, state)],
           UNCHANGED <<row, lease, calls, stopping, log, cursor, dropped>>,
           \A u \in Sessions \ {Session(h)} : intr'[u] = intr[u]
    PROVE  TInv'
<1> DEFINE s == Session(h)
           stop == Host(h) \in stopping
           r == run[h]
           x == obj[h]
           S == IF Listening(h) /\ x.answering # 0 THEN r.seen \union {x.answering} ELSE r.seen
           u == [x EXCEPT !.state = state, !.aborted = FALSE, !.answering = 0]
<1>1. Feeds(r.pc) /\ r.pc \notin {"none", "release"} BY ObjectIsFed DEF Running
<1>2. /\ run \in [Leases -> RunTypes] /\ obj \in [Leases -> ObjTypes]
      /\ r \in RunTypes /\ x \in ObjTypes
  BY <1>1, Here
<1>3. r.seen \subseteq S /\ (Listens(r.pc) /\ x.answering # 0 => x.answering \in S)
  BY DEF Listens, Listening
<1>4. run' = [run EXCEPT ![h].seen = S] BY DEF Settled
<1> HIDE DEF S
<1>5. PICK t : t = [r EXCEPT !.seen = S] OBVIOUS
<1>6. run' = [run EXCEPT ![h] = t] BY <1>2, <1>4, <1>5
<1>7. /\ t.pc = r.pc /\ t.out = r.out /\ t.items = r.items /\ t.cancelled = r.cancelled
      /\ t.seen = S /\ t.wake = r.wake
  BY <1>2, <1>5 DEF RunTypes
<1>8. u \in ObjTypes /\ u.bus = x.bus /\ u.closing = x.closing /\ u.answering = 0
  BY <1>2 DEF ObjTypes
<1>9. PICK y : y = EndedRun(x, state) OBVIOUS
<1>10. y = Woken(u) BY <1>9 DEF EndedRun
<1> HIDE DEF u
<1>11. /\ y.bus = x.bus /\ y.closing = x.closing /\ y.answering = 0
       /\ y.state = "idle" /\ ~y.closing => y.bus = <<>>
  BY <1>8, <1>10, WokenTended
<1>12. obj' = [obj EXCEPT ![h] = y] BY <1>2, <1>9
<1>13. Tended(stop, r, x) => Tended(stop, t, y)
  <2> SUFFICES ASSUME Tended(stop, r, x) PROVE Tended(stop, t, y)
    OBVIOUS
  <2>1. ASSUME Listens(t.pc), NEW i \in 1..Len(t.out)
        PROVE  t.out[i] \in t.seen \/ t.out[i] = y.answering \/ Has(y.bus, t.out[i])
    <3>1. PICK v : v = t.out[i] OBVIOUS
    <3>2. v \in r.seen \/ v = x.answering \/ Has(x.bus, v) BY <1>7, <2>1, <3>1 DEF Tended
    <3> HIDE DEF r, x
    <3>3. v \in t.seen \/ v = y.answering \/ Has(y.bus, v) BY <1>3, <1>7, <1>11, <2>1, <3>2
    <3> QED BY <3>1, <3>3
  <2> QED BY <1>7, <1>11, <2>1 DEF Tended, Running
<1>14. Carries(log[s], cursor[s], stop, r, x) => Carries(log'[s], cursor'[s], stop, t, y)
  <2> DEFINE l == log[s]
             c == cursor[s]
  <2>1. StaysRun(r, t) /\ y.bus = x.bus /\ (stop => stop) BY <1>3, <1>7, <1>11 DEF StaysRun
  <2>2. \A n \in 1..Len(l) : Fresh(l, c, n) => Fresh(l, c, n) OBVIOUS
  <2> HIDE DEF r, x, l, c, stop
  <2>3. Carries(l, c, stop, r, x) => Carries(l, c, stop, t, y) BY <2>1, <2>2, CarriesStill
  <2> QED BY <2>3 DEF l, c
<1>15. Aside(h) BY DEF Aside
<1>16. \A n \in 1..Len(log'[s]) : Fresh(log'[s], cursor'[s], n) => Fresh(log[s], cursor[s], n)
  OBVIOUS
<1> HIDE DEF u, S
<1> QED BY <1>6, <1>12, <1>13, <1>14, <1>15, <1>16, RunningTends

(* The three ways a run ends. *)
LEMMA EndingTends ==
    ASSUME WInv, LInv, TInv, NEW h \in Leases, TurnPauses(h) \/ TurnEnds(h) \/ ResumeThrows(h)
    PROVE  TInv'
<1> DEFINE s == Session(h)
<1>1. Running(h) /\ run' = Settled(h) /\ UNCHANGED <<row, lease, calls, stopping, log, cursor, dropped>>
  BY DEF TurnPauses, TurnEnds, ResumeThrows, tableVars, logVars, apiVars
<1>2. \A u \in Sessions \ {s} : intr'[u] = intr[u]
  <2>1. intr \in [Sessions -> BOOLEAN] BY DEF WInv, Flagged
  <2>2. intr' = intr \/ \E b : intr' = [intr EXCEPT ![s] = b]
    BY DEF TurnPauses, TurnEnds, ResumeThrows, logVars
  <2> QED BY <2>1, <2>2
<1>3. PICK state \in {"paused", "idle"} : obj' = [obj EXCEPT ![h] = EndedRun(@, state)]
  BY DEF TurnPauses, TurnEnds, ResumeThrows
<1> QED BY <1>1, <1>2, <1>3, RunOverTends

(* A task settles: its notice is on the bus, which the feed loop looks at. *)
LEMMA TaskSettlesTends ==
    ASSUME WInv, LInv, TInv, NEW h \in Leases, TaskSettles(h)
    PROVE  TInv'
<1> DEFINE s == Session(h)
           stop == Host(h) \in stopping
           r == run[h]
           x == obj[h]
           n == Len(log[s]) + 1
           u == [x EXCEPT !.task = FALSE, !.bus = Append(@, n)]
<1>1. /\ x.task /\ ~x.closing /\ log' = [log EXCEPT ![s] = Append(log[s], Record("input", n))]
      /\ obj' = [obj EXCEPT ![h] = Woken(u)]
      /\ run' = [run EXCEPT ![h].settled = Listening(h)]
      /\ UNCHANGED <<tableVars, cursor, intr, apiVars, dropped>>
  BY DEF TaskSettles
<1>2. Feeds(r.pc) /\ r.pc \notin {"none", "release"}
  <2>1. NoObject.task = FALSE BY DEF NoObject
  <2>2. x # NoObject BY <1>1, <2>1
  <2>3. ~Feeds(r.pc) => x = NoObject BY HasNoObject
  <2> QED BY <2>2, <2>3 DEF Feeds, Listens
<1>3. /\ run \in [Leases -> RunTypes] /\ obj \in [Leases -> ObjTypes] /\ log \in [Sessions -> Logs]
      /\ r \in RunTypes /\ x \in ObjTypes /\ log[s] \in Logs /\ Keeps(h) /\ s \in Sessions
  BY <1>2, Here DEF WInv, Typed, LInv
<1>4. n \in Nat /\ x.bus \in Seq(Nat) /\ Append(x.bus, n) \in Seq(Nat)
  BY <1>3 DEF Logs, ObjTypes
<1>5. /\ u \in ObjTypes /\ u.bus = Append(x.bus, n) /\ u.closing = x.closing
      /\ u.answering = x.answering /\ u.again = x.again /\ u.state = x.state
  <2> HIDE DEF n
  <2> QED BY <1>3, <1>4 DEF ObjTypes
<1>6. PICK y : y = Woken(u) OBVIOUS
<1> HIDE DEF u
<1>7. /\ y.bus = Append(x.bus, n) /\ y.closing = FALSE /\ y.answering = x.answering
      /\ y.again => x.again \/ x.state = "idle"
      /\ y.state = "idle" /\ ~y.closing => y.bus = <<>>
  <2>1. x.closing = FALSE BY <1>1, <1>3 DEF ObjTypes
  <2> QED BY <1>5, <1>6, <2>1, WokenTended
<1>8. y.bus # <<>> /\ \A v : Has(x.bus, v) => Has(y.bus, v)
  <2> DEFINE b == x.bus
  <2>1. b \in Seq(Nat) /\ n \in Nat /\ y.bus = Append(b, n) BY <1>4, <1>7
  <2> HIDE DEF b, n
  <2>2. /\ Len(b) \in Nat /\ Len(Append(b, n)) = Len(b) + 1
        /\ \A i \in 1..Len(b) : Append(b, n)[i] = b[i]
    BY <2>1
  <2>3. y.bus # <<>> BY <2>1, <2>2
  <2>4. ASSUME NEW v, NEW i \in 1..Len(b), b[i] = v PROVE Has(y.bus, v)
    <3>1. i \in 1..Len(y.bus) /\ y.bus[i] = v BY <2>1, <2>2, <2>4
    <3> QED BY <3>1 DEF Has
  <2> QED BY <2>3, <2>4 DEF b, Has
<1>9. PICK b : b = Listening(h) OBVIOUS
<1>10. PICK t : t = [r EXCEPT !.settled = b] OBVIOUS
<1>11. /\ run' = [run EXCEPT ![h] = t] /\ obj' = [obj EXCEPT ![h] = y]
  BY <1>1, <1>3, <1>6, <1>9, <1>10
<1>12. t.pc = r.pc /\ t.out = r.out /\ t.cancelled = r.cancelled /\ t.seen = r.seen
  BY <1>3, <1>10 DEF RunTypes
<1>13. Tended(stop, r, x) BY <1>2 DEF TInv, Tends
<1>14. x.state # "running" => x.answering = 0 BY <1>2, <1>3 DEF Keeps, KeepsAs, Asked
<1>15. Tended(stop, t, y)
  <2>1. ASSUME Listens(t.pc), NEW i \in 1..Len(t.out)
        PROVE  t.out[i] \in t.seen \/ t.out[i] = y.answering \/ Has(y.bus, t.out[i])
    <3>1. PICK v : v = t.out[i] OBVIOUS
    <3>2. v \in r.seen \/ v = x.answering \/ Has(x.bus, v)
      BY <1>12, <1>13, <2>1, <3>1 DEF Tended
    <3> QED BY <1>7, <1>8, <1>12, <3>1, <3>2
  <2>2. y.answering # 0 => ~y.again
    <3>1. x.answering # 0 => ~x.again BY <1>13 DEF Tended
    <3>2. x.state = "idle" => x.answering = 0 BY <1>14
    <3> QED BY <1>7, <3>1, <3>2
  <2>3. t.pc \in {"close", "closing"} => stop \/ t.cancelled BY <1>1, <1>12, <1>13 DEF Tended
  <2> QED BY <1>7, <2>1, <2>2, <2>3 DEF Tended
<1>16. stop \/ t.pc \in GoesOn \/ Carries(log'[s], cursor'[s], stop, t, y)
  <2>1. CASE t.pc \in {"close", "closing"}
    <3>1. stop \/ t.cancelled BY <1>1, <1>12, <1>13, <2>1 DEF Tended
    <3> QED BY <2>1, <3>1 DEF Carries
  <2>2. CASE Listens(t.pc) BY <2>2, <1>8 DEF Listens, GoesOn, Carries, Feeding
  <2> QED BY <1>2, <1>12, <2>1, <2>2 DEF Feeds
<1>17. Aside(h)
  <2>1. \A v \in Sessions \ {s} : log'[v] = log[v]
    <3> HIDE DEF n
    <3> QED BY <1>1, <1>3
  <2> QED BY <2>1, <1>1 DEF Aside, tableVars, apiVars
<1>18. Local(log'[s], cursor'[s], intr'[s], stop, t, y)
  BY <1>2, <1>12, <1>16 DEF Local, Carries, GoesOn
<1> HIDE DEF n
<1> QED BY <1>2, <1>11, <1>15, <1>17, <1>18, ActorTends DEF Aside

-----------
(* Nothing is accepted at first. *)
LEMMA TInit == Init => TInv
<1> SUFFICES ASSUME Init PROVE TInv
  OBVIOUS
<1>1. ASSUME NEW h \in Leases PROVE Tends(h)
  <2>1. run[h] = NoRun BY DEF Init
  <2> QED BY <2>1, Nothing DEF Tends
<1>2. ASSUME NEW s \in Sessions PROVE ~Work(log[s], cursor[s])
  <2>1. log[s] = <<>> /\ Len(<<>>) = 0 BY DEF Init
  <2> QED BY <2>1 DEF Work, Fresh
<1> QED BY <1>1, <1>2 DEF TInv

(* The steps of the run under a lease. *)
LEMMA RunStepsTend ==
    ASSUME WInv, LInv, TInv, NEW h \in Leases, RunStep(h)
    PROVE  TInv'
<1>1. CASE Enter(h) BY <1>1, EnterTends
<1>2. CASE Pass(h) \/ StepOverCancels(h) BY <1>2, PassTends
<1>3. CASE ReadNothing(h) \/ ReadWork(h) BY <1>3, ReadTends
<1>4. CASE Open(h) BY <1>4, OpenTends
<1>5. CASE Fails(h) BY <1>5, FailsTends
<1>6. CASE Step(h) BY <1>6, StepTends
<1>7. CASE FeedCancel(h) BY <1>7, FeedCancelTends
<1>8. CASE CursorStored(h) \/ FeedPaused(h) BY <1>8, HoldingsTend
<1>9. CASE Feed(h) BY <1>9, FeedTends
<1>10. CASE \E settled \in {"idle", "woken"} : Wakes(h, settled) BY <1>10, WakesTends
<1>11. CASE HoldEnds(h) BY <1>11, HoldEndsTends
<1>12. CASE CancelSettles(h) BY <1>12, CancelSettlesTends
<1>13. CASE Close(h) BY <1>13, CloseTends
<1>14. CASE Closed(h) BY <1>14, ClosedTends
<1>15. CASE After(h) BY <1>15, AfterTends
<1>16. CASE Finish(h) BY <1>16, FinishTends
<1>17. CASE Done(h) BY <1>17, DoneTends
<1> QED BY <1>1, <1>2, <1>3, <1>4, <1>5, <1>6, <1>7, <1>8, <1>9, <1>10, <1>11, <1>12, <1>13,
           <1>14, <1>15, <1>16, <1>17 DEF RunStep

(* The steps of the run in flight. *)
LEMMA TurnStepsTend ==
    ASSUME WInv, LInv, TInv, NEW h \in Leases, TurnStep(h)
    PROVE  TInv'
<1>1. CASE TurnTakes(h) BY <1>1, TurnTakesTends
<1>2. CASE TurnWrites(h) \/ TaskSpawns(h) BY <1>2, TurnsOnTend
<1>3. CASE TurnPauses(h) \/ TurnEnds(h) \/ ResumeThrows(h) BY <1>3, EndingTends
<1>4. CASE TaskSettles(h) BY <1>4, TaskSettlesTends
<1> QED BY <1>1, <1>2, <1>3, <1>4 DEF TurnStep

(* Every step keeps accepted work in somebody's hands. *)
LEMMA TNext ==
    ASSUME WInv, LInv, TInv, [Next /\ UNCHANGED scene]_<<vars, scene>>
    PROVE  TInv'
<1>1. CASE UNCHANGED vars
  <2>1. UNCHANGED <<tableVars, logVars, stopping, run, obj, dropped>> BY <1>1 DEF vars, logVars
  <2> QED BY <2>1, NothingTends
<1>2. CASE Next
  <2>1. ASSUME NEW h \in Leases, TurnStep(h) PROVE TInv' BY <2>1, TurnStepsTend
  <2>2. ASSUME NEW h \in Leases, RunStep(h) PROVE TInv' BY <2>2, RunStepsTend
  <2>3. ASSUME NEW h \in Leases, Heartbeat(h) \/ CallFails(h) PROVE TInv' BY <2>3, CallsTend
  <2>4. ASSUME NEW h \in Leases, NudgeRaises(h) PROVE TInv' BY <2>4, NudgeTends
  <2>5. ASSUME NEW h \in Leases, NEW beat \in Beats, BeatAnswered(h, beat) PROVE TInv'
    BY <2>5, BeatTends
  <2>6. ASSUME NEW s \in Sessions, ServiceStep(s) \/ NudgeLost(s) PROVE TInv'
    BY <2>6, ServiceTends
  <2>7. ASSUME NEW h \in Leases, NEW o \in Owners, NEW s \in Sessions,
               ClaimRun(h, o, s) \/ NudgeTakes(h, o, s)
        PROVE  TInv'
    <3>1. PICK looped \in BOOLEAN : Started(h, o, s, looped) BY <2>7 DEF ClaimRun, NudgeTakes
    <3>2. (Claim(h, o, s) \/ Acquire(h, o, s)) /\ UNCHANGED <<logVars, stopping, obj>>
      BY <2>7 DEF ClaimRun, NudgeTakes, apiVars
    <3> QED BY <3>1, <3>2, StartTends
  <2>8. ASSUME NEW o \in Owners, Stop(o) PROVE TInv' BY <2>8, StopTends
  <2>9. ASSUME NEW o \in Owners, WorkerCrash(o) PROVE TInv' BY <2>9, WorkerCrashTends
  <2>10. ASSUME TableStep PROVE TInv' BY <2>10, TableTends
  <2> QED BY <1>2, <2>1, <2>2, <2>3, <2>4, <2>5, <2>6, <2>7, <2>8, <2>9, <2>10 DEF Next
<1> QED BY <1>1, <1>2

(* The invariant of accepted work. *)
LEMMA MindedInvariant == Spec /\ [](~May("lapse")) => []TInv
BY WorkerInvariant, InTimeInvariant, TInit, TNext, PTL DEF Spec

(* Whoever minds a session whose row is free is one of those it names. *)
LEMMA MindedIsNotForgotten ==
    ASSUME WInv, LInv, TInv
    PROVE  NothingForgotten
<1> SUFFICES ASSUME NEW s \in Sessions, Forgotten(s)
             PROVE  \/ intr[s] \/ dropped[s] # "no"
                    \/ \E h \in Leases : Session(h) = s /\ "woken" \in calls[h]
  BY DEF NothingForgotten
<1>1. ~row[s].woken /\ row[s].owner = NoOwner BY DEF Forgotten
<1>2. Work(log[s], cursor[s])
  <2>1. cursor[s] \in Nat /\ Len(log[s]) \in Nat BY DEF WInv, Typed, Logs
  <2>2. PICK p \in (cursor[s] + 1)..Len(log[s]) : Kind(s, p) \in InboxKinds
    BY DEF Forgotten, UnreadInbox
  <2>3. p \in 1..Len(log[s]) /\ cursor[s] < p BY <2>1, <2>2
  <2> QED BY <2>2, <2>3 DEF Work, Fresh, Kind
<1>3. ~Carried(s)
  <2> SUFFICES ASSUME NEW h \in Leases, Session(h) = s,
                      Carries(log[s], cursor[s], Host(h) \in stopping, run[h], obj[h])
               PROVE  FALSE
    BY DEF Carried
  <2>1. run[h].pc \notin {"none", "release"} BY CarriesThere
  <2>2. row[s].owner = lease[h].owner /\ lease[h].owner # NoOwner BY <2>1, HoldsRow
  <2> QED BY <2>2, <1>1
<1> QED BY <1>1, <1>2, <1>3 DEF TInv, Minded, Told, Asking, Abandoned

(* Accepted work is never forgotten: for any number of workers, leases and
   sessions, with crashes, stops and failing queries, as long as heartbeats
   keep up with the clock.  A record nobody has read has its row woken by
   the append (work.ts), or a run holds the row that reads the inbox again
   before it returns (session-worker.ts:233-283), or the clock takes the row
   from a dead holder, or the session waits for an answer, or its wake is
   lost in one of the four ways the code has of losing one, among them a
   page full of other records, read as the end of the inbox (inbox.ts:80). *)
THEOREM NothingForgottenInTime ==
    Spec /\ [](~May("lapse")) => []NothingForgotten
BY WorkerInvariant, InTimeInvariant, MindedInvariant, MindedIsNotForgotten, PTL
=============================================================================
