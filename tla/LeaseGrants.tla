---------------------------- MODULE LeaseGrants ----------------------------
(***************************************************************************)
(* What the work table promises about leases, without clocks, rows or      *)
(* messages (the contract of WorkLease and SessionWork in                  *)
(* managed-agents/src/server/work.ts).  Each session is granted over and   *)
(* over; a grant is named by its fence.  At any moment at most one grant   *)
(* of a session is held, and it is the last one made: an older one never   *)
(* comes back.                                                             *)
(***************************************************************************)
EXTENDS Naturals

CONSTANT Sessions

VARIABLES
    epoch,  \* grants of a session so far: the fence of the last one
    held    \* the grants of a session that are held

grantVars == <<epoch, held>>

GrantInit ==
    /\ epoch = [s \in Sessions |-> 0]
    /\ held = [s \in Sessions |-> {}]

(* Only a session nobody holds is granted, and under a new name.           *)
Grant(s) ==
    /\ held[s] = {}
    /\ epoch' = [epoch EXCEPT ![s] = @ + 1]
    /\ held' = [held EXCEPT ![s] = {epoch[s] + 1}]

(* A holder that let its lease lapse renews before anybody took it.        *)
Regain(s) ==
    /\ held[s] = {}
    /\ epoch[s] > 0
    /\ held' = [held EXCEPT ![s] = {epoch[s]}]
    /\ UNCHANGED epoch

(* Leases end: given back, found lost, run out, their process dead.        *)
End(S) ==
    /\ held' = [s \in Sessions |-> IF s \in S THEN {} ELSE held[s]]
    /\ UNCHANGED epoch

GrantNext ==
    \/ \E s \in Sessions : Grant(s)
    \/ \E s \in Sessions : Regain(s)
    \/ \E S \in SUBSET Sessions : End(S)

GrantSpec == GrantInit /\ [][GrantNext]_grantVars
=============================================================================
