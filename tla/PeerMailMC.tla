----------------------------- MODULE PeerMailMC -----------------------------
(* Two messages to one member, a teammate with a session of its own or a
   subagent that made a team. *)
EXTENDS PeerMail, TLC

CONSTANTS dba, m1, m2

TwoForOne == [m \in {m1, m2} |-> dba]
Alike == Permutations({m1, m2})

Mails(mail, subagents, capacity, may, maxCrashes, maxFaults) ==
    [mail |-> mail, subagents |-> subagents, capacity |-> capacity, may |-> may,
     crashes |-> maxCrashes, faults |-> maxFaults]

\* A mailbox that is full: one message is on its way, the other is refused.
Full == Mails({m1, m2}, {}, 1, {"disband"}, 0, 0)
\* A batch of two in an inbox call of a subagent, a close, and a settle that throws.
Batch == Mails({m1, m2}, {dba}, 2, {"close"}, 0, 1)
\* One message, a crash and a failure, for either kind of member.
Restart(mail, subagents) == Mails(mail, subagents, 1, {"close", "disband"}, 1, 1)

AllScenes ==
    {Full, Batch} \cup
    {Restart(mail, subagents) : mail \in {{m1}, {m2}}, subagents \in {{}, {dba}}}

\* For what the package's README promises.
RestartOnly == {Restart({m1}, {}), Restart({m2}, {})}
=============================================================================
