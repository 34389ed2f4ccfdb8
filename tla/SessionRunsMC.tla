--------------------------- MODULE SessionRunsMC ---------------------------
(* Scenes of SessionRuns for TLC: see the README for what each one is for. *)
EXTENDS SessionRuns

Limits(limits) == [doing \in Doings |-> IF doing \in DOMAIN limits THEN limits[doing] ELSE 0]

\* Prompts, messages and a cancel at any moment.
Talking == [limit |-> Limits([message |-> 2, prompt |-> 1, cancel |-> 1]), may |-> {"handoff"}]
\* A prompt and a wake queue for the lock.
Queueing == [limit |-> Limits([message |-> 1, prompt |-> 2, cancel |-> 1]), may |-> {}]
\* Pauses, and resumes next to prompts.
Pausing == [limit |-> Limits([message |-> 1, prompt |-> 2, resume |-> 2]), may |-> {"pause"}]
\* A live approver in the same turn.
Approving == [limit |-> Limits([message |-> 1, prompt |-> 1, ask |-> 2, resume |-> 1]),
              may |-> {"pause", "live"}]
\* A coordinator holds the session, which may close meanwhile.
Holding == [limit |-> Limits([message |-> 1, resume |-> 1, hold |-> 1, close |-> 1]),
            may |-> {"pause"}]
HoldingAgain == [limit |-> Limits([message |-> 1, prompt |-> 1, hold |-> 2, close |-> 1]),
                 may |-> {}]
\* Whatever can fail does, and guardrails block.
Failing == [limit |-> Limits([message |-> 1, prompt |-> 1, fault |-> 2, tripwire |-> 1]),
            may |-> {"handoff", "flush"}]
\* Pauses and approvals that are cut short.
Breaking == [limit |-> Limits([prompt |-> 1, resume |-> 1, ask |-> 1, fault |-> 1, cancel |-> 1]),
             may |-> {"pause", "live", "handoff"}]

\* Guardrails and failing flushes around pauses.
Blocking == [limit |-> Limits([prompt |-> 1, resume |-> 2, tripwire |-> 1, fault |-> 1]),
             may |-> {"pause", "flush"}]
\* A hook claims a failure of the tools while messages wait.
Claiming == [limit |-> Limits([message |-> 2, prompt |-> 1, fault |-> 1]), may |-> {"claim"}]

AllScenes == {Talking, Queueing, Pausing, Approving, Holding, HoldingAgain,
              Failing, Breaking, Blocking, Claiming}

\* For what the code does not keep: a prompt, and two holds.
Holds == {[limit |-> Limits([prompt |-> 1, hold |-> 2]), may |-> {}]}
=============================================================================
