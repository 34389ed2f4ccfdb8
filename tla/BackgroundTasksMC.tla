------------------------- MODULE BackgroundTasksMC -------------------------
(* Scenes of BackgroundTasks for TLC: see the README for what each is for.  *)
EXTENDS BackgroundTasks

CONSTANTS t1, t2

Scene(crashes, closes, prompts, mode, tasks, may) ==
    [crashes |-> crashes, closes |-> closes, prompts |-> prompts, mode |-> mode,
     tasks |-> tasks, may |-> may]

All == {"attach", "stop", "wait"}

\* Everything that can be done to one task, and a process that dies, and dies
\* again while it recovers.
Dying == {Scene(2, 0, 1, "committed", {t1}, All), Scene(1, 0, 1, "immediate", {t1}, All)}
\* Two tasks whose writes, notices and reconciliation share their queues.
Sharing == {Scene(1, 0, 0, "committed", {t1, t2}, {"attach"}),
            Scene(0, 0, 0, "immediate", {t1, t2}, {"attach", "stop"})}
\* The session is closed and reopened while its tasks go on.
Closing == {Scene(0, 1, 1, "committed", {t1}, All), Scene(1, 1, 0, "committed", {t1}, {})}
AllScenes == Dying \union Sharing \union Closing
=============================================================================
