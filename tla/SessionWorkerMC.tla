-------------------------- MODULE SessionWorkerMC --------------------------
(***************************************************************************)
(* Small instances of SessionWorker: the scenes it is checked in.  A       *)
(* behaviour plays one of them, so that each combines the happenings that  *)
(* interact, and the state spaces of the others add up.                    *)
(***************************************************************************)
EXTENDS SessionWorker

CONSTANTS o1, o2, h1, h2

Alone(features, takes, inputs, controls) ==
    [owners |-> {o1}, leases |-> {h1}, features |-> features, takes |-> takes,
     inputs |-> inputs, controls |-> controls, other |-> 0]

(* Two messages, and a cancel or an answer, as wakes come in.              *)
Feeding == Alone({"beat", "cancel", "pause"}, 2, 2, 1)
(* A background task that outlives its turn.                               *)
Tasks == Alone({"task", "nudge"}, 2, 2, 1)
(* Queries, opens and resumes fail.                                        *)
Errors == Alone({"beat", "error", "pause"}, 2, 1, 1)
(* The worker dies at any moment, with two messages that wait, and with a  *)
(* cancel among them that no heartbeat tells the run of.                   *)
Crashes == Alone({"beat", "crash"}, 3, 2, 0)
CrashesCancelled == Alone({"crash", "cancel"}, 3, 2, 1)
(* A run that takes over from a dead one may fail before anything else.    *)
Takeovers == Alone({"beat", "crash", "error"}, 3, 1, 0)
(* Two workers, one of which is stopped, and nudges.                       *)
Stops == [Alone({"beat", "stop", "nudge", "cancel"}, 2, 1, 1) EXCEPT !.owners = {o1, o2}]
(* One worker loses its lease to itself, while its turn goes on writing.   *)
Overlaps == [Alone({"beat", "lapse"}, 2, 1, 0) EXCEPT !.leases = {h1, h2}, !.other = 1]

(* Pages so small that a read ends before the inbox does.                  *)
Pages == [Alone({"beat", "nudge", "short"}, 2, 2, 0) EXCEPT !.other = 1]

SafetyScenes ==
    {Feeding, Tasks, Errors, Crashes, CrashesCancelled, Takeovers, Stops, Overlaps, Pages}

(* What may keep a run from giving its lease back, an open turn from its   *)
(* end and a message from its turn: a pause, a cancel, a crash, a task,    *)
(* failures, and a worker that takes its session again while its earlier   *)
(* run is inside a turn.                                                   *)
LiveScenes ==
    {Alone({"beat", "cancel", "pause"}, 2, 1, 1),
     Alone({"beat", "crash", "cancel"}, 3, 1, 1),
     Alone({"task"}, 2, 2, 0),
     Alone({"beat", "error", "pause"}, 2, 1, 1),
     [Overlaps EXCEPT !.features = {"lapse", "error", "pause"}, !.controls = 1, !.other = 0]}
=============================================================================
