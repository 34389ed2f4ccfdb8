---------------------------- MODULE EventStreamMC ----------------------------
(* The event stream of one session, watched by one client.                 *)
EXTENDS EventStream

BothWires == {"memory", "redis"}
=============================================================================
