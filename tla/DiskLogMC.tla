------------------------------ MODULE DiskLogMC ------------------------------
(* Session directories: new and old ones, one store and two.               *)
EXTENDS DiskLog

Sub == "sub"

Scene(shards, stores, n) ==
    [shards |-> shards, stores |-> stores, crashes |-> n, old |-> FALSE,
     file |-> [sh \in shards |-> <<>>], index |-> [sh \in shards |-> NoIndex]]

(* One store, two addresses; the process may die twice.                    *)
Alone2 == Scene({Main, Sub}, {"worker"}, 2)

Long(seq, cp) == [Piece(2 * seq - 2, seq, -seq, cp) EXCEPT !.size = 2]

(***************************************************************************)
(* A log of an older wire version whose last write was cut short, with a   *)
(* checkpoint in the middle; the first append rewrites it.                 *)
(***************************************************************************)
Legacy ==
    [Scene({Main}, {"worker"}, 2) EXCEPT
       !.old = TRUE,
       !.file = [sh \in {Main} |->
          <<Long(1, FALSE), Long(2, TRUE), Long(3, FALSE),
            [Long(4, FALSE) EXCEPT !.full = FALSE, !.nl = FALSE]>>],
       !.index = [sh \in {Main} |-> [seq |-> 2, off |-> 2]]]

(* The worker's store and the API's, in one process that goes on; on a log *)
(* of the older version, which either of them rewrites, it may die once.   *)
Shared == Scene({Main}, {"worker", "api"}, 0)
LegacyShared == [Legacy EXCEPT !.stores = {"worker", "api"}, !.crashes = 1]

AllScenes == {Alone2, Legacy, Shared, LegacyShared}
SharedOnly == {Shared}
AloneOnly == {Alone2}
=============================================================================
