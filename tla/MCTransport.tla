---------------------------- MODULE MCTransport ----------------------------
(***************************************************************************)
(* Small instances of Transport: one query and one set of different names. *)
(* Two commands are enough for every way a line can be taken or skipped:   *)
(* the query's late reply is skipped by the set and taken by the query     *)
(* sent again, a push is skipped by the query and taken by the set, and a  *)
(* late OK or #Error is taken by both.                                     *)
(***************************************************************************)
EXTENDS Transport, TLC

CONSTANTS t1, t2,               \* tasks
          OutletStatus,         \* "?OutletStatus"
          OutletSet,            \* "!OutletSet=..."
          StatusName, SetName   \* their names on the wire

MCTasks   == {t1, t2}
MCQueries == {OutletStatus}
MCSets    == {OutletSet}
MCNameOf  == (OutletStatus :> StatusName) @@ (OutletSet :> SetName)

TaskSymmetry == Permutations(MCTasks)

=============================================================================
