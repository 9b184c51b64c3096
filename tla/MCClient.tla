------------------------------ MODULE MCClient ------------------------------
(***************************************************************************)
(* Small instances of Client: two tasks that call with one query.  What the *)
(* reply is does not matter to the client's own code, and one command is   *)
(* enough to repeat a line, to reconnect and to be refused.                *)
(***************************************************************************)
EXTENDS Client, TLC

CONSTANTS t1, t2, OutletStatus, StatusName

MCTasks   == {t1, t2}
MCQueries == {OutletStatus}
MCSets    == {}
MCNameOf  == OutletStatus :> StatusName

TaskSymmetry == Permutations(MCTasks)

=============================================================================
