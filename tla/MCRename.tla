------------------------------ MODULE MCRename ------------------------------
(***************************************************************************)
(* A small instance of Rename: two tasks, two or three outlets of which the *)
(* firmware reports two, one name of each kind.                            *)
(***************************************************************************)
EXTENDS Rename, TLC

CONSTANTS t1, t2, Lamp, DishHopper, NoName

MCTasks   == {t1, t2}
MCPlain   == {Lamp}
MCSpaced  == {DishHopper}
MCFactory == [i \in 1 .. N |-> IF i = 1 THEN NoName ELSE i]
MCDefault == [i \in 1 .. N |-> 100 + i]

TaskSymmetry == Permutations(MCTasks)

=============================================================================
