----------------------------- MODULE MCLockout -----------------------------
(***************************************************************************)
(* A small instance of Lockout: a schedule of two growing steps, so that *)
(* its cap is reached, and a cooldown longer than each of them.            *)
(***************************************************************************)
EXTENDS Lockout, TLC

CONSTANTS t1, t2

MCCallers  == {t1, t2}
MCSchedule == <<1, 2>>

CallerSymmetry == Permutations(MCCallers)

=============================================================================
