----------------------------- MODULE MCSnapshot -----------------------------
(***************************************************************************)
(* Two tasks, two outlets, a firmware that answers what the WB-800 does and  *)
(* one that does what the WB-250 does.                                     *)
(***************************************************************************)
EXTENDS Snapshot, TLC

CONSTANTS t1, t2

MCTasks     == {t1, t2}
MCFirmwares == {{"PowerStatus", "OutletPowerStatus", "UPSStatus", "UPSConnection"},
                {"AutoReboot"}}

TaskSymmetry == Permutations(MCTasks)

=============================================================================
