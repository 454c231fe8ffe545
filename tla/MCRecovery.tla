------------------------------ MODULE MCRecovery ------------------------------
(* Small instances of the recovery gate and of the gate with the monitor:    *)
(* one caller, one script.                                                   *)
EXTENDS MonitoredRecovery

CONSTANTS p1, p2, m1
=============================================================================
