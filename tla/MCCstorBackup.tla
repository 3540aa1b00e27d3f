----------------------------- MODULE MCCstorBackup -----------------------------
(* Instances of CstorBackup for TLC: bounds and faults are in the cfgs.     *)
EXTENDS CstorBackup
===============================================================================
