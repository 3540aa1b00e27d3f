------------------------------ MODULE MCZfsRestore ------------------------------
(* Instances of ZfsRestore for TLC: bounds and faults are in the cfgs.      *)
EXTENDS ZfsRestore
===============================================================================
