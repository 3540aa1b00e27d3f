---------------------------- MODULE MCZfsIncremental ----------------------------
(* Instances of ZfsIncremental for TLC: bounds and faults are in the cfgs.  *)
EXTENDS ZfsIncremental
===============================================================================
