----------------------------- MODULE MCCstorRestore -----------------------------
(* Instances of CstorRestore for TLC: bounds and faults are in the cfgs.    *)
EXTENDS CstorRestore

CONSTANTS r1, r2
===============================================================================
