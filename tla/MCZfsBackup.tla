----------------------------- MODULE MCZfsBackup -----------------------------
(* Small instances of ZfsBackup for TLC.                                   *)
EXTENDS ZfsBackup, TLC
===============================================================================
