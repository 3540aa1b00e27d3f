------------------------------- MODULE MCPartSize -------------------------------
(* Instances of PartSize for TLC, with small limits in place of S3's.       *)
EXTENDS PartSize

SmallSizes == 0..30
===============================================================================
