---------------------------- MODULE MCDiskStore -----------------------------
(* Instances of DiskStore for TLC.                                         *)
EXTENDS DiskStore, TLC

CONSTANTS t1, t2
=============================================================================
