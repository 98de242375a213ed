---------------------------- MODULE DenylistMC ----------------------------
(* Instances of Denylist for TLC.                                          *)
EXTENDS Denylist, TLC

============================================================================
