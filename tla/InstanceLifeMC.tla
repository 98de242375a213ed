-------------------------- MODULE InstanceLifeMC --------------------------
(* Instances of InstanceLife for TLC.                                      *)
EXTENDS InstanceLife, TLC

============================================================================
