----------------------------- MODULE StartUpMC -----------------------------
(* Instances of StartUp for TLC.                                           *)
EXTENDS StartUp, TLC

============================================================================
