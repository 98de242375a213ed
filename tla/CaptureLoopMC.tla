--------------------------- MODULE CaptureLoopMC ---------------------------
(* Instances of CaptureLoop for TLC.                                       *)
EXTENDS CaptureLoop, TLC

============================================================================
