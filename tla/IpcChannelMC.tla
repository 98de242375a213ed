---------------------------- MODULE IpcChannelMC ----------------------------
(* Instances of IpcChannel for TLC.                                        *)
EXTENDS IpcChannel

(* A request and a response at the limit, a request over it, a response    *)
(* over it, and a request the daemon does not know.                        *)
MCRequests ==
    {[size |-> MaxFrame, known |-> TRUE, answer |-> MaxFrame],
     [size |-> MaxFrame + 1, known |-> TRUE, answer |-> 1],
     [size |-> 1, known |-> TRUE, answer |-> MaxFrame + 1],
     [size |-> 1, known |-> FALSE, answer |-> 1]}
============================================================================
