------------------------------ MODULE IpcCalls ------------------------------
(***************************************************************************)
(* What a request over the daemon's socket promises its caller, without    *)
(* saying how: a request is carried out at most once.                      *)
(* An answer means that it was carried out, a refusal that it was not and  *)
(* will not be; an error leaves open whether it was, but not whether it    *)
(* still will be.  Only a caller that went away without waiting for the    *)
(* outcome may have its request carried out afterwards.                    *)
(*                                                                         *)
(* IpcChannel, where frames travel in pieces between a client and a daemon *)
(* either of which may die, is shown to implement this specification.      *)
(***************************************************************************)
EXTENDS Naturals

CONSTANT Calls      \* the requests made, each by a client of its own

VARIABLES
    outcome,    \* per call: what its caller knows
    runs        \* per call: how often it was carried out

vars == <<outcome, runs>>

Init ==
    /\ outcome = [c \in Calls |-> "not_made"]
    /\ runs = [c \in Calls |-> 0]

Learn(c, known) ==
    outcome' = [outcome EXCEPT ![c] = known] /\ UNCHANGED runs

Make(c) == outcome[c] = "not_made" /\ Learn(c, "open")

CarryOut(c) ==
    /\ outcome[c] \in {"open", "interrupted"}
    /\ runs[c] = 0
    /\ runs' = [runs EXCEPT ![c] = 1]
    /\ UNCHANGED outcome

Answer(c) == outcome[c] = "open" /\ runs[c] = 1 /\ Learn(c, "answered")

Refuse(c) ==
    outcome[c] \in {"not_made", "open"} /\ runs[c] = 0 /\ Learn(c, "refused")

Err(c) == outcome[c] = "open" /\ Learn(c, "error")

Interrupt(c) == outcome[c] = "open" /\ Learn(c, "interrupted")

Next ==
    \E c \in Calls : Make(c) \/ CarryOut(c) \/ Answer(c) \/ Refuse(c)
                       \/ Err(c) \/ Interrupt(c)

Spec == Init /\ [][Next]_vars

=============================================================================
