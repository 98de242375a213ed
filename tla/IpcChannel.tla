----------------------------- MODULE IpcChannel -----------------------------
(***************************************************************************)
(* The daemon's socket: the client of clipboard-ui src/client.rs, which    *)
(* opens a connection for one request, and the connection tasks of         *)
(* clipboard-daemon src/server.rs with the framing of src/frame.rs.        *)
(*                                                                         *)
(* A frame is its 4-byte length and its body.  It travels in three pieces, *)
(* so that either end may find, and leave, a part of the length, the       *)
(* length without the body, or the whole frame; a socket buffer holds a    *)
(* few pieces.  Either end may go away at any step, and the daemon may be  *)
(* told to stop, be killed and be started again.                           *)
(***************************************************************************)
EXTENDS Naturals

CONSTANTS
    Calls,      \* invocations of the client, one request each
    Requests,   \* [size, known, answer]: length of the request, is it one the
                \* daemon can parse?, length of its response
    NoRequest,  \* the client has not begun
    MaxFrame,   \* MAX_FRAME_BYTES
    Capacity    \* pieces a socket buffer holds

ASSUME RequestAssumption ==
    /\ Requests \subseteq [size : Nat, known : BOOLEAN, answer : Nat]
    /\ NoRequest \notin Requests

ASSUME LimitAssumption == MaxFrame \in Nat /\ Capacity \in Nat \ {0}

VARIABLES
    daemon,     \* "up", "stopping" (no longer accepting), or "down"
    client,     \* per call: the step of send(), or its result
    request,    \* per call: what it asks
    task,       \* per call: the step of the connection's task in the daemon
    reqSent, reqRead,   \* pieces of the request written, and read
    ansSent, ansRead,   \* pieces of the response written, and read
    executed    \* per call: how often its handler ran

wire == <<reqSent, reqRead, ansSent, ansRead>>
vars == <<daemon, client, request, task, wire, executed>>

(* A frame in pieces: 1 is a part of the length, 2 the length, 3 the body. *)
Length == 2
Frame == 3

Results == {"answer", "bad_request", "too_large", "no_connection",
            "error", "interrupted"}

Init ==
    /\ daemon = "up"
    /\ client = [c \in Calls |-> "idle"]
    /\ request = [c \in Calls |-> NoRequest]
    /\ task = [c \in Calls |-> "none"]
    /\ reqSent = [c \in Calls |-> 0] /\ reqRead = [c \in Calls |-> 0]
    /\ ansSent = [c \in Calls |-> 0] /\ ansRead = [c \in Calls |-> 0]
    /\ executed = [c \in Calls |-> 0]

----------------------------------------------------------------------------
(* Operators of the code. *)

(* The end of send() closes the client's end of the connection, the end of *)
(* the task the daemon's.                                                  *)
ClientClosed(c) == client[c] \in Results
TaskClosed(c) == task[c] \in {"ended", "rejected"}

(* write_frame of both ends: nothing is written of a larger frame. *)
MayWrite(size) == size <= MaxFrame

MayReadBelow(size) == size < MaxFrame

(* read_frame of both ends: the length is looked at before the body. *)
MayRead(size) == size <= MaxFrame

Room(sent, read) == sent < read + Capacity

(* A request that does not parse is answered by a short bad_request. *)
AnswerFits(c) == request[c].known => MayWrite(request[c].answer)
AnswerReadable(c) == request[c].known => MayRead(request[c].answer)

----------------------------------------------------------------------------
(* The client. *)

(* UnixStream::connect: into the backlog of a daemon that listens. *)
Connect(c, r) ==
    /\ client[c] = "idle"
    /\ request' = [request EXCEPT ![c] = r]
    /\ \/ /\ daemon = "up"
          /\ client' = [client EXCEPT ![c] = "sending"]
          /\ task' = [task EXCEPT ![c] = "queued"]
       \/ /\ client' = [client EXCEPT ![c] = "no_connection"]
          /\ UNCHANGED task
    /\ UNCHANGED <<daemon, wire, executed>>

(* The request is over the limit: an error, and nothing is sent. *)
Withhold(c) ==
    /\ client[c] = "sending" /\ ~MayWrite(request[c].size)
    /\ client' = [client EXCEPT ![c] = "too_large"]
    /\ UNCHANGED <<daemon, request, task, wire, executed>>

Write(c) ==
    /\ client[c] = "sending" /\ MayWrite(request[c].size)
    /\ ~TaskClosed(c) /\ Room(reqSent[c], reqRead[c])
    /\ reqSent' = [reqSent EXCEPT ![c] = @ + 1]
    /\ client' = [client EXCEPT ![c] = IF reqSent'[c] = Frame THEN "receiving"
                                       ELSE "sending"]
    /\ UNCHANGED <<daemon, request, task, reqRead, ansSent, ansRead, executed>>

(* The response arrives; too long a length is an error, and so is a        *)
(* connection that ends before the body.                                   *)
Receive(c) ==
    /\ client[c] = "receiving" /\ ansRead[c] < ansSent[c]
    /\ ansRead' = [ansRead EXCEPT ![c] = @ + 1]
    /\ client' = [client EXCEPT ![c] =
           CASE ansRead'[c] = Length /\ ~AnswerReadable(c) -> "error"
             [] ansRead'[c] = Frame ->
                  IF request[c].known THEN "answer" ELSE "bad_request"
             [] OTHER -> "receiving"]
    /\ UNCHANGED <<daemon, request, task, reqSent, reqRead, ansSent, executed>>

HangUpRetrying(c) ==
    /\ client[c] \in {"sending", "receiving"}
    /\ TaskClosed(c) /\ ansRead[c] = ansSent[c]
    /\ client' = [client EXCEPT ![c] = "idle"]
    /\ reqSent' = [reqSent EXCEPT ![c] = 0] /\ reqRead' = [reqRead EXCEPT ![c] = 0]
    /\ ansSent' = [ansSent EXCEPT ![c] = 0] /\ ansRead' = [ansRead EXCEPT ![c] = 0]
    /\ UNCHANGED <<daemon, request, task, executed>>

(* The daemon's end is closed, and all it sent was read. *)
HangUp(c) ==
    /\ client[c] \in {"sending", "receiving"}
    /\ TaskClosed(c) /\ ansRead[c] = ansSent[c]
    /\ client' = [client EXCEPT ![c] = "error"]
    /\ UNCHANGED <<daemon, request, task, wire, executed>>

(* The user interrupts the client. *)
Interrupt(c) ==
    /\ client[c] \in {"sending", "receiving"}
    /\ client' = [client EXCEPT ![c] = "interrupted"]
    /\ UNCHANGED <<daemon, request, task, wire, executed>>

----------------------------------------------------------------------------
(* The daemon's task for a connection. *)

TaskGoes(c, here, there) ==
    task[c] = here /\ task' = [task EXCEPT ![c] = there]

Accept(c) ==
    /\ daemon = "up"
    /\ TaskGoes(c, "queued", "reading")
    /\ UNCHANGED <<daemon, client, request, wire, executed>>

(* The peer's uid is another, or cannot be told. *)
TurnAway(c) ==
    /\ daemon = "up"
    /\ TaskGoes(c, "queued", "ended")
    /\ UNCHANGED <<daemon, client, request, wire, executed>>

ReadOfAnyLength(c) ==
    /\ \/ reqRead[c] < reqSent[c]
       \/ reqRead[c] = Length /\ ClientClosed(c)
    /\ reqRead' = [reqRead EXCEPT ![c] = @ + 1]
    /\ TaskGoes(c, "reading", IF reqRead'[c] = Frame THEN "serving" ELSE "reading")
    /\ UNCHANGED <<daemon, client, request, reqSent, ansSent, ansRead, executed>>

(* read_frame: the length is checked, then the whole body read. *)
Read(c) ==
    /\ reqRead[c] < reqSent[c]
    /\ reqRead' = [reqRead EXCEPT ![c] = @ + 1]
    /\ TaskGoes(c, "reading",
           CASE reqRead'[c] = Length /\ ~MayRead(request[c].size) -> "rejected"
             [] reqRead'[c] = Frame                               -> "serving"
             [] OTHER                                             -> "reading")
    /\ UNCHANGED <<daemon, client, request, reqSent, ansSent, ansRead, executed>>

ReadEndsInFrame(c) ==
    /\ ClientClosed(c) /\ reqRead[c] = reqSent[c]
    /\ TaskGoes(c, "reading", "ended")
    /\ UNCHANGED <<daemon, client, request, wire, executed>>

(* The client's end is closed: None before the length is complete, else an *)
(* error; the loop is over in either case.  So it is on the next turn,     *)
(* since the client sends one request.                                     *)
ReadEnds(c) ==
    /\ ClientClosed(c) /\ reqRead[c] = reqSent[c]
    /\ TaskGoes(c, "reading", "ended") \/ TaskGoes(c, "waiting", "ended")
    /\ UNCHANGED <<daemon, client, request, wire, executed>>

(* The request is parsed and its handler run, without an await.  A response *)
(* over the limit is not sent; the connection is closed instead.            *)
Dispatch(c) ==
    /\ TaskGoes(c, "serving", IF AnswerFits(c) THEN "writing" ELSE "ended")
    /\ executed' = IF request[c].known THEN [executed EXCEPT ![c] = @ + 1]
                   ELSE executed
    /\ UNCHANGED <<daemon, client, request, wire>>

Respond(c) ==
    /\ ~ClientClosed(c) /\ Room(ansSent[c], ansRead[c])
    /\ ansSent' = [ansSent EXCEPT ![c] = @ + 1]
    /\ TaskGoes(c, "writing", IF ansSent'[c] = Frame THEN "waiting" ELSE "writing")
    /\ UNCHANGED <<daemon, client, request, reqSent, reqRead, ansRead, executed>>

(* The client is gone. *)
RespondFails(c) ==
    /\ ClientClosed(c)
    /\ TaskGoes(c, "writing", "ended")
    /\ UNCHANGED <<daemon, client, request, wire, executed>>

----------------------------------------------------------------------------
(* The daemon. *)

StopKeepingListener ==
    /\ daemon = "up" /\ daemon' = "stopping"
    /\ UNCHANGED <<client, request, task, wire, executed>>

(* The accept loop ends and the listener is dropped with its backlog; the  *)
(* tasks go on.                                                            *)
StopAccepting ==
    /\ daemon = "up" /\ daemon' = "stopping"
    /\ task' = [c \in Calls |-> IF task[c] = "queued" THEN "ended" ELSE task[c]]
    /\ UNCHANGED <<client, request, wire, executed>>

Closed(t) == IF t \in {"none", "rejected"} THEN t ELSE "ended"

(* The runtime is dropped: a task ends where it awaits, so not while its   *)
(* handler runs.                                                           *)
Exit ==
    /\ daemon = "stopping" /\ daemon' = "down"
    /\ \A c \in Calls : task[c] # "serving"
    /\ task' = [c \in Calls |-> Closed(task[c])]
    /\ UNCHANGED <<client, request, wire, executed>>

(* The daemon dies; what a handler had done of its request is ClipStore's. *)
Crash ==
    /\ daemon # "down" /\ daemon' = "down"
    /\ task' = [c \in Calls |-> Closed(task[c])]
    /\ UNCHANGED <<client, request, wire, executed>>

Restart ==
    /\ daemon = "down" /\ daemon' = "up"
    /\ UNCHANGED <<client, request, task, wire, executed>>

ClientStep(c) == Withhold(c) \/ Write(c) \/ Receive(c) \/ HangUp(c)

TaskStep(c) ==
    Accept(c) \/ TurnAway(c) \/ Read(c) \/ ReadEnds(c) \/ Dispatch(c)
      \/ Respond(c) \/ RespondFails(c)

Next ==
    \/ \E c \in Calls, r \in Requests : Connect(c, r)
    \/ \E c \in Calls : ClientStep(c) \/ Interrupt(c) \/ TaskStep(c)
    \/ StopAccepting \/ Exit \/ Crash \/ Restart

Spec == Init /\ [][Next]_vars

(* Clients and tasks go on when they can: accept() does not fail for ever, *)
(* a handler returns.  Nobody has to interrupt, stop or restart anything.  *)
FairSpec ==
    Spec /\ \A c \in Calls : WF_vars(ClientStep(c)) /\ WF_vars(TaskStep(c))

----------------------------------------------------------------------------
(* Properties. *)

Tasks == {"none", "queued", "reading", "serving", "writing", "waiting",
          "ended", "rejected"}

(* Types, and that a piece is read after it was written. *)
TypeOK ==
    /\ daemon \in {"up", "stopping", "down"}
    /\ client \in [Calls -> {"idle", "sending", "receiving"} \cup Results]
    /\ request \in [Calls -> Requests \cup {NoRequest}]
    /\ task \in [Calls -> Tasks]
    /\ reqSent \in [Calls -> 0..Frame] /\ reqRead \in [Calls -> 0..Frame]
    /\ ansSent \in [Calls -> 0..Frame] /\ ansRead \in [Calls -> 0..Frame]
    /\ \A c \in Calls : reqRead[c] <= reqSent[c] /\ ansRead[c] <= ansSent[c]
    /\ executed \in [Calls -> Nat]

(* A request is only carried out once the client wrote all of it, and fits *)
(* the limit: one cut off by the death of its client has no effect, at     *)
(* whatever byte it is cut.                                                *)
OnlyWholeRequests ==
    \A c \in Calls :
        executed[c] > 0 => reqSent[c] = Frame /\ request[c].size <= MaxFrame

(* The four places that know the limit agree: what one end may write, the  *)
(* other end will read, at the limit too.                                  *)
LimitsAgree ==
    \A c \in Calls :
        /\ task[c] # "rejected"
        /\ client[c] = "error" => TaskClosed(c)

(* A call always comes to an end, with an answer or an error, although the *)
(* client has no timeout, whenever the daemon stops, dies or is restarted. *)
CallReturns ==
    \A c \in Calls : client[c] \in {"sending", "receiving"} ~> ClientClosed(c)

(* The daemon keeps no task for a client that is gone. *)
TaskReturns ==
    \A c \in Calls :
        (ClientClosed(c) /\ task[c] # "none") ~> TaskClosed(c)

Outcome(result) ==
    CASE result = "idle" -> "not_made"
      [] result \in {"sending", "receiving"} -> "open"
      [] result = "answer" -> "answered"
      [] result \in {"bad_request", "too_large", "no_connection"} -> "refused"
      [] OTHER -> result

Abstract == INSTANCE IpcCalls WITH
    outcome <- [c \in Calls |-> Outcome(client[c])],
    runs <- executed

(* A call is carried out at most once, and its outcome tells the caller    *)
(* the truth, through stops, crashes and restarts of the daemon and the    *)
(* death of clients.                                                       *)
ImplementsCalls == Abstract!Spec

============================================================================
