-------------------------- MODULE IpcChannelProofs --------------------------
(***************************************************************************)
(* Proofs about IpcChannel, for any number of calls, any requests, any     *)
(* frame limit and any capacity of the socket buffers.                     *)
(***************************************************************************)
EXTENDS IpcChannel, TLAPS

(* How far the client is tells how much it wrote and read, and its result  *)
(* tells what can still be under way.                                      *)
ClientInv(c) ==
    /\ client[c] = "idle" <=> request[c] = NoRequest
    /\ client[c] \in {"idle", "no_connection"} => task[c] = "none"
    /\ client[c] \in {"idle", "no_connection", "too_large"} => reqSent[c] = 0
    /\ client[c] = "sending" => reqSent[c] < Frame
    /\ client[c] = "receiving" => reqSent[c] = Frame /\ ansRead[c] < Frame
    /\ client[c] \in {"answer", "bad_request"} => ansRead[c] = Frame
    /\ client[c] = "error" => TaskClosed(c)
    /\ reqSent[c] > 0 => MayWrite(request[c].size)

(* How far the task is tells how much it read and wrote, and whether the   *)
(* handler ran; there is no response to a request that was not whole.      *)
TaskInv(c) ==
    /\ task[c] # "rejected"
    /\ task[c] \in {"none", "queued"} => reqRead[c] = 0
    /\ task[c] = "reading" => reqRead[c] < Frame
    /\ task[c] \in {"serving", "writing", "waiting"} => reqRead[c] = Frame
    /\ task[c] \in {"none", "queued", "reading", "serving"} =>
           executed[c] = 0 /\ ansSent[c] = 0
    /\ task[c] = "writing" => ansSent[c] < Frame
    /\ executed[c] \in {0, 1}
    /\ executed[c] = 1 => reqRead[c] = Frame /\ request[c].known
    /\ task[c] \in {"writing", "waiting"} \/ ansSent[c] > 0 =>
           /\ reqRead[c] = Frame
           /\ request[c].known => executed[c] = 1
           /\ AnswerFits(c)

IInv == TypeOK /\ \A c \in Calls : ClientInv(c) /\ TaskInv(c)

LEMMA InitInv == Init => IInv
BY RequestAssumption
   DEF Init, IInv, TypeOK, Tasks, Frame, Results, ClientInv, TaskInv, TaskClosed

(* What IInv says of one call, with the types of its parts. *)
Counted(c) ==
    /\ reqSent[c] \in 0..3 /\ reqRead[c] \in 0..3 /\ reqRead[c] <= reqSent[c]
    /\ ansSent[c] \in 0..3 /\ ansRead[c] \in 0..3 /\ ansRead[c] <= ansSent[c]

LEMMA AtCall ==
  ASSUME IInv, NEW c \in Calls
  PROVE  ClientInv(c) /\ TaskInv(c) /\ Counted(c)
BY DEF IInv, TypeOK, Counted, Frame

(* A step of one call leaves the others alone. *)
Frozen(d) ==
    /\ client'[d] = client[d] /\ request'[d] = request[d] /\ task'[d] = task[d]
    /\ reqSent'[d] = reqSent[d] /\ reqRead'[d] = reqRead[d]
    /\ ansSent'[d] = ansSent[d] /\ ansRead'[d] = ansRead[d]
    /\ executed'[d] = executed[d]

LEMMA FrozenInv ==
  ASSUME NEW d \in Calls, ClientInv(d), TaskInv(d), Frozen(d)
  PROVE  ClientInv(d)' /\ TaskInv(d)'
<1>1. AnswerFits(d)' <=> AnswerFits(d)
  BY DEF Frozen, AnswerFits, MayWrite
<1>2. ClientInv(d)'
  BY DEF ClientInv, Frozen, TaskClosed, MayWrite
<1>3. TaskInv(d)'
  BY <1>1 DEF TaskInv, Frozen
<1> QED
  BY <1>2, <1>3

(* So an invariant is kept when types and the invariant of its own call are. *)
LEMMA OneCall ==
  ASSUME IInv, NEW c \in Calls, TypeOK', \A d \in Calls \ {c} : Frozen(d),
         ClientInv(c)', TaskInv(c)'
  PROVE  IInv'
<1>1. ASSUME NEW d \in Calls PROVE ClientInv(d)' /\ TaskInv(d)'
  <2>1. CASE d = c
    BY <2>1
  <2>2. CASE d # c
    BY <2>2, AtCall, FrozenInv
  <2> QED
    BY <2>1, <2>2
<1> QED
  BY <1>1 DEF IInv

(* Steps of the client. *)

LEMMA WithholdInv ==
  ASSUME IInv, NEW c \in Calls, Withhold(c)
  PROVE  IInv'
<1>1. ClientInv(c) /\ TaskInv(c) /\ Counted(c)
  BY AtCall
<1>2. client[c] = "sending" /\ client'[c] = "too_large"
  BY DEF Withhold, IInv, TypeOK
<1>3. /\ request' = request /\ task' = task /\ executed' = executed
      /\ reqSent' = reqSent /\ reqRead' = reqRead
      /\ ansSent' = ansSent /\ ansRead' = ansRead
  BY DEF Withhold, wire
<1>4. reqSent[c] = 0
  <2>1. ~(reqSent[c] > 0)
    BY <1>1 DEF Withhold, ClientInv
  <2> QED
    BY <1>1, <2>1 DEF Counted
<1>5. TypeOK' /\ \A d \in Calls \ {c} : Frozen(d)
  BY <1>3 DEF Withhold, IInv, TypeOK, Results, Frozen
<1>6. ClientInv(c)'
  BY <1>1, <1>2, <1>3, <1>4 DEF ClientInv, TaskClosed, MayWrite
<1>7. TaskInv(c)'
  BY <1>1, <1>3 DEF TaskInv, AnswerFits, MayWrite
<1> QED
  BY <1>5, <1>6, <1>7, OneCall

LEMMA WriteInv ==
  ASSUME IInv, NEW c \in Calls, Write(c)
  PROVE  IInv'
<1>1. ClientInv(c) /\ TaskInv(c) /\ Counted(c)
  BY AtCall
<1>2. /\ request' = request /\ task' = task /\ executed' = executed
      /\ reqRead' = reqRead /\ ansSent' = ansSent /\ ansRead' = ansRead
  BY DEF Write
<1>3. client[c] = "sending" /\ MayWrite(request[c].size)
  BY DEF Write
<1>4. reqSent[c] < 3
  BY <1>1, <1>3 DEF ClientInv, Frame
<1>5. /\ reqSent'[c] = reqSent[c] + 1 /\ reqSent'[c] \in 1..3
      /\ client'[c] = IF reqSent'[c] = 3 THEN "receiving" ELSE "sending"
  BY <1>1, <1>4 DEF Write, IInv, TypeOK, Frame, Counted
<1>6. ansRead[c] = 0
  BY <1>1, <1>4 DEF TaskInv, Counted, Frame
<1>7. TypeOK' /\ \A d \in Calls \ {c} : Frozen(d)
  <2>1. /\ reqSent' \in [Calls -> 0..Frame]
        /\ \A d \in Calls : reqRead'[d] <= reqSent'[d]
    BY <1>1, <1>2, <1>5 DEF Write, IInv, TypeOK, Frame, Counted
  <2>2. client' \in [Calls -> {"idle", "sending", "receiving"} \cup Results]
    BY DEF Write, IInv, TypeOK
  <2>3. TypeOK'
    BY <1>2, <2>1, <2>2 DEF Write, IInv, TypeOK
  <2> QED
    BY <1>2, <2>3 DEF Write, Frozen, IInv, TypeOK
<1>8. ClientInv(c)'
  BY <1>1, <1>2, <1>3, <1>5, <1>6 DEF ClientInv, TaskClosed, MayWrite, Frame
<1>9. TaskInv(c)'
  BY <1>1, <1>2 DEF TaskInv, AnswerFits, MayWrite
<1> QED
  BY <1>7, <1>8, <1>9, OneCall

LEMMA ReceiveInv ==
  ASSUME IInv, NEW c \in Calls, Receive(c)
  PROVE  IInv'
<1>1. ClientInv(c) /\ TaskInv(c) /\ Counted(c)
  BY AtCall
<1>2. /\ request' = request /\ task' = task /\ executed' = executed
      /\ reqSent' = reqSent /\ reqRead' = reqRead /\ ansSent' = ansSent
  BY DEF Receive
<1>3. client[c] = "receiving" /\ ansRead[c] < ansSent[c]
  BY DEF Receive
<1>4. AnswerReadable(c)
  <2>1. ansSent[c] > 0
    BY <1>1, <1>3 DEF Counted
  <2>2. AnswerFits(c)
    BY <1>1, <2>1 DEF TaskInv
  <2> QED
    BY <2>2 DEF AnswerFits, AnswerReadable, MayWrite, MayRead
<1>5. ansRead'[c] = ansRead[c] + 1 /\ ansRead'[c] \in 1..3
  <2>1. ansRead' = [ansRead EXCEPT ![c] = @ + 1]
    BY DEF Receive
  <2> QED
    BY <1>1, <1>3, <2>1 DEF IInv, TypeOK, Counted
<1>6. \/ client'[c] = "receiving" /\ ansRead'[c] < 3
      \/ client'[c] \in {"answer", "bad_request"} /\ ansRead'[c] = 3
  <2>1. client'[c] =
           CASE ansRead'[c] = Length /\ ~AnswerReadable(c) -> "error"
             [] ansRead'[c] = Frame ->
                  IF request[c].known THEN "answer" ELSE "bad_request"
             [] OTHER -> "receiving"
    BY DEF Receive, IInv, TypeOK
  <2>2. CASE ansRead'[c] = 3
    BY <2>1, <2>2 DEF Frame, Length
  <2>3. CASE ansRead'[c] < 3
    BY <1>4, <1>5, <2>1, <2>3 DEF Frame, Length
  <2> QED
    BY <1>5, <2>2, <2>3
<1>7. TypeOK' /\ \A d \in Calls \ {c} : Frozen(d)
  <2>1. /\ ansRead' \in [Calls -> 0..Frame]
        /\ \A d \in Calls : ansRead'[d] <= ansSent'[d]
    <3>1. ansRead' = [ansRead EXCEPT ![c] = ansRead[c] + 1]
      BY DEF Receive
    <3> QED
      BY <1>1, <1>2, <1>3, <1>5, <3>1 DEF IInv, TypeOK, Frame, Counted
  <2>2. /\ client' \in [Calls -> {"idle", "sending", "receiving"} \cup Results]
        /\ \A d \in Calls \ {c} : client'[d] = client[d]
    <3>1. PICK new : client' = [client EXCEPT ![c] = new]
      BY DEF Receive
    <3>2. client \in [Calls -> {"idle", "sending", "receiving"} \cup Results]
      BY DEF IInv, TypeOK
    <3>3. client'[c] = new
      BY <3>1, <3>2
    <3> QED
      BY <1>6, <3>1, <3>2, <3>3 DEF Results
  <2>3. daemon' = daemon
    BY DEF Receive
  <2>4. TypeOK'
    BY <1>2, <2>1, <2>2, <2>3 DEF IInv, TypeOK
  <2>5. \A d \in Calls \ {c} : ansRead'[d] = ansRead[d]
    BY DEF Receive, IInv, TypeOK
  <2> QED
    BY <1>2, <2>2, <2>4, <2>5 DEF Frozen
<1>8. ClientInv(c)'
  BY <1>1, <1>2, <1>3, <1>6 DEF ClientInv, TaskClosed, MayWrite, Frame
<1>9. TaskInv(c)'
  BY <1>1, <1>2 DEF TaskInv, AnswerFits, MayWrite
<1> QED
  BY <1>7, <1>8, <1>9, OneCall

LEMMA GiveUpInv ==
  ASSUME IInv, NEW c \in Calls, HangUp(c) \/ Interrupt(c)
  PROVE  IInv'
<1>1. ClientInv(c) /\ TaskInv(c) /\ Counted(c)
  BY AtCall
<1>2. /\ request' = request /\ task' = task /\ executed' = executed
      /\ reqSent' = reqSent /\ reqRead' = reqRead
      /\ ansSent' = ansSent /\ ansRead' = ansRead
  BY DEF HangUp, Interrupt, wire
<1>3. /\ client[c] \in {"sending", "receiving"}
      /\ \/ client'[c] = "interrupted"
         \/ client'[c] = "error" /\ TaskClosed(c)
  BY DEF HangUp, Interrupt, IInv, TypeOK
<1>4. TypeOK' /\ \A d \in Calls \ {c} : Frozen(d)
  BY <1>2 DEF HangUp, Interrupt, IInv, TypeOK, Results, Frozen
<1>5. ClientInv(c)'
  BY <1>1, <1>2, <1>3 DEF ClientInv, TaskClosed, MayWrite
<1>6. TaskInv(c)'
  BY <1>1, <1>2 DEF TaskInv, AnswerFits, MayWrite
<1> QED
  BY <1>4, <1>5, <1>6, OneCall

LEMMA ConnectInv ==
  ASSUME IInv, NEW c \in Calls, NEW r \in Requests, Connect(c, r)
  PROVE  IInv'
<1>1. ClientInv(c) /\ TaskInv(c) /\ Counted(c)
  BY AtCall
<1>2. /\ executed' = executed
      /\ reqSent' = reqSent /\ reqRead' = reqRead
      /\ ansSent' = ansSent /\ ansRead' = ansRead
  BY DEF Connect, wire
<1>3. client[c] = "idle" /\ task[c] = "none" /\ reqSent[c] = 0
  BY <1>1 DEF Connect, ClientInv
<1>4. /\ request'[c] = r /\ r # NoRequest
      /\ \/ client'[c] = "sending" /\ task'[c] = "queued"
         \/ client'[c] = "no_connection" /\ task'[c] = "none"
  BY <1>3, RequestAssumption DEF Connect, IInv, TypeOK
<1>5. reqRead[c] = 0 /\ executed[c] = 0 /\ ansSent[c] = 0
  BY <1>1, <1>3 DEF TaskInv
<1>6. TypeOK' /\ \A d \in Calls \ {c} : Frozen(d)
  BY <1>2 DEF Connect, IInv, TypeOK, Results, Tasks, Frozen
<1>7. ClientInv(c)'
  BY <1>2, <1>3, <1>4 DEF ClientInv, TaskClosed, MayWrite, Frame
<1>8. TaskInv(c)'
  BY <1>2, <1>4, <1>5 DEF TaskInv, AnswerFits, MayWrite, Frame
<1> QED
  BY <1>6, <1>7, <1>8, OneCall

----------------------------------------------------------------------------
(* Steps of the task. *)

LEMMA TaskMovesInv ==
  ASSUME IInv, NEW c \in Calls,
         Accept(c) \/ TurnAway(c) \/ ReadEnds(c) \/ RespondFails(c)
  PROVE  IInv'
<1>1. ClientInv(c) /\ TaskInv(c) /\ Counted(c)
  BY AtCall
<1>2. /\ client' = client /\ request' = request /\ executed' = executed
      /\ reqSent' = reqSent /\ reqRead' = reqRead
      /\ ansSent' = ansSent /\ ansRead' = ansRead
  BY DEF Accept, TurnAway, ReadEnds, RespondFails, wire
<1>3. \/ task[c] = "queued" /\ task'[c] = "reading"
      \/ task[c] \in {"queued", "reading", "writing", "waiting"} /\ task'[c] = "ended"
  BY DEF Accept, TurnAway, ReadEnds, RespondFails, TaskGoes, IInv, TypeOK
<1>4. TypeOK' /\ \A d \in Calls \ {c} : Frozen(d)
  BY <1>2 DEF Accept, TurnAway, ReadEnds, RespondFails, TaskGoes, IInv, TypeOK,
              Tasks, Frozen
<1>5. ClientInv(c)'
  BY <1>1, <1>2, <1>3 DEF ClientInv, TaskClosed, MayWrite
<1>6. TaskInv(c)'
  BY <1>1, <1>2, <1>3 DEF TaskInv, AnswerFits, MayWrite, Frame
<1> QED
  BY <1>4, <1>5, <1>6, OneCall

(* A length that is read is the length of a request that may be written,   *)
(* which is why the task never rejects one.                                *)
LEMMA ReadInv ==
  ASSUME IInv, NEW c \in Calls, Read(c)
  PROVE  IInv'
<1>1. ClientInv(c) /\ TaskInv(c) /\ Counted(c)
  BY AtCall
<1>2. /\ client' = client /\ request' = request /\ executed' = executed
      /\ reqSent' = reqSent /\ ansSent' = ansSent /\ ansRead' = ansRead
  BY DEF Read
<1>3. task[c] = "reading" /\ reqRead[c] < reqSent[c]
  BY DEF Read, TaskGoes
<1>4. MayRead(request[c].size)
  <2>1. reqSent[c] > 0
    BY <1>1, <1>3 DEF Counted
  <2>2. MayWrite(request[c].size)
    BY <1>1, <2>1 DEF ClientInv
  <2> QED
    BY <2>2 DEF MayRead, MayWrite
<1>5. reqRead'[c] = reqRead[c] + 1 /\ reqRead'[c] \in 1..3
  <2>1. reqRead' = [reqRead EXCEPT ![c] = reqRead[c] + 1]
    BY DEF Read
  <2> QED
    BY <1>1, <1>3, <2>1 DEF IInv, TypeOK, Counted
<1>6. \/ task'[c] = "reading" /\ reqRead'[c] < 3
      \/ task'[c] = "serving" /\ reqRead'[c] = 3
  <2>1. task'[c] =
           CASE reqRead'[c] = Length /\ ~MayRead(request[c].size) -> "rejected"
             [] reqRead'[c] = Frame                               -> "serving"
             [] OTHER                                             -> "reading"
    BY DEF Read, TaskGoes, IInv, TypeOK
  <2>2. CASE reqRead'[c] = 3
    BY <2>1, <2>2 DEF Frame, Length
  <2>3. CASE reqRead'[c] < 3
    BY <1>4, <1>5, <2>1, <2>3 DEF Frame, Length
  <2> QED
    BY <1>5, <2>2, <2>3
<1>7. TypeOK' /\ \A d \in Calls \ {c} : Frozen(d)
  <2>1. /\ reqRead' \in [Calls -> 0..Frame]
        /\ \A d \in Calls : reqRead'[d] <= reqSent'[d]
    <3>1. reqRead' = [reqRead EXCEPT ![c] = reqRead[c] + 1]
      BY DEF Read
    <3> QED
      BY <1>1, <1>2, <1>3, <1>5, <3>1 DEF IInv, TypeOK, Frame, Counted
  <2>2. task' \in [Calls -> Tasks] /\ \A d \in Calls \ {c} : task'[d] = task[d]
    <3>1. PICK new : task' = [task EXCEPT ![c] = new]
      BY DEF Read, TaskGoes
    <3>2. task \in [Calls -> Tasks]
      BY DEF IInv, TypeOK
    <3>3. task'[c] = new
      BY <3>1, <3>2
    <3> QED
      BY <1>6, <3>1, <3>2, <3>3 DEF Tasks
  <2>3. daemon' = daemon
    BY DEF Read
  <2>4. TypeOK'
    BY <1>2, <2>1, <2>2, <2>3 DEF IInv, TypeOK
  <2>5. \A d \in Calls \ {c} : reqRead'[d] = reqRead[d]
    BY DEF Read, IInv, TypeOK
  <2> QED
    BY <1>2, <2>2, <2>4, <2>5 DEF Frozen
<1>8. ClientInv(c)'
  BY <1>1, <1>2, <1>3, <1>6 DEF ClientInv, TaskClosed, MayWrite
<1>9. TaskInv(c)'
  <2>1. executed[c] = 0 /\ ansSent[c] = 0
    BY <1>1, <1>3 DEF TaskInv
  <2> QED
    BY <1>2, <1>6, <2>1 DEF TaskInv, AnswerFits, MayWrite, Frame
<1> QED
  BY <1>7, <1>8, <1>9, OneCall

LEMMA DispatchInv ==
  ASSUME IInv, NEW c \in Calls, Dispatch(c)
  PROVE  IInv'
<1>1. ClientInv(c) /\ TaskInv(c) /\ Counted(c)
  BY AtCall
<1>2. /\ client' = client /\ request' = request
      /\ reqSent' = reqSent /\ reqRead' = reqRead
      /\ ansSent' = ansSent /\ ansRead' = ansRead
  BY DEF Dispatch, wire
<1>3. task[c] = "serving" /\ reqRead[c] = Frame /\ executed[c] = 0 /\ ansSent[c] = 0
  BY <1>1 DEF Dispatch, TaskGoes, TaskInv
<1>4. task'[c] = IF AnswerFits(c) THEN "writing" ELSE "ended"
  BY DEF Dispatch, TaskGoes, IInv, TypeOK
<1>5. executed'[c] = IF request[c].known THEN 1 ELSE 0
  BY <1>3 DEF Dispatch, IInv, TypeOK
<1>6. TypeOK' /\ \A d \in Calls \ {c} : Frozen(d)
  BY <1>2 DEF Dispatch, TaskGoes, IInv, TypeOK, Tasks, Frozen
<1>7. ClientInv(c)'
  BY <1>1, <1>2, <1>3, <1>4 DEF ClientInv, TaskClosed, MayWrite
<1>8. AnswerFits(c)' <=> AnswerFits(c)
  BY <1>2 DEF AnswerFits, MayWrite
<1>9. TaskInv(c)'
  BY <1>2, <1>3, <1>4, <1>5, <1>8 DEF TaskInv, Frame
<1> QED
  BY <1>6, <1>7, <1>9, OneCall

LEMMA RespondInv ==
  ASSUME IInv, NEW c \in Calls, Respond(c)
  PROVE  IInv'
<1>1. ClientInv(c) /\ TaskInv(c) /\ Counted(c)
  BY AtCall
<1>2. /\ client' = client /\ request' = request /\ executed' = executed
      /\ reqSent' = reqSent /\ reqRead' = reqRead /\ ansRead' = ansRead
  BY DEF Respond
<1>3. task[c] = "writing" /\ ansSent[c] < 3
  BY <1>1 DEF Respond, TaskGoes, TaskInv, Frame
<1>4. ansSent'[c] = ansSent[c] + 1 /\ ansSent'[c] \in 1..3
  BY <1>1, <1>3 DEF Respond, IInv, TypeOK, Counted
<1>5. task'[c] = IF ansSent'[c] = 3 THEN "waiting" ELSE "writing"
  BY DEF Respond, TaskGoes, IInv, TypeOK, Frame
<1>6. TypeOK' /\ \A d \in Calls \ {c} : Frozen(d)
  <2>1. /\ ansSent' \in [Calls -> 0..Frame]
        /\ \A d \in Calls : ansRead'[d] <= ansSent'[d]
    BY <1>1, <1>2, <1>4 DEF Respond, IInv, TypeOK, Frame, Counted
  <2>2. task' \in [Calls -> Tasks]
    BY DEF Respond, TaskGoes, IInv, TypeOK, Tasks
  <2>3. TypeOK'
    BY <1>2, <2>1, <2>2 DEF Respond, IInv, TypeOK
  <2> QED
    BY <1>2, <2>3 DEF Respond, TaskGoes, Frozen, IInv, TypeOK
<1>7. ClientInv(c)'
  BY <1>1, <1>2, <1>3, <1>5 DEF ClientInv, TaskClosed, MayWrite
<1>8. AnswerFits(c)' <=> AnswerFits(c)
  BY <1>2 DEF AnswerFits, MayWrite
<1>9. TaskInv(c)'
  BY <1>1, <1>2, <1>3, <1>4, <1>5, <1>8 DEF TaskInv, Frame
<1> QED
  BY <1>6, <1>7, <1>9, OneCall

----------------------------------------------------------------------------
(* Steps of the daemon: tasks end. *)

LEMMA DaemonInv ==
  ASSUME IInv, StopAccepting \/ Exit \/ Crash \/ Restart
  PROVE  IInv'
<1>1. /\ client' = client /\ request' = request /\ executed' = executed
      /\ reqSent' = reqSent /\ reqRead' = reqRead
      /\ ansSent' = ansSent /\ ansRead' = ansRead
  BY DEF StopAccepting, Exit, Crash, Restart, wire
<1>2. ASSUME NEW c \in Calls
      PROVE  \/ task'[c] = task[c]
             \/ task[c] # "none" /\ task'[c] = "ended"
  BY DEF StopAccepting, Exit, Crash, Restart, Closed, IInv, TypeOK
<1>3. TypeOK'
  BY <1>1 DEF StopAccepting, Exit, Crash, Restart, Closed, IInv, TypeOK, Tasks
<1>4. ASSUME NEW c \in Calls PROVE ClientInv(c)' /\ TaskInv(c)'
  <2>1. ClientInv(c) /\ TaskInv(c)
    BY AtCall
  <2>2. ClientInv(c)'
    BY <1>1, <1>2, <2>1 DEF ClientInv, TaskClosed, MayWrite
  <2>3. TaskInv(c)'
    BY <1>1, <1>2, <2>1 DEF TaskInv, AnswerFits, MayWrite
  <2> QED
    BY <2>2, <2>3
<1> QED
  BY <1>3, <1>4 DEF IInv

LEMMA NextInv == IInv /\ [Next]_vars => IInv'
<1> SUFFICES ASSUME IInv, [Next]_vars PROVE IInv'
  OBVIOUS
<1>1. ASSUME NEW c \in Calls, ClientStep(c) \/ Interrupt(c) PROVE IInv'
  BY <1>1, WithholdInv, WriteInv, ReceiveInv, GiveUpInv DEF ClientStep
<1>2. ASSUME NEW c \in Calls, TaskStep(c) PROVE IInv'
  BY <1>2, TaskMovesInv, ReadInv, DispatchInv, RespondInv DEF TaskStep
<1>3. CASE UNCHANGED vars
  <2>1. TypeOK'
    BY <1>3 DEF vars, wire, IInv, TypeOK
  <2>2. \A c \in Calls : Frozen(c)
    BY <1>3 DEF vars, wire, Frozen
  <2> QED
    BY <2>1, <2>2, AtCall, FrozenInv DEF IInv
<1> QED
  BY <1>1, <1>2, <1>3, ConnectInv, DaemonInv DEF Next

LEMMA Invariant == Spec => []IInv
BY InitInv, NextInv, PTL DEF Spec

(* Types, and that no piece is read before it is written.                  *)
THEOREM TypeCorrect == Spec => []TypeOK
<1>1. IInv => TypeOK
  BY DEF IInv
<1> QED
  BY <1>1, Invariant, PTL

(* A handler only runs for a request that its client wrote to the end.     *)
THEOREM CutRequestsHaveNoEffect == Spec => []OnlyWholeRequests
<1>1. IInv => OnlyWholeRequests
  <2> SUFFICES ASSUME IInv, NEW c \in Calls, executed[c] > 0
               PROVE  reqSent[c] = Frame /\ request[c].size <= MaxFrame
    BY DEF OnlyWholeRequests
  <2>1. ClientInv(c) /\ TaskInv(c) /\ Counted(c)
    BY AtCall
  <2>2. reqRead[c] = 3
    BY <2>1 DEF TaskInv, Frame
  <2>3. reqSent[c] = 3
    BY <2>1, <2>2 DEF Counted
  <2> QED
    BY <2>1, <2>3 DEF ClientInv, MayWrite, Frame
<1> QED
  BY <1>1, Invariant, PTL

(* No frame that one end writes is refused by the other, at any limit.     *)
THEOREM FramesAreRead == Spec => []LimitsAgree
<1>1. IInv => LimitsAgree
  BY DEF IInv, ClientInv, TaskInv, LimitsAgree
<1> QED
  BY <1>1, Invariant, PTL

----------------------------------------------------------------------------
(* The refinement: what the caller knows follows the client, and a run     *)
(* follows the handler.                                                    *)

LEMMA AnswersAbout ==
    ASSUME IInv, NEW c \in Calls
    PROVE  /\ executed[c] \in {0, 1}
           /\ client[c] = "idle" \/ reqSent[c] < Frame => executed[c] = 0
           /\ ansSent[c] > 0 /\ request[c].known => executed[c] = 1
           /\ ~request[c].known => executed[c] = 0
<1>1. ClientInv(c) /\ TaskInv(c) /\ Counted(c)
  BY AtCall
<1>2. executed[c] \in {0, 1} /\ (executed[c] = 1 => reqRead[c] = 3 /\ request[c].known)
  BY <1>1 DEF TaskInv, Frame
<1>3. client[c] = "idle" => reqSent[c] = 0
  BY <1>1 DEF ClientInv
<1>4. reqSent[c] < 3 => executed[c] = 0
  BY <1>1, <1>2 DEF Counted
<1>5. ansSent[c] > 0 /\ request[c].known => executed[c] = 1
  BY <1>1 DEF TaskInv
<1> QED
  BY <1>2, <1>3, <1>4, <1>5 DEF Frame

LEMMA ClientLearns ==
    ASSUME IInv, NEW c \in Calls, NEW new,
           client' = [client EXCEPT ![c] = new], executed' = executed
    PROVE  Abstract!Learn(c, Outcome(new))
<1> DEFINE Known == [d \in Calls |-> Outcome(client[d])]
<1>1. client \in [Calls -> {"idle", "sending", "receiving"} \cup Results]
  BY DEF IInv, TypeOK
<1>2. \A d \in Calls : client'[d] = IF d = c THEN new ELSE client[d]
  BY <1>1
<1>3. [d \in Calls |-> Outcome(client'[d])] = [Known EXCEPT ![c] = Outcome(new)]
  <2>1. \A d \in Calls :
           Outcome(client'[d]) = IF d = c THEN Outcome(new) ELSE Outcome(client[d])
    <3>1. client'[c] = new /\ \A d \in Calls \ {c} : client'[d] = client[d]
      BY <1>2
    <3> QED
      BY <3>1
  <2> HIDE DEF Outcome
  <2> QED
    BY <2>1
<1> QED
  BY <1>3 DEF Abstract!Learn

LEMMA ClientStepRefines ==
    ASSUME IInv, NEW c \in Calls,
           \/ \E r \in Requests : Connect(c, r)
           \/ ClientStep(c) \/ Interrupt(c)
    PROVE  [Abstract!Next]_(Abstract!vars)
<1>1. /\ executed[c] \in {0, 1}
      /\ client[c] = "idle" \/ reqSent[c] < Frame => executed[c] = 0
      /\ ansSent[c] > 0 /\ request[c].known => executed[c] = 1
      /\ ~request[c].known => executed[c] = 0
  BY AnswersAbout
<1>2. PICK new : client' = [client EXCEPT ![c] = new]
  BY DEF Connect, ClientStep, Withhold, Write, Receive, HangUp, Interrupt
<1>3. executed' = executed
  BY DEF Connect, ClientStep, Withhold, Write, Receive, HangUp, Interrupt
<1>4. client'[c] = new
  BY <1>2 DEF IInv, TypeOK
<1>5. Abstract!Learn(c, Outcome(new))
  BY <1>2, <1>3, ClientLearns
<1>6. CASE \E r \in Requests : Connect(c, r)
  <2>1. client[c] = "idle" /\ new \in {"sending", "no_connection"}
    BY <1>4, <1>6 DEF Connect, IInv, TypeOK
  <2>2. Outcome(client[c]) = "not_made" /\ executed[c] = 0
    BY <1>1, <2>1 DEF Outcome
  <2>3. Outcome(new) \in {"open", "refused"}
    BY <2>1 DEF Outcome
  <2>4. Abstract!Make(c) \/ Abstract!Refuse(c)
    BY <1>5, <2>2, <2>3 DEF Abstract!Make, Abstract!Refuse
  <2> QED
    BY <2>4 DEF Abstract!Next
<1>7. CASE Withhold(c)
  <2>1. client[c] = "sending" /\ new = "too_large" /\ reqSent[c] < Frame
    BY <1>4, <1>7, AtCall DEF Withhold, ClientInv, IInv, TypeOK
  <2>2. /\ Outcome(client[c]) = "open" /\ executed[c] = 0
        /\ Outcome(new) = "refused"
    BY <1>1, <2>1 DEF Outcome
  <2>3. Abstract!Refuse(c)
    BY <1>5, <2>2 DEF Abstract!Refuse
  <2> QED
    BY <2>3 DEF Abstract!Next
<1>8. CASE Write(c)
  <2>1. client[c] = "sending" /\ new \in {"sending", "receiving"}
    BY <1>4, <1>8 DEF Write, IInv, TypeOK
  <2>2. Outcome(new) = Outcome(client[c])
    BY <2>1 DEF Outcome
  <2>3. \A d \in Calls : Outcome(client'[d]) = Outcome(client[d])
    BY <1>2, <2>2 DEF IInv, TypeOK
  <2> QED
    BY <1>3, <2>3 DEF Abstract!vars
<1>9. CASE Receive(c)
  <2>1. /\ client[c] = "receiving" /\ ansSent[c] > 0
        /\ \/ new \in {"receiving", "error"}
           \/ new = "answer" /\ request[c].known
           \/ new = "bad_request" /\ ~request[c].known
    <3>1. client[c] = "receiving" /\ ansRead[c] < ansSent[c]
      BY <1>9 DEF Receive
    <3>2. ansSent[c] > 0
      BY <3>1, AtCall DEF Counted
    <3>3. new = CASE ansRead'[c] = Length /\ ~AnswerReadable(c) -> "error"
                  [] ansRead'[c] = Frame ->
                       IF request[c].known THEN "answer" ELSE "bad_request"
                  [] OTHER -> "receiving"
      BY <1>4, <1>9 DEF Receive, IInv, TypeOK
    <3> QED
      BY <3>1, <3>2, <3>3 DEF Length, Frame
  <2>2. Outcome(client[c]) = "open"
    BY <2>1 DEF Outcome
  <2>3. CASE new = "receiving"
    <3>1. \A d \in Calls : Outcome(client'[d]) = Outcome(client[d])
      BY <1>2, <2>1, <2>3 DEF IInv, TypeOK
    <3> QED
      BY <1>3, <3>1 DEF Abstract!vars
  <2>4. CASE new = "error"
    <3>1. Abstract!Err(c)
      BY <1>5, <2>2, <2>4 DEF Abstract!Err, Outcome
    <3> QED
      BY <3>1 DEF Abstract!Next
  <2>5. CASE new = "answer" /\ request[c].known
    <3>1. Abstract!Answer(c)
      BY <1>1, <1>5, <2>1, <2>2, <2>5 DEF Abstract!Answer, Outcome
    <3> QED
      BY <3>1 DEF Abstract!Next
  <2>6. CASE new = "bad_request" /\ ~request[c].known
    <3>1. Abstract!Refuse(c)
      BY <1>1, <1>5, <2>2, <2>6 DEF Abstract!Refuse, Outcome
    <3> QED
      BY <3>1 DEF Abstract!Next
  <2> QED
    BY <2>1, <2>3, <2>4, <2>5, <2>6
<1>10. CASE HangUp(c) \/ Interrupt(c)
  <2>1. client[c] \in {"sending", "receiving"} /\ new \in {"error", "interrupted"}
    BY <1>4, <1>10 DEF HangUp, Interrupt, IInv, TypeOK
  <2>2. Outcome(client[c]) = "open" /\ Outcome(new) = new
    BY <2>1 DEF Outcome
  <2>3. Abstract!Err(c) \/ Abstract!Interrupt(c)
    BY <1>5, <2>1, <2>2 DEF Abstract!Err, Abstract!Interrupt
  <2> QED
    BY <2>3 DEF Abstract!Next
<1> QED
  BY <1>6, <1>7, <1>8, <1>9, <1>10 DEF ClientStep

(* Whoever has its request dispatched is still waiting, or went away.      *)
LEMMA DispatchRefines ==
    ASSUME IInv, NEW c \in Calls, Dispatch(c)
    PROVE  [Abstract!Next]_(Abstract!vars)
<1>1. ClientInv(c) /\ TaskInv(c) /\ Counted(c)
  BY AtCall
<1>2. task[c] = "serving" /\ client' = client
  BY DEF Dispatch, TaskGoes
<1>3. CASE request[c].known
  <2>1. /\ executed[c] = 0 /\ ansSent[c] = 0 /\ reqRead[c] = 3
    BY <1>1, <1>2 DEF TaskInv, Frame
  <2>2. ansRead[c] = 0 /\ reqSent[c] = 3
    BY <1>1, <2>1 DEF Counted
  <2>3. client[c] \in {"sending", "receiving", "interrupted"}
    <3>1. client[c] \in {"idle", "sending", "receiving"} \cup Results
      BY DEF IInv, TypeOK
    <3> QED
      BY <1>1, <1>2, <2>2, <3>1 DEF ClientInv, TaskClosed, Results, Frame
  <2>4. Outcome(client[c]) \in {"open", "interrupted"}
    BY <2>3 DEF Outcome
  <2>5. executed' = [executed EXCEPT ![c] = 1]
    BY <1>3, <2>1 DEF Dispatch
  <2>6. Abstract!CarryOut(c)
    BY <1>2, <2>1, <2>4, <2>5 DEF Abstract!CarryOut
  <2> QED
    BY <2>6 DEF Abstract!Next
<1>4. CASE ~request[c].known
  BY <1>2, <1>4 DEF Dispatch, Abstract!vars
<1> QED
  BY <1>3, <1>4

LEMMA OthersStutter ==
    ASSUME \/ \E c \in Calls : \/ Accept(c) \/ TurnAway(c) \/ Read(c) \/ ReadEnds(c)
                               \/ Respond(c) \/ RespondFails(c)
           \/ StopAccepting \/ Exit \/ Crash \/ Restart
           \/ UNCHANGED vars
    PROVE  UNCHANGED Abstract!vars
<1>1. client' = client /\ executed' = executed
  BY DEF Accept, TurnAway, Read, ReadEnds, Respond, RespondFails,
         StopAccepting, Exit, Crash, Restart, vars
<1> QED
  BY <1>1 DEF Abstract!vars

(* A request is carried out at most once, an answer means that it was, a   *)
(* refusal that it is not, and after an error it will not be any more:     *)
(* whoever dies, wherever a frame is cut, and although nothing is retried. *)
THEOREM ChannelImplementsCalls == Spec => ImplementsCalls
<1>1. Init => Abstract!Init
  BY DEF Init, Abstract!Init, Outcome
<1>2. IInv /\ [Next]_vars => [Abstract!Next]_(Abstract!vars)
  BY ClientStepRefines, DispatchRefines, OthersStutter DEF Next, TaskStep
<1> QED
  BY <1>1, <1>2, Invariant, PTL DEF Spec, ImplementsCalls, Abstract!Spec

----------------------------------------------------------------------------
(* Progress.  Liveness under fairness is TLC's; what it rests on is proved *)
(* here: that at any moment one end of an open call can go on, that it can *)
(* until something is done, and that there is only so much to do.          *)

(* The guards of the client's steps, and of the task's. *)
ClientCan(c) ==
    \/ /\ client[c] = "sending"
       /\ MayWrite(request[c].size) => ~TaskClosed(c) /\ Room(reqSent[c], reqRead[c])
    \/ client[c] = "receiving" /\ ansRead[c] < ansSent[c]
    \/ client[c] \in {"sending", "receiving"} /\ TaskClosed(c) /\ ansRead[c] = ansSent[c]

TaskCan(c) ==
    \/ task[c] = "queued" /\ daemon = "up"
    \/ task[c] = "reading" /\ reqRead[c] < reqSent[c]
    \/ task[c] \in {"reading", "waiting"} /\ ClientClosed(c) /\ reqRead[c] = reqSent[c]
    \/ task[c] = "serving"
    \/ task[c] = "writing" /\ (ClientClosed(c) \/ Room(ansSent[c], ansRead[c]))

(* Nobody waits for somebody who waits: while a call is open, its client   *)
(* or its task can go on, and a task whose client is gone can.             *)
SomeEndCan ==
    \A c \in Calls :
        /\ client[c] \in {"sending", "receiving"} => ClientCan(c) \/ TaskCan(c)
        /\ ClientClosed(c) /\ task[c] # "none" /\ ~TaskClosed(c) => TaskCan(c)

(* What is left to do for a call: pieces to write and to read, steps of    *)
(* the task, and the client's result.                                      *)
Turns(t) ==
    CASE t = "queued" -> 5 [] t = "reading" -> 4 [] t = "serving" -> 3
      [] t = "writing" -> 2 [] t = "waiting" -> 1 [] OTHER -> 0

Work(c) ==
    (IF ClientClosed(c) THEN 0 ELSE 1) + Turns(task[c])
      + (Frame - reqSent[c]) + (Frame - reqRead[c])
      + (Frame - ansSent[c]) + (Frame - ansRead[c])

WorkBounded == \A c \in Calls : Work(c) \in 0 .. 18

(* A call that is made never has more to do than before, each step of its  *)
(* ends leaves it less, and until it has less whoever can go on still can, *)
(* whatever the daemon and other calls do meanwhile.                       *)
CallsRunDown ==
    [][\A c \in Calls : client[c] # "idle" =>
          /\ Work(c)' <= Work(c)
          /\ ClientStep(c) \/ TaskStep(c) => Work(c)' < Work(c)
          /\ Work(c)' = Work(c) => /\ ClientCan(c) => ClientCan(c)'
                                   /\ TaskCan(c) => TaskCan(c)']_vars

(* There is a task for every open connection, and it is in the backlog     *)
(* only of a daemon that accepts.                                          *)
LiveInv(c) ==
    /\ client[c] \in {"sending", "receiving"} => task[c] # "none"
    /\ task[c] = "waiting" => ansSent[c] = Frame
    /\ task[c] = "queued" => daemon = "up"

PInv == IInv /\ \A c \in Calls : LiveInv(c)

LEMMA FrozenLive ==
    ASSUME NEW d \in Calls, LiveInv(d), Frozen(d), task[d] = "queued" => daemon' = daemon
    PROVE  LiveInv(d)'
BY DEF LiveInv, Frozen

(* Steps of a call do not touch the others, and those of the daemon no     *)
(* more than their tasks.                                                  *)
LEMMA OthersFrozen ==
    ASSUME IInv, NEW c \in Calls,
           (\E r \in Requests : Connect(c, r)) \/ ClientStep(c) \/ Interrupt(c) \/ TaskStep(c)
    PROVE  daemon' = daemon /\ \A d \in Calls \ {c} : Frozen(d)
<1>1. CASE (\E r \in Requests : Connect(c, r)) \/ Interrupt(c)
  BY <1>1 DEF Connect, Interrupt, wire, Frozen, IInv, TypeOK
<1>2. CASE ClientStep(c)
  <2>1. PICK new : client' = [client EXCEPT ![c] = new]
    BY <1>2 DEF ClientStep, Withhold, Write, Receive, HangUp
  <2>2. \A d \in Calls \ {c} : client'[d] = client[d]
    BY <2>1 DEF IInv, TypeOK
  <2>3. \A d \in Calls \ {c} : reqSent'[d] = reqSent[d] /\ ansRead'[d] = ansRead[d]
    BY <1>2 DEF ClientStep, Withhold, Write, Receive, HangUp, wire, IInv, TypeOK
  <2>4. /\ daemon' = daemon /\ request' = request /\ task' = task
        /\ reqRead' = reqRead /\ ansSent' = ansSent /\ executed' = executed
    BY <1>2 DEF ClientStep, Withhold, Write, Receive, HangUp, wire
  <2> QED
    BY <2>2, <2>3, <2>4 DEF Frozen
<1>3. CASE TaskStep(c)
  <2>1. PICK new : task' = [task EXCEPT ![c] = new]
    BY <1>3 DEF TaskStep, Accept, TurnAway, Read, ReadEnds, Dispatch, Respond, RespondFails,
                TaskGoes
  <2>2. \A d \in Calls \ {c} : task'[d] = task[d]
    BY <2>1 DEF IInv, TypeOK
  <2>3. \A d \in Calls \ {c} : /\ reqRead'[d] = reqRead[d] /\ ansSent'[d] = ansSent[d]
                               /\ executed'[d] = executed[d]
    BY <1>3 DEF TaskStep, Accept, TurnAway, Read, ReadEnds, Dispatch, Respond, RespondFails,
                wire, IInv, TypeOK
  <2>4. /\ daemon' = daemon /\ request' = request /\ client' = client
        /\ reqSent' = reqSent /\ ansRead' = ansRead
    BY <1>3 DEF TaskStep, Accept, TurnAway, Read, ReadEnds, Dispatch, Respond, RespondFails,
                wire
  <2> QED
    BY <2>2, <2>3, <2>4 DEF Frozen
<1> QED
  BY <1>1, <1>2, <1>3

LEMMA DaemonEndsTasks ==
    ASSUME IInv, NEW c \in Calls, StopAccepting \/ Exit \/ Crash \/ Restart
    PROVE  /\ client'[c] = client[c] /\ request'[c] = request[c]
           /\ reqSent'[c] = reqSent[c] /\ reqRead'[c] = reqRead[c]
           /\ ansSent'[c] = ansSent[c] /\ ansRead'[c] = ansRead[c]
           /\ executed'[c] = executed[c]
           /\ \/ task'[c] = task[c] /\ (task[c] = "queued" => daemon = "down")
              \/ task'[c] = "ended" /\ task[c] \notin {"none", "rejected", "ended"}
<1>1. /\ client' = client /\ request' = request /\ executed' = executed
      /\ reqSent' = reqSent /\ reqRead' = reqRead /\ ansSent' = ansSent /\ ansRead' = ansRead
  BY DEF StopAccepting, Exit, Crash, Restart, wire
<1>2. \/ task'[c] = task[c] /\ (task[c] = "queued" => daemon = "down")
      \/ task'[c] = "ended" /\ task[c] \notin {"none", "rejected", "ended"}
  BY DEF StopAccepting, Exit, Crash, Restart, Closed
<1> QED
  BY <1>1, <1>2

(* The new part of the invariant, for the call that steps. *)
LEMMA LiveStep ==
    ASSUME PInv, NEW c \in Calls,
           (\E r \in Requests : Connect(c, r)) \/ ClientStep(c) \/ Interrupt(c) \/ TaskStep(c)
    PROVE  LiveInv(c)'
<1>0. LiveInv(c) /\ ClientInv(c) /\ TaskInv(c) /\ Counted(c) /\ daemon' = daemon
  BY AtCall, OthersFrozen DEF PInv
<1>1. CASE \E r \in Requests : Connect(c, r)
  <2>1. \/ client'[c] = "sending" /\ task'[c] = "queued" /\ daemon = "up"
        \/ client'[c] = "no_connection" /\ task' = task /\ ansSent' = ansSent
    BY <1>1 DEF Connect, PInv, IInv, TypeOK, wire
  <2>2. task[c] = "none"
    BY <1>0, <1>1 DEF Connect, ClientInv
  <2> QED
    BY <1>0, <2>1, <2>2 DEF LiveInv
<1>2. CASE ClientStep(c) \/ Interrupt(c)
  <2>1. client[c] \in {"sending", "receiving"} /\ task' = task /\ ansSent' = ansSent
    BY <1>2 DEF ClientStep, Withhold, Write, Receive, HangUp, Interrupt, wire
  <2> QED
    BY <1>0, <2>1 DEF LiveInv
<1>3. CASE Respond(c)
  <2>1. /\ client' = client /\ task[c] = "writing"
        /\ ansSent' = [ansSent EXCEPT ![c] = @ + 1]
        /\ task'[c] = IF ansSent'[c] = Frame THEN "waiting" ELSE "writing"
    BY <1>3 DEF Respond, TaskGoes, PInv, IInv, TypeOK
  <2> QED
    BY <1>0, <2>1 DEF LiveInv
<1>4. CASE TaskStep(c) /\ ~Respond(c)
  <2>1. client' = client /\ task[c] # "none"
    BY <1>4 DEF TaskStep, Accept, TurnAway, Read, ReadEnds, Dispatch, RespondFails, TaskGoes
  <2>2. task'[c] \in {"reading", "ended", "rejected", "serving", "writing"}
    BY <1>4 DEF TaskStep, Accept, TurnAway, Read, ReadEnds, Dispatch, RespondFails, TaskGoes,
                PInv, IInv, TypeOK
  <2> QED
    BY <1>0, <2>1, <2>2 DEF LiveInv
<1> QED
  BY <1>1, <1>2, <1>3, <1>4

LEMMA ProgressNext == PInv /\ [Next]_vars => PInv'
<1> SUFFICES ASSUME PInv, [Next]_vars, NEW d \in Calls PROVE LiveInv(d)'
  BY NextInv DEF PInv
<1>0. IInv /\ LiveInv(d)
  BY DEF PInv
<1>1. ASSUME NEW c \in Calls,
             (\E r \in Requests : Connect(c, r)) \/ ClientStep(c) \/ Interrupt(c) \/ TaskStep(c)
      PROVE  LiveInv(d)'
  <2>1. CASE d = c
    BY <1>1, <2>1, LiveStep
  <2>2. CASE d # c
    BY <1>0, <1>1, <2>2, OthersFrozen, FrozenLive
  <2> QED
    BY <2>1, <2>2
<1>2. CASE StopAccepting \/ Exit \/ Crash \/ Restart
  <2>1. task[d] = "queued" => daemon # "down"
    BY <1>0 DEF LiveInv
  <2> QED
    BY <1>0, <1>2, <2>1, DaemonEndsTasks DEF LiveInv
<1>3. CASE UNCHANGED vars
  BY <1>0, <1>3, FrozenLive DEF vars, wire, Frozen
<1> QED
  BY <1>1, <1>2, <1>3 DEF Next

LEMMA ProgressInvariant == Spec => []PInv
<1>1. Init => PInv
  BY InitInv DEF PInv, Init, LiveInv
<1> QED
  BY <1>1, ProgressNext, PTL DEF Spec

(* Neither end waits for the other while the other waits for it, with any  *)
(* buffer that holds at least one piece, wherever the daemon stops or dies *)
(* and wherever a client goes away.                                        *)
THEOREM NobodyIsStuck == Spec => []SomeEndCan
<1>1. PInv => SomeEndCan
  <2> SUFFICES ASSUME PInv, NEW c \in Calls
               PROVE  /\ client[c] \in {"sending", "receiving"} => ClientCan(c) \/ TaskCan(c)
                      /\ ClientClosed(c) /\ task[c] # "none" /\ ~TaskClosed(c) => TaskCan(c)
    BY DEF SomeEndCan
  <2>1. LiveInv(c) /\ ClientInv(c) /\ TaskInv(c) /\ Counted(c)
    BY AtCall DEF PInv
  <2>2. task[c] \in Tasks
    BY DEF PInv, IInv, TypeOK
  <2>3. ASSUME client[c] = "sending", ~ClientCan(c) PROVE TaskCan(c)
    <3>1. reqSent[c] < 3 /\ ansSent[c] = 0 /\ ansRead[c] = 0
      BY <2>1, <2>3 DEF ClientInv, TaskInv, Counted, Frame
    <3>2. ~TaskClosed(c) /\ ~Room(reqSent[c], reqRead[c])
      BY <2>3, <3>1 DEF ClientCan
    <3>3. reqRead[c] < reqSent[c]
      BY <2>1, <3>2, LimitAssumption DEF Room, Counted
    <3>4. task[c] \in {"queued", "reading"}
      BY <2>1, <2>2, <2>3, <3>1, <3>2, <3>3 DEF LiveInv, TaskInv, Counted, Tasks, TaskClosed, Frame
    <3> QED
      BY <2>1, <3>3, <3>4 DEF TaskCan, LiveInv
  <2>4. ASSUME client[c] = "receiving", ~ClientCan(c) PROVE TaskCan(c)
    <3>1. reqSent[c] = 3 /\ ansRead[c] < 3
      BY <2>1, <2>4 DEF ClientInv, Frame
    <3>2. ansRead[c] = ansSent[c] /\ ~TaskClosed(c)
      BY <2>1, <2>4 DEF ClientCan, Counted
    <3>3. Room(ansSent[c], ansRead[c])
      BY <2>1, <3>2, LimitAssumption DEF Room, Counted
    <3>4. task[c] \in {"queued", "reading", "serving", "writing"}
      BY <2>1, <2>2, <2>4, <3>1, <3>2 DEF LiveInv, Tasks, TaskClosed, Frame
    <3>5. task[c] = "reading" => reqRead[c] < reqSent[c]
      BY <2>1, <3>1 DEF TaskInv, Frame, Counted
    <3> QED
      BY <2>1, <3>3, <3>4, <3>5 DEF TaskCan, LiveInv
  <2>5. ASSUME ClientClosed(c), task[c] # "none", ~TaskClosed(c) PROVE TaskCan(c)
    <3>1. task[c] \in {"queued", "reading", "serving", "writing", "waiting"}
      BY <2>2, <2>5 DEF Tasks, TaskClosed
    <3>2. reqRead[c] < reqSent[c] \/ reqRead[c] = reqSent[c]
      BY <2>1 DEF Counted
    <3>3. task[c] = "waiting" => reqRead[c] = reqSent[c]
      BY <2>1 DEF TaskInv, Counted, Frame
    <3> QED
      BY <2>1, <2>5, <3>1, <3>2, <3>3 DEF TaskCan, LiveInv
  <2> QED
    BY <2>3, <2>4, <2>5
<1> QED
  BY <1>1, ProgressInvariant, PTL

----------------------------------------------------------------------------
(* Steps of the ends of a call. *)

LEMMA TurnsType == \A t : Turns(t) \in 0..5
BY DEF Turns

LEMMA ClientWorks ==
    ASSUME IInv, NEW c \in Calls, ClientStep(c) \/ Interrupt(c)
    PROVE  Work(c)' < Work(c)
<1>1. Counted(c) /\ Turns(task[c]) \in 0..5
  BY AtCall, TurnsType
<1>2. task' = task /\ reqRead' = reqRead /\ ansSent' = ansSent /\ ~ClientClosed(c)
  BY DEF ClientStep, Withhold, Write, Receive, HangUp, Interrupt, wire, ClientClosed, Results
<1>3. \/ reqSent'[c] = reqSent[c] /\ ansRead'[c] = ansRead[c] /\ ClientClosed(c)'
      \/ reqSent'[c] = reqSent[c] + 1 /\ ansRead'[c] = ansRead[c]
      \/ reqSent'[c] = reqSent[c] /\ ansRead'[c] = ansRead[c] + 1
  <2>1. CASE Withhold(c) \/ HangUp(c) \/ Interrupt(c)
    BY <2>1 DEF Withhold, HangUp, Interrupt, wire, ClientClosed, Results, IInv, TypeOK
  <2>2. CASE Write(c)
    BY <2>2 DEF Write, IInv, TypeOK
  <2>3. CASE Receive(c)
    BY <2>3 DEF Receive, IInv, TypeOK
  <2> QED
    BY <2>1, <2>2, <2>3 DEF ClientStep
<1> QED
  BY <1>1, <1>2, <1>3 DEF Work, Counted, Frame

LEMMA TaskWorks ==
    ASSUME IInv, NEW c \in Calls, TaskStep(c)
    PROVE  Work(c)' < Work(c)
<1>1. Counted(c) /\ Turns(task[c]) \in 0..5 /\ Turns(task'[c]) \in 0..5
  BY AtCall, TurnsType
<1>2. client' = client /\ reqSent' = reqSent /\ ansRead' = ansRead
  BY DEF TaskStep, Accept, TurnAway, Read, ReadEnds, Dispatch, Respond, RespondFails, wire
<1>3. \/ /\ reqRead'[c] = reqRead[c] /\ ansSent'[c] = ansSent[c]
         /\ Turns(task'[c]) < Turns(task[c])
      \/ /\ reqRead'[c] = reqRead[c] + 1 /\ ansSent'[c] = ansSent[c]
         /\ Turns(task'[c]) <= Turns(task[c])
      \/ /\ reqRead'[c] = reqRead[c] /\ ansSent'[c] = ansSent[c] + 1
         /\ Turns(task'[c]) <= Turns(task[c])
  <2>1. CASE Accept(c) \/ TurnAway(c) \/ ReadEnds(c) \/ RespondFails(c) \/ Dispatch(c)
    <3>1. reqRead' = reqRead /\ ansSent' = ansSent
      BY <2>1 DEF Accept, TurnAway, ReadEnds, RespondFails, Dispatch, wire
    <3>2. \/ task[c] = "queued" /\ task'[c] \in {"reading", "ended"}
          \/ task[c] \in {"reading", "waiting", "writing"} /\ task'[c] = "ended"
          \/ task[c] = "serving" /\ task'[c] \in {"writing", "ended"}
      BY <2>1 DEF Accept, TurnAway, ReadEnds, RespondFails, Dispatch, TaskGoes, IInv, TypeOK
    <3> QED
      BY <3>1, <3>2 DEF Turns
  <2>2. CASE Read(c)
    <3>1. task[c] = "reading" /\ task'[c] \in {"rejected", "serving", "reading"}
      BY <2>2 DEF Read, TaskGoes, IInv, TypeOK
    <3>2. reqRead'[c] = reqRead[c] + 1 /\ ansSent' = ansSent
      BY <2>2 DEF Read, IInv, TypeOK
    <3> QED
      BY <3>1, <3>2 DEF Turns
  <2>3. CASE Respond(c)
    <3>1. task[c] = "writing" /\ task'[c] \in {"waiting", "writing"}
      BY <2>3 DEF Respond, TaskGoes, IInv, TypeOK
    <3>2. ansSent'[c] = ansSent[c] + 1 /\ reqRead' = reqRead
      BY <2>3 DEF Respond, IInv, TypeOK
    <3> QED
      BY <3>1, <3>2 DEF Turns
  <2> QED
    BY <2>1, <2>2, <2>3 DEF TaskStep
<1> QED
  BY <1>1, <1>2, <1>3 DEF Work, ClientClosed, Counted, Frame

(* Any other step leaves a call as it is, or ends its task. *)
LEMMA WorkOf ==
    ASSUME PInv, [Next]_vars, NEW c \in Calls, client[c] # "idle"
    PROVE  \/ Work(c)' < Work(c)
           \/ Frozen(c) /\ (task[c] = "queued" => daemon' = daemon)
<1>1. IInv /\ LiveInv(c)
  BY DEF PInv
<1>2. ASSUME NEW d \in Calls,
             (\E r \in Requests : Connect(d, r)) \/ ClientStep(d) \/ Interrupt(d) \/ TaskStep(d)
      PROVE  Work(c)' < Work(c) \/ (Frozen(c) /\ daemon' = daemon)
  <2>1. CASE d # c
    BY <1>1, <1>2, <2>1, OthersFrozen
  <2>2. CASE d = c
    <3>1. ~\E r \in Requests : Connect(c, r)
      BY DEF Connect
    <3> QED
      BY <1>1, <1>2, <2>2, <3>1, ClientWorks, TaskWorks
  <2> QED
    BY <2>1, <2>2
<1>3. CASE StopAccepting \/ Exit \/ Crash \/ Restart
  <2>1. CASE task'[c] = task[c]
    BY <1>1, <1>3, <2>1, DaemonEndsTasks DEF Frozen, LiveInv
  <2>2. CASE task'[c] = "ended" /\ task[c] \notin {"none", "rejected", "ended"}
    <3>1. Counted(c) /\ task[c] \in Tasks
      BY <1>1, AtCall DEF IInv, TypeOK
    <3>2. Turns(task'[c]) = 0 /\ Turns(task[c]) \in 1..5
      BY <2>2, <3>1 DEF Turns, Tasks
    <3>3. /\ client'[c] = client[c] /\ reqSent'[c] = reqSent[c] /\ reqRead'[c] = reqRead[c]
          /\ ansSent'[c] = ansSent[c] /\ ansRead'[c] = ansRead[c]
      BY <1>1, <1>3, DaemonEndsTasks
    <3> QED
      BY <3>1, <3>2, <3>3 DEF Work, ClientClosed, Counted, Frame
  <2> QED
    BY <1>1, <1>3, <2>1, <2>2, DaemonEndsTasks
<1>4. CASE UNCHANGED vars
  BY <1>4 DEF vars, wire, Frozen
<1> QED
  BY <1>2, <1>3, <1>4 DEF Next

LEMMA FrozenCan ==
    ASSUME NEW c \in Calls, Frozen(c), task[c] = "queued" => daemon' = daemon
    PROVE  /\ Work(c)' = Work(c)
           /\ ClientCan(c) => ClientCan(c)'
           /\ TaskCan(c) => TaskCan(c)'
<1>1. Work(c)' = Work(c)
  BY DEF Frozen, Work, ClientClosed
<1>2. ClientCan(c) => ClientCan(c)'
  BY DEF Frozen, ClientCan, TaskClosed, Room, MayWrite
<1>3. TaskCan(c) => TaskCan(c)'
  BY DEF Frozen, TaskCan, ClientClosed, Room
<1> QED
  BY <1>1, <1>2, <1>3

LEMMA WorkType ==
    ASSUME IInv, NEW c \in Calls
    PROVE  Work(c) \in 0..18
<1>1. Counted(c) /\ Turns(task[c]) \in 0..5
  BY AtCall, TurnsType
<1> QED
  BY <1>1 DEF Work, Counted, Frame

(* A call has at most 18 steps of its ends to make, whatever the others    *)
(* do: with SomeEndCan and weak fairness of both ends, it returns.         *)
THEOREM CallsRunOut == Spec => []WorkBounded /\ CallsRunDown
<1>1. PInv => WorkBounded
  BY WorkType DEF PInv, WorkBounded
<1>2. ASSUME PInv, WorkBounded, WorkBounded', [Next]_vars, NEW c \in Calls, client[c] # "idle"
      PROVE  /\ Work(c)' <= Work(c)
             /\ ClientStep(c) \/ TaskStep(c) => Work(c)' < Work(c)
             /\ Work(c)' = Work(c) => /\ ClientCan(c) => ClientCan(c)'
                                      /\ TaskCan(c) => TaskCan(c)'
  <2>1. IInv /\ Work(c) \in 0..18 /\ Work(c)' \in 0..18
    BY <1>2 DEF PInv, WorkBounded
  <2>2. CASE Work(c)' < Work(c)
    BY <2>1, <2>2
  <2>3. CASE Frozen(c) /\ (task[c] = "queued" => daemon' = daemon)
    BY <2>1, <2>3, FrozenCan, ClientWorks, TaskWorks
  <2> QED
    BY <1>2, <2>2, <2>3, WorkOf
<1>3. PInv /\ WorkBounded /\ WorkBounded' /\ [Next]_vars =>
        [\A c \in Calls : client[c] # "idle" =>
            /\ Work(c)' <= Work(c)
            /\ ClientStep(c) \/ TaskStep(c) => Work(c)' < Work(c)
            /\ Work(c)' = Work(c) => /\ ClientCan(c) => ClientCan(c)'
                                     /\ TaskCan(c) => TaskCan(c)']_vars
  BY <1>2
<1> QED
  BY <1>1, <1>3, ProgressInvariant, PTL DEF Spec, CallsRunDown

============================================================================
