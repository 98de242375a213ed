------------------------------ MODULE History ------------------------------
(***************************************************************************)
(* What the clip store promises its callers (the capture thread and the    *)
(* IPC handlers), without saying how: a history is a set of entries, each  *)
(* pairing an id with a content.  One request is served at a time; its     *)
(* effect happens at most once, between the request and its answer; an     *)
(* "ok" answer is only given after the effect; "not_found" only for an id  *)
(* that is not there; an "err" answer (or no answer, after a crash) may or *)
(* may not have had its effect.  Nothing else ever changes the history.    *)
(*                                                                         *)
(* ClipStore, which performs each request as a sequence of SQL statements, *)
(* is shown to implement this specification.                               *)
(***************************************************************************)

CONSTANTS
    Contents,   \* what can be copied (identified by content hash)
    Ids,        \* clip ids
    NoRequest   \* none of the requests: nothing is being served

VARIABLES
    entries,    \* set of <<id, content>>
    request,    \* the request being served, or NoRequest
    applied,    \* has its effect already happened?
    answer      \* the last answer given

vars == <<entries, request, applied, answer>>

Requests == [kind : {"store"}, content : Contents]
              \cup [kind : {"delete"}, id : Ids]
              \cup {[kind |-> "clear"]}

Init ==
    /\ entries = {}
    /\ request = NoRequest
    /\ applied = FALSE
    /\ answer = "none"

Known(c) == \E e \in entries : e[2] = c
Present(id) == \E e \in entries : e[1] = id

(***************************************************************************)
(* The effect of each kind of request on the entries.  Storing a content   *)
(* the history already knows leaves the entries alone (deduplication); a   *)
(* new content enters under an id that is not in use.                      *)
(***************************************************************************)
StoreEffect(r) ==
    /\ r.kind = "store"
    /\ IF Known(r.content)
       THEN UNCHANGED entries
       ELSE \E id \in Ids : /\ ~Present(id)
                            /\ entries' = entries \cup {<<id, r.content>>}

DeleteEffect(r) ==
    /\ r.kind = "delete"
    /\ Present(r.id)
    /\ entries' = {e \in entries : e[1] # r.id}

ClearEffect(r) == r.kind = "clear" /\ entries' = {}

Effect(r) == StoreEffect(r) \/ DeleteEffect(r) \/ ClearEffect(r)

----------------------------------------------------------------------------

Ask(r) ==
    /\ request = NoRequest
    /\ request' = r
    /\ applied' = FALSE
    /\ answer' = "none"
    /\ UNCHANGED entries

(* The effect, together with the answer or ahead of it. *)
Apply ==
    /\ request # NoRequest
    /\ ~applied
    /\ Effect(request)
    /\ \/ applied' = TRUE /\ UNCHANGED <<request, answer>>
       \/ applied' = FALSE /\ request' = NoRequest /\ answer' = "ok"

AnswerOk ==
    /\ request # NoRequest
    /\ applied
    /\ request' = NoRequest
    /\ applied' = FALSE
    /\ answer' = "ok"
    /\ UNCHANGED entries

AnswerNotFound ==
    /\ request # NoRequest /\ ~applied
    /\ request.kind = "delete"
    /\ ~Present(request.id)
    /\ request' = NoRequest
    /\ answer' = "not_found"
    /\ UNCHANGED <<entries, applied>>

(* An error, or a crash that loses the answer. *)
Abandon ==
    /\ request # NoRequest
    /\ request' = NoRequest
    /\ applied' = FALSE
    /\ answer' \in {"err", "none"}
    /\ UNCHANGED entries

Next ==
    \/ \E r \in Requests : Ask(r)
    \/ Apply
    \/ AnswerOk
    \/ AnswerNotFound
    \/ Abandon

Spec == Init /\ [][Next]_vars

============================================================================
