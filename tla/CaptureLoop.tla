---------------------------- MODULE CaptureLoop ----------------------------
(***************************************************************************)
(* The capture thread of the daemon (clipboard-daemon src/capture.rs), the *)
(* clipboard it polls, and the IPC handlers that share AppState with it:   *)
(* SetPaused, Delete and Clear (src/handlers.rs, src/state.rs).            *)
(*                                                                         *)
(* A poll looks at the pause flag, then reads the clipboard, then stores   *)
(* what it read; anything may happen between these steps.  The database    *)
(* is behind a mutex, so a store, a deletion and a clear are one step each *)
(* (ClipStore opens them up); the history is the set of stored texts.  A   *)
(* text stands for its normalized form.                                    *)
(***************************************************************************)
EXTENDS Naturals

CONSTANTS
    Texts,          \* what the user copies, normalized and not empty
    Secrets,        \* those looks_secret recognizes, when the config says to
    NoText,         \* an empty or unavailable clipboard; no hash yet
    Clients,        \* connections that may send SetPaused
    PausedInFile    \* capture.paused in config.toml

ASSUME TextAssumption == Secrets \subseteq Texts /\ NoText \notin Texts

ASSUME FileAssumption == PausedInFile \in BOOLEAN

VARIABLES
    clipboard,  \* the text on the OS clipboard
    history,    \* the texts in the store
    paused,     \* AppState.paused, the flag the capture thread obeys
    cfgPaused,  \* AppState.config's capture.paused
    rowPaused,  \* the settings row capture.paused
    shutdown,   \* the shared shutdown flag
    cap,        \* the capture thread: "top", "read", "store" or "stopped"
    seen,       \* the text it read from the clipboard
    lastHash,   \* last_hash: the last text it has dealt with
    handler,    \* per client: the next step of its SetPaused handler
    wanted,     \* per client: the value it was asked to set
    owed,       \* history variable: is the clipboard's text still to be dealt with?
    gone,       \* history variable: texts deleted once dealt with, not copied since
    copied,     \* history variable: the copy the user expects to find stored
    late        \* history variable: stores since the flag was last raised

tables == <<history, rowPaused>>
flags == <<paused, cfgPaused, handler, wanted>>
thread == <<cap, seen, lastHash>>
auxiliary == <<owed, gone, copied, late>>
vars == <<clipboard, tables, flags, shutdown, thread, auxiliary>>

----------------------------------------------------------------------------

Init ==
    /\ clipboard = NoText
    /\ history = {}
    /\ paused = PausedInFile
    /\ cfgPaused = PausedInFile
    /\ rowPaused \in BOOLEAN
    /\ shutdown = FALSE
    /\ cap = "top" /\ seen = NoText /\ lastHash = NoText
    /\ handler = [u \in Clients |-> "idle"]
    /\ wanted = [u \in Clients |-> FALSE]
    /\ owed = FALSE /\ gone = {} /\ copied = NoText /\ late = 0

----------------------------------------------------------------------------
(* The user, in another application. *)

Copy(text) ==
    /\ clipboard' = text
    /\ owed' = TRUE
    /\ gone' = gone \ {text}
    /\ copied' = text
    /\ UNCHANGED <<tables, flags, shutdown, thread, late>>

----------------------------------------------------------------------------
(* The capture thread. *)

PollIgnoringPause ==
    /\ cap = "top" /\ ~shutdown
    /\ cap' = "read"
    /\ UNCHANGED <<clipboard, tables, flags, shutdown, seen, lastHash, auxiliary>>

(* One turn of the loop begins; while paused it only sleeps. *)
Poll ==
    /\ cap = "top" /\ ~shutdown /\ ~paused
    /\ cap' = "read"
    /\ UNCHANGED <<clipboard, tables, flags, shutdown, seen, lastHash, auxiliary>>

TakeUpSecrets(text) ==
    /\ seen' = text
    /\ \/ text \in {NoText, lastHash} /\ cap' = "top"
       \/ text \in Texts \ {lastHash} /\ cap' = "store"
    /\ UNCHANGED lastHash

TakeUpEagerly(text) ==
    /\ seen' = text
    /\ \/ text \in {NoText, lastHash} /\ cap' = "top" /\ UNCHANGED lastHash
       \/ text \in Secrets \ {lastHash} /\ cap' = "top" /\ lastHash' = text
       \/ text \in Texts \ (Secrets \cup {lastHash})
            /\ cap' = "store" /\ lastHash' = text

(* The clipboard is read, and the text taken up unless it is the last one  *)
(* dealt with.  A secret is dealt with by ignoring it.                     *)
TakeUp(text) ==
    /\ seen' = text
    /\ \/ text \in {NoText, lastHash} /\ cap' = "top" /\ UNCHANGED lastHash
       \/ text \in Secrets \ {lastHash} /\ cap' = "top" /\ lastHash' = text
       \/ text \in Texts \ (Secrets \cup {lastHash})
            /\ cap' = "store" /\ UNCHANGED lastHash

Read ==
    /\ cap = "read"
    /\ TakeUp(clipboard)
    /\ owed' = (owed /\ cap' = "store")
    /\ UNCHANGED <<clipboard, tables, flags, shutdown, gone, copied, late>>

(* The clipboard cannot be read this time. *)
ReadFails ==
    /\ cap = "read"
    /\ cap' = "top"
    /\ UNCHANGED <<clipboard, tables, flags, shutdown, seen, lastHash, auxiliary>>

CountLate == late' = IF paused THEN late + 1 ELSE late

(* The text is in the history; that settles the copy on the clipboard, if  *)
(* it is a copy of the same text.                                          *)
Stored ==
    /\ cap = "store"
    /\ history' = history \cup {seen}
    /\ cap' = "top"
    /\ owed' = (owed /\ clipboard # seen)
    /\ CountLate
    /\ UNCHANGED <<clipboard, rowPaused, flags, shutdown, seen, gone, copied>>

StoreWithoutHash == Stored /\ UNCHANGED lastHash

(* store_capture under the mutex: inserted, or already there. *)
Store == Stored /\ lastHash' = seen

(* It fails, before or after the row was inserted: the error is logged, and *)
(* the hash stays what it was, so that the next poll tries again.           *)
StoreFails ==
    /\ cap = "store"
    /\ history' \in {history, history \cup {seen}}
    /\ cap' = "top"
    /\ CountLate
    /\ UNCHANGED <<clipboard, rowPaused, flags, shutdown, seen, lastHash, owed,
                   gone, copied>>

StopUnlessPaused ==
    /\ cap = "top" /\ shutdown /\ ~paused
    /\ cap' = "stopped"
    /\ UNCHANGED <<clipboard, tables, flags, shutdown, seen, lastHash, auxiliary>>

(* The thread sees the shutdown flag at the top of the loop and ends. *)
Stop ==
    /\ cap = "top" /\ shutdown
    /\ cap' = "stopped"
    /\ UNCHANGED <<clipboard, tables, flags, shutdown, seen, lastHash, auxiliary>>

----------------------------------------------------------------------------
(* The handlers.  Each request has its own task; a client sends one request *)
(* at a time.                                                               *)

Serving == cap # "stopped"

(* SetPaused: the atomic flag, then the config under its own lock, then the *)
(* settings row under the database mutex (an error there is ignored).       *)
SetFlag(u, value) ==
    /\ Serving /\ handler[u] = "idle"
    /\ paused' = value
    /\ wanted' = [wanted EXCEPT ![u] = value]
    /\ handler' = [handler EXCEPT ![u] = "config"]
    /\ late' = IF value /\ ~paused THEN 0 ELSE late
    /\ UNCHANGED <<clipboard, tables, cfgPaused, shutdown, thread, owed, gone,
                   copied>>

SetConfig(u) ==
    /\ Serving /\ handler[u] = "config"
    /\ cfgPaused' = wanted[u]
    /\ handler' = [handler EXCEPT ![u] = "row"]
    /\ UNCHANGED <<clipboard, tables, paused, wanted, shutdown, thread, auxiliary>>

SetRow(u) ==
    /\ Serving /\ handler[u] = "row"
    /\ rowPaused' \in {rowPaused, wanted[u]}
    /\ handler' = [handler EXCEPT ![u] = "idle"]
    /\ UNCHANGED <<clipboard, history, paused, cfgPaused, wanted, shutdown,
                   thread, auxiliary>>

(* The daemon has dealt with every copy of the text made so far: it is not *)
(* about to store one, and does not owe one to the clipboard.              *)
Settled(text) ==
    /\ ~(cap = "store" /\ seen = text)
    /\ ~(clipboard = text /\ owed)

(* Delete or Clear takes texts out of the history. *)
Remove(removed) ==
    /\ history' = history \ removed
    /\ gone' = gone \cup {t \in removed : Settled(t)}
    /\ copied' = IF copied \in removed THEN NoText ELSE copied
    /\ UNCHANGED <<clipboard, rowPaused, flags, shutdown, thread, owed, late>>

Delete(text) == Serving /\ text \in history /\ Remove({text})

Clear == Serving /\ Remove(history)

----------------------------------------------------------------------------
(* The end of the process, and the next one. *)

Signal ==
    /\ Serving /\ ~shutdown
    /\ shutdown' = TRUE
    /\ UNCHANGED <<clipboard, tables, flags, thread, auxiliary>>

(* The process dies; if it was storing, the row is there or is not. *)
Crash ==
    /\ Serving
    /\ history' \in {history} \cup {history \cup {seen} : s \in {cap} \cap {"store"}}
    /\ cap' = "stopped"
    /\ UNCHANGED <<clipboard, rowPaused, flags, shutdown, seen, lastHash, auxiliary>>

(* A new daemon reads config.toml, and knows nothing of the clipboard. *)
Restart ==
    /\ cap = "stopped"
    /\ cap' = "top" /\ seen' = NoText /\ lastHash' = NoText
    /\ paused' = PausedInFile /\ cfgPaused' = PausedInFile
    /\ handler' = [u \in Clients |-> "idle"]
    /\ shutdown' = FALSE
    /\ owed' = TRUE
    /\ gone' = gone \ {clipboard}
    /\ late' = 0
    /\ UNCHANGED <<clipboard, tables, wanted, copied>>

CaptureStep == Poll \/ Read \/ ReadFails \/ Store \/ StoreFails \/ Stop

HandlerStep ==
    \/ \E u \in Clients, value \in BOOLEAN : SetFlag(u, value)
    \/ \E u \in Clients : SetConfig(u) \/ SetRow(u)
    \/ \E text \in Texts : Delete(text)
    \/ Clear

Next ==
    \/ \E text \in Texts \cup {NoText} : Copy(text)
    \/ CaptureStep
    \/ HandlerStep
    \/ Signal \/ Crash \/ Restart

Spec == Init /\ [][Next]_vars

(* The thread keeps turning; the clipboard is not unreadable for ever, and *)
(* the store does not fail for ever.                                       *)
Fairness ==
    /\ WF_vars(CaptureStep)
    /\ SF_vars(Read)
    /\ SF_vars(Store)

FairSpec == Spec /\ Fairness

----------------------------------------------------------------------------
(* Properties. *)

TypeOK ==
    /\ clipboard \in Texts \cup {NoText}
    /\ history \subseteq Texts \ Secrets
    /\ paused \in BOOLEAN /\ cfgPaused \in BOOLEAN /\ rowPaused \in BOOLEAN
    /\ shutdown \in BOOLEAN
    /\ cap \in {"top", "read", "store", "stopped"}
    /\ seen \in Texts \cup {NoText} /\ lastHash \in Texts \cup {NoText}
    /\ cap = "store" => seen \in Texts \ Secrets
    /\ handler \in [Clients -> {"idle", "config", "row"}]
    /\ wanted \in [Clients -> BOOLEAN]
    /\ owed \in BOOLEAN /\ gone \subseteq Texts /\ copied \in Texts \cup {NoText}
    /\ late \in Nat

(* A clip the user deleted or cleared does not come back by itself: not by *)
(* a poll that was under way, not because its text is still on the         *)
(* clipboard for every poll to see.  Once the daemon has dealt with a copy *)
(* (process_text), only copying the text again, or restarting the daemon   *)
(* while it is on the clipboard, can bring it back.                        *)
NoResurrection == gone \cap history = {}

(* Once the pause flag is up, at most one more text is stored until it is  *)
(* lowered: the one of the poll that had looked at the flag before.        *)
AtMostOneAfterPause == late <= 1

(* A text is never given up: last_hash moves to a text that is not a       *)
(* secret only when that text was stored, in the same step.                *)
SkippedOnlyWhenStored ==
    [][\A t \in Texts \ Secrets :
         (lastHash # t /\ lastHash' = t) => t \in history']_vars

(* A text that stays on the clipboard is stored, through any number of     *)
(* failed reads and stores, unless the daemon is paused or ended first.    *)
EventuallyStored ==
    \A t \in Texts \ Secrets :
        (clipboard = t /\ lastHash # t)
          ~> (t \in history \/ clipboard # t \/ paused \/ ~Serving)

(* A daemon told to end does: the capture thread does not outlive its poll. *)
ShutdownEnds == (shutdown /\ Serving) ~> ~Serving

(* Every text copied while the daemon runs is found in the history, unless *)
(* it is a secret, or is deleted or replaced first.                        *)
CopiedIsStored ==
    \A t \in Texts \ Secrets :
        copied = t ~> (t \in history \/ copied # t \/ paused \/ ~Serving)

============================================================================
