------------------------------ MODULE Denylist ------------------------------
(***************************************************************************)
(* The tables apps_excluded and settings: the handlers that change them    *)
(* (src/handlers.rs), the statements they run (src/schema.rs) and the      *)
(* capture thread, which looks a source up before it stores a clip         *)
(* (src/capture.rs process_text, src/db.rs is_app_excluded).               *)
(*                                                                         *)
(* Everyone takes the mutex around the connection.  A handler that runs    *)
(* one statement that changes anything is one action here, taken when the  *)
(* mutex is free; the two that do more under one guard, UpdateSettings and *)
(* process_text, take several.                                             *)
(*                                                                         *)
(* Today's capture thread passes no source to is_app_excluded; its comment *)
(* says that the check is there to be right once it does.  Sources is what *)
(* it may pass then.                                                       *)
(***************************************************************************)
EXTENDS Naturals, FiniteSets

CONSTANTS
    Names,      \* names of applications, bundles and paths
    MaxId,      \* bound: no rule is added beyond this id
    Handlers,   \* requests under way at a time
    Keys,       \* keys of settings, numbered in the order of their names
    PausedKey,  \* "capture.paused"
    Values,     \* values of settings
    Nobody      \* nobody holds the mutex

ASSUME IdAssumption == MaxId \in Nat

ASSUME NameAssumption == "none" \notin Names

ASSUME KeyAssumption ==
    /\ Keys \subseteq Nat /\ PausedKey \in Keys
    /\ Values \cap {"absent", "doubt"} = {}

ASSUME HolderAssumption ==
    Nobody \notin Handlers \cup {"capture"} /\ "capture" \notin Handlers

Ids == 1 .. MaxId
Rules == [type : {"bundle_id", "app_name", "path_prefix"}, value : Names]
NoRule == [type |-> "none"]
Sources == [app : Names \cup {"none"}, bundle : Names \cup {"none"}]
NoSource == [app |-> "none", bundle |-> "none"]

VARIABLES
    rules,      \* apps_excluded: the rule at each id
    settings,   \* settings: the value at each key
    holder,     \* who holds the database mutex
    request,    \* per handler: the rows of the UpdateSettings it carries out
    left,       \* per handler: the keys of these rows not written yet
    source,     \* the source of the clip process_text is about to store
    \* history variables
    listed,     \* the answer of one client's last ListExcludedApps
    sunk,       \* the ids that, since then, were at some time above every rule
    promised,   \* per key: what the last request about it promised by Ok
    unsaved     \* the keys whose last request was answered Ok without its row

tables == <<rules, settings>>
writers == <<holder, request, left>>
vars == <<tables, writers, source, listed, sunk, promised, unsaved>>

NoRows == [k \in {} |-> "absent"]

(* The rows of an UpdateSettings: a JSON object, its members by name.      *)
Updates == UNION {[ks -> Values] : ks \in SUBSET Keys}

Present(table) == {i \in Ids : table[i] # NoRule}

LowestFreeId(i) == i \notin Present(rules) /\ 1 .. i - 1 \subseteq Present(rules)

(* INTEGER PRIMARY KEY without AUTOINCREMENT: one more than the largest    *)
(* id there is.                                                            *)
NextId(i) ==
    /\ \A j \in Present(rules) : j < i
    /\ i = 1 \/ i - 1 \in Present(rules)

(* is_app_excluded: rules about paths are never looked at. *)
Excluded(s) ==
    \E i \in Present(rules) :
        \/ rules[i].type = "app_name" /\ s.app = rules[i].value
        \/ rules[i].type = "bundle_id" /\ s.bundle = rules[i].value

Init ==
    /\ rules \in [Ids -> Rules \cup {NoRule}]
    /\ \A i, j \in Ids : i < j /\ rules[j] # NoRule => rules[i] \notin {NoRule, rules[j]}
    /\ settings = [k \in Keys |-> "absent"]
    /\ holder = Nobody
    /\ request = [h \in Handlers |-> NoRows]
    /\ left = [h \in Handlers |-> {}]
    /\ source = NoSource
    /\ listed = rules /\ sunk = {}
    /\ promised = settings /\ unsaved = {}

----------------------------------------------------------------------------
(* Rules. *)

ListExcludedApps ==
    /\ holder = Nobody
    /\ listed' = rules /\ sunk' = {}
    /\ UNCHANGED <<tables, writers, source, promised, unsaved>>

(* INSERT OR IGNORE: a rule that is there already keeps its id.  (A request *)
(* with another match_type than the three is answered with an error.)      *)
AddExcludedApp(r) ==
    /\ holder = Nobody
    /\ \A j \in Present(rules) : rules[j] # r
    /\ \E i \in Ids : NextId(i) /\ rules' = [rules EXCEPT ![i] = r]
    /\ UNCHANGED <<settings, writers, source, listed, sunk, promised, unsaved>>

RemoveExcludedApp(i) ==
    /\ holder = Nobody
    /\ rules' = [rules EXCEPT ![i] = NoRule]
    /\ sunk' = sunk \cup {k \in Ids : \A j \in Present(rules) \ {i} : j < k}
    /\ UNCHANGED <<settings, writers, source, listed, promised, unsaved>>

----------------------------------------------------------------------------
(* Settings. *)

BeginUpdate(h, rows) ==
    /\ holder = Nobody
    /\ holder' = h
    /\ request' = [request EXCEPT ![h] = rows]
    /\ left' = [left EXCEPT ![h] = DOMAIN rows]
    /\ UNCHANGED <<tables, source, listed, sunk, promised, unsaved>>

SkipFailedRow(h, k) ==
    /\ k \in left[h] /\ \A j \in left[h] : k <= j
    /\ settings' \in {settings, [settings EXCEPT ![k] = request[h][k]]}
    /\ left' = [left EXCEPT ![h] = @ \ {k}]
    /\ UNCHANGED <<rules, holder, request, source, listed, sunk, promised, unsaved>>

(* apply_settings writes one row at a time, each its own transaction. *)
WriteRow(h, k) ==
    /\ k \in left[h] /\ \A j \in left[h] : k <= j
    /\ settings' = [settings EXCEPT ![k] = request[h][k]]
    /\ left' = [left EXCEPT ![h] = @ \ {k}]
    /\ UNCHANGED <<rules, holder, request, source, listed, sunk, promised, unsaved>>

(* The request is over: its keys have what it was given, or are in doubt.  *)
EndUpdate(h, outcome) ==
    /\ holder' = Nobody
    /\ promised' = [k \in Keys |-> IF k \in DOMAIN request[h] THEN outcome[k] ELSE promised[k]]
    /\ unsaved' = unsaved \ DOMAIN request[h]
    /\ request' = [request EXCEPT ![h] = NoRows]

(* Ok is answered when every row is written. *)
AnswerOk(h) ==
    /\ request[h] # NoRows /\ left[h] = {}
    /\ EndUpdate(h, request[h])
    /\ UNCHANGED <<tables, left, source, listed, sunk>>

(* A statement fails: the rows before it stay. *)
AnswerError(h) ==
    /\ left[h] # {}
    /\ EndUpdate(h, [k \in Keys |-> "doubt"])
    /\ left' = [left EXCEPT ![h] = {}]
    /\ UNCHANGED <<tables, source, listed, sunk>>

(* SetPaused answers Ok whether or not its row was written. *)
SetPausedRow(v) ==
    /\ holder = Nobody
    /\ promised' = [promised EXCEPT ![PausedKey] = v]
    /\ \/ /\ settings' = [settings EXCEPT ![PausedKey] = v]
          /\ unsaved' = unsaved \ {PausedKey}
       \/ /\ unsaved' = unsaved \cup {PausedKey}
          /\ UNCHANGED settings
    /\ UNCHANGED <<rules, writers, source, listed, sunk>>

----------------------------------------------------------------------------
(* The capture thread. *)

CheckSourceUnlocked(s) ==
    /\ source = NoSource
    /\ ~Excluded(s)
    /\ source' = s
    /\ UNCHANGED <<tables, writers, listed, sunk, promised, unsaved>>

(* It takes the mutex and keeps it until the clip is stored.  A clip from  *)
(* an excluded source is dropped, which changes nothing here.              *)
CheckSource(s) ==
    /\ holder = Nobody
    /\ ~Excluded(s)
    /\ holder' = "capture" /\ source' = s
    /\ UNCHANGED <<tables, request, left, listed, sunk, promised, unsaved>>

StoreClip ==
    /\ source # NoSource
    /\ holder' = Nobody /\ source' = NoSource
    /\ UNCHANGED <<tables, request, left, listed, sunk, promised, unsaved>>

----------------------------------------------------------------------------
(* The process dies and another one starts; what was written stays. *)
Restart ==
    /\ holder' = Nobody /\ source' = NoSource
    /\ promised' = [k \in Keys |->
          IF \E h \in Handlers : k \in DOMAIN request[h] THEN "doubt" ELSE promised[k]]
    /\ request' = [h \in Handlers |-> NoRows]
    /\ left' = [h \in Handlers |-> {}]
    /\ UNCHANGED <<tables, listed, sunk, unsaved>>

Next ==
    \/ ListExcludedApps
    \/ \E r \in Rules : AddExcludedApp(r)
    \/ \E i \in Present(rules) : RemoveExcludedApp(i)
    \/ \E h \in Handlers :
        \/ \E rows \in Updates \ {NoRows} : BeginUpdate(h, rows)
        \/ \E k \in Keys : WriteRow(h, k)
        \/ AnswerOk(h) \/ AnswerError(h)
    \/ \E v \in Values : SetPausedRow(v)
    \/ \E s \in Sources \ {NoSource} : CheckSource(s)
    \/ StoreClip
    \/ Restart

Spec == Init /\ [][Next]_vars

----------------------------------------------------------------------------
(* Properties. *)

TypeOK ==
    /\ rules \in [Ids -> Rules \cup {NoRule}]
    /\ listed \in [Ids -> Rules \cup {NoRule}]
    /\ settings \in [Keys -> Values \cup {"absent"}]
    /\ promised \in [Keys -> Values \cup {"absent", "doubt"}]
    /\ unsaved \subseteq Keys
    /\ holder \in Handlers \cup {"capture", Nobody}
    /\ request \in [Handlers -> Updates]
    /\ left \in [Handlers -> SUBSET Keys]
    /\ \A h \in Handlers : left[h] \subseteq DOMAIN request[h]
    /\ \A h \in Handlers : request[h] # NoRows => holder = h
    /\ source \in Sources
    /\ source # NoSource => holder = "capture"
    /\ sunk \subseteq Ids

(* A client that removes a rule by its listing removes the rule it saw     *)
(* under that id, or none, unless the id was for a time above every rule   *)
(* there was, when SQLite gives it out again (schema.rs add_excluded_app). *)
ListingHolds ==
    \A i \in Present(listed) \cap Present(rules) : i \in sunk \/ rules[i] = listed[i]

(* No clip is stored from an application that a rule excludes at the time, *)
(* however the requests that add rules interleave with the capture thread  *)
(* (capture.rs process_text).                                              *)
NeverStoredWhileExcluded == source # NoSource => ~Excluded(source)

(* A setting has the value that the last request about it was told it has: *)
(* requests do not mix, and one that was cut short was not answered Ok     *)
(* (handlers.rs apply_settings).  SetPaused is the exception: it answers   *)
(* Ok although its row was not written (handlers.rs:120), and until the    *)
(* next request about that key ends the row may have another value than    *)
(* the one acknowledged.  No other request may answer so.                  *)
SettingsKept ==
    \A k \in Keys :
        \/ promised[k] \in {"doubt", settings[k]}
        \/ k = PausedKey /\ k \in unsaved
        \/ \E h \in Handlers : k \in DOMAIN request[h]

============================================================================
