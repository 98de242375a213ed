-------------------------- MODULE DenylistProofs --------------------------
(***************************************************************************)
(* Proofs about Denylist: for any number of handlers, names, settings and  *)
(* rules.  Everything but the listing rests on the mutex, which TypeOK has *)
(* as who may have a request or a clip under way.                          *)
(***************************************************************************)
EXTENDS Denylist, TLAPS

USE IdAssumption, NameAssumption, KeyAssumption, HolderAssumption

LEMMA UpdatesAre ==
    ASSUME NEW f \in Updates
    PROVE  /\ DOMAIN f \subseteq Keys
           /\ \A k \in DOMAIN f : f[k] \in Values
           /\ f = [k \in DOMAIN f |-> f[k]]
  BY DEF Updates

LEMMA NoRowsIsUpdate == NoRows \in Updates /\ DOMAIN NoRows = {}
<1>1. NoRows \in [{} -> Values]
  BY DEF NoRows
<1> QED BY <1>1 DEF Updates, NoRows

(* Only the empty update has no keys. *)
LEMMA RowsHaveKeys ==
    ASSUME NEW f \in Updates, DOMAIN f = {} PROVE f = NoRows
<1>1. f = [k \in {} |-> f[k]]
  BY UpdatesAre
<1>2. [k \in {} |-> f[k]] = [k \in {} |-> "absent"]
  OBVIOUS
<1> QED BY <1>1, <1>2 DEF NoRows

----------------------------------------------------------------------------
(* Types, and the mutex: whoever has something under way holds it.         *)

THEOREM TypeCorrect == Spec => []TypeOK
<1>1. Init => TypeOK
  <2> SUFFICES ASSUME Init PROVE TypeOK
    OBVIOUS
  <2>1. settings \in [Keys -> Values \cup {"absent"}]
        /\ promised \in [Keys -> Values \cup {"absent", "doubt"}]
    BY DEF Init
  <2>2. request \in [Handlers -> Updates]
        /\ (\A h \in Handlers : left[h] \subseteq DOMAIN request[h])
        /\ (\A h \in Handlers : request[h] = NoRows)
    BY NoRowsIsUpdate DEF Init
  <2>3. source \in Sources
    BY DEF Init, Sources, NoSource
  <2> QED BY <2>1, <2>2, <2>3 DEF Init, TypeOK
<1>2. TypeOK /\ [Next]_vars => TypeOK'
  <2> SUFFICES ASSUME TypeOK, [Next]_vars PROVE TypeOK'
    OBVIOUS
  <2> USE DEF TypeOK
  <2>1. CASE ListExcludedApps
    BY <2>1 DEF ListExcludedApps, tables, writers
  <2>2. ASSUME NEW r \in Rules, AddExcludedApp(r) PROVE TypeOK'
    BY <2>2 DEF AddExcludedApp, writers
  <2>3. ASSUME NEW i \in Present(rules), RemoveExcludedApp(i) PROVE TypeOK'
    BY <2>3 DEF RemoveExcludedApp, writers
  <2>4. ASSUME NEW h \in Handlers, NEW rows \in Updates, BeginUpdate(h, rows) PROVE TypeOK'
    <3>1. request' \in [Handlers -> Updates]
      BY <2>4 DEF BeginUpdate
    <3>2. \A g \in Handlers : left'[g] \subseteq DOMAIN request'[g]
      BY <2>4 DEF BeginUpdate
    <3>3. \A g \in Handlers : request'[g] # NoRows => holder' = g
      BY <2>4 DEF BeginUpdate
    <3>5. left' \in [Handlers -> SUBSET Keys]
      BY <2>4, UpdatesAre DEF BeginUpdate
    <3>4. source' # NoSource => holder' = "capture"
      BY <2>4 DEF BeginUpdate
    <3> QED BY <2>4, <3>1, <3>2, <3>3, <3>4, <3>5 DEF BeginUpdate, tables
  <2>5. ASSUME NEW h \in Handlers, NEW k \in Keys, WriteRow(h, k) PROVE TypeOK'
    <3>1. request[h][k] \in Values
      BY <2>5, UpdatesAre DEF WriteRow
    <3>2. settings' \in [Keys -> Values \cup {"absent"}]
      BY <2>5, <3>1 DEF WriteRow
    <3>3. \A g \in Handlers : left'[g] \subseteq DOMAIN request'[g]
      BY <2>5 DEF WriteRow
    <3> QED BY <2>5, <3>2, <3>3 DEF WriteRow
  <2>6. ASSUME NEW h \in Handlers, NEW outcome, EndUpdate(h, outcome),
               \A k \in DOMAIN request[h] : outcome[k] \in Values \cup {"doubt"}
        PROVE  /\ promised' \in [Keys -> Values \cup {"absent", "doubt"}]
               /\ unsaved' \subseteq Keys
               /\ request' \in [Handlers -> Updates]
               /\ \A g \in Handlers : request'[g] # NoRows => g # h /\ holder = g
               /\ holder' = Nobody
    BY <2>6, NoRowsIsUpdate DEF EndUpdate
  <2>7. ASSUME NEW h \in Handlers, AnswerOk(h) PROVE TypeOK'
    <3>1. \A k \in DOMAIN request[h] : request[h][k] \in Values \cup {"doubt"}
      BY UpdatesAre
    <3>2. /\ promised' \in [Keys -> Values \cup {"absent", "doubt"}]
          /\ unsaved' \subseteq Keys
          /\ request' \in [Handlers -> Updates]
          /\ \A g \in Handlers : request'[g] # NoRows => g # h /\ holder = g
          /\ holder' = Nobody
      BY <2>6, <2>7, <3>1 DEF AnswerOk
    <3>3. holder = h
      BY <2>7 DEF AnswerOk
    <3>4. \A g \in Handlers : left'[g] \subseteq DOMAIN request'[g]
      BY <2>7 DEF AnswerOk, EndUpdate
    <3> QED BY <2>7, <3>2, <3>3, <3>4 DEF AnswerOk, tables
  <2>8. ASSUME NEW h \in Handlers, AnswerError(h) PROVE TypeOK'
    <3>1. \A k \in DOMAIN request[h] : [j \in Keys |-> "doubt"][k] \in Values \cup {"doubt"}
      BY UpdatesAre
    <3>2. /\ promised' \in [Keys -> Values \cup {"absent", "doubt"}]
          /\ unsaved' \subseteq Keys
          /\ request' \in [Handlers -> Updates]
          /\ \A g \in Handlers : request'[g] # NoRows => g # h /\ holder = g
          /\ holder' = Nobody
      BY <2>6, <2>8, <3>1 DEF AnswerError
    <3>3. holder = h
      BY <2>8, NoRowsIsUpdate DEF AnswerError
    <3>4. \A g \in Handlers : left'[g] \subseteq DOMAIN request'[g]
      BY <2>8 DEF AnswerError, EndUpdate
    <3> QED BY <2>8, <3>2, <3>3, <3>4 DEF AnswerError, tables
  <2>9. ASSUME NEW v \in Values, SetPausedRow(v) PROVE TypeOK'
    <3>1. /\ settings' \in [Keys -> Values \cup {"absent"}]
          /\ promised' \in [Keys -> Values \cup {"absent", "doubt"}]
      BY <2>9 DEF SetPausedRow
    <3>2. unsaved' \subseteq Keys
      BY <2>9 DEF SetPausedRow
    <3> QED BY <2>9, <3>1, <3>2 DEF SetPausedRow, writers
  <2>10. ASSUME NEW s \in Sources, CheckSource(s) PROVE TypeOK'
    BY <2>10 DEF CheckSource, tables
  <2>11. CASE StoreClip
    BY <2>11 DEF StoreClip, tables, Sources, NoSource
  <2>12. CASE Restart
    <3>1. promised' \in [Keys -> Values \cup {"absent", "doubt"}]
      BY <2>12 DEF Restart
    <3>2. request' \in [Handlers -> Updates] /\ \A h \in Handlers : request'[h] = NoRows
      BY <2>12, NoRowsIsUpdate DEF Restart
    <3>3. \A h \in Handlers : left'[h] \subseteq DOMAIN request'[h]
      BY <2>12 DEF Restart
    <3>4. source' \in Sources /\ source' = NoSource
      BY <2>12 DEF Restart, Sources, NoSource
    <3> QED BY <2>12, <3>1, <3>2, <3>3, <3>4 DEF Restart, tables
  <2>13. CASE UNCHANGED vars
    BY <2>13 DEF vars, tables, writers
  <2> QED BY <2>1, <2>2, <2>3, <2>4, <2>5, <2>7, <2>8, <2>9, <2>10, <2>11, <2>12, <2>13 DEF Next
<1> QED BY <1>1, <1>2, PTL DEF Spec

----------------------------------------------------------------------------
(* Listings. *)

(* A rule that was listed and is gone has a rule above it, which keeps its *)
(* id from being given out, until the id is sunk.                          *)
ListingInv ==
    \A i \in Present(listed) :
        \/ rules[i] = listed[i]
        \/ i \in sunk
        \/ rules[i] = NoRule /\ \E j \in Present(rules) : i < j

(* A removal by a listing takes the rule that was listed, unless its id    *)
(* was above every rule in between (schema.rs add_excluded_app,            *)
(* remove_excluded_app).                                                   *)
THEOREM ListingsHold == Spec => []ListingHolds
<1>1. Init => ListingInv
  BY DEF Init, ListingInv
<1>2. TypeOK /\ ListingInv /\ [Next]_vars => ListingInv'
  <2> SUFFICES ASSUME TypeOK, ListingInv, [Next]_vars PROVE ListingInv'
    OBVIOUS
  <2>1. CASE ListExcludedApps
    BY <2>1 DEF ListExcludedApps, ListingInv, tables
  <2>2. ASSUME NEW r \in Rules, AddExcludedApp(r) PROVE ListingInv'
    <3>1. PICK n \in Ids : NextId(n) /\ rules' = [rules EXCEPT ![n] = r]
      BY <2>2 DEF AddExcludedApp
    <3>2. r # NoRule
      BY DEF Rules, NoRule
    <3>3. Present(rules)' = Present(rules) \cup {n}
      BY <3>1, <3>2 DEF Present, TypeOK
    <3>4. \A j \in Present(rules) : j < n /\ rules'[j] = rules[j]
      BY <3>1 DEF NextId, Present, TypeOK, Ids
    <3>5. UNCHANGED <<listed, sunk>>
      BY <2>2 DEF AddExcludedApp
    <3> SUFFICES ASSUME NEW i \in Present(listed)
                 PROVE  \/ rules'[i] = listed[i]
                        \/ i \in sunk
                        \/ rules'[i] = NoRule /\ \E j \in Present(rules)' : i < j
      BY <3>5 DEF ListingInv, Present
    <3>6. CASE rules[i] = listed[i]
      BY <3>4, <3>6 DEF Present
    <3>7. CASE rules[i] = NoRule /\ \E j \in Present(rules) : i < j
      <4>1. PICK j \in Present(rules) : i < j
        BY <3>7
      <4>2. i # n
        BY <3>4, <4>1 DEF Present, Ids
      <4>3. rules'[i] = rules[i]
        BY <3>1, <4>2 DEF TypeOK, Present
      <4> QED BY <3>3, <3>7, <4>1, <4>3
    <3> QED BY <3>6, <3>7 DEF ListingInv
  <2>3. ASSUME NEW m \in Present(rules), RemoveExcludedApp(m) PROVE ListingInv'
    <3>1. /\ rules' = [rules EXCEPT ![m] = NoRule]
          /\ sunk' = sunk \cup {k \in Ids : \A j \in Present(rules) \ {m} : j < k}
          /\ UNCHANGED listed
      BY <2>3 DEF RemoveExcludedApp
    <3>2. Present(rules)' = Present(rules) \ {m}
      BY <3>1 DEF Present, TypeOK
    <3> SUFFICES ASSUME NEW i \in Present(listed), i \notin sunk'
                 PROVE  \/ rules'[i] = listed[i]
                        \/ rules'[i] = NoRule /\ \E j \in Present(rules)' : i < j
      BY <3>1 DEF ListingInv, Present
    <3>3. PICK j \in Present(rules) \ {m} : ~(j < i)
      BY <3>1 DEF Present
    <3>4. i = m \/ rules'[i] = rules[i]
      BY <3>1 DEF TypeOK, Present
    <3>5. i = m => rules'[i] = NoRule
      BY <3>1 DEF TypeOK, Present
    <3>6. rules[i] = NoRule \/ i = m => i < j
      BY <3>3 DEF Present, Ids
    <3> QED BY <3>1, <3>2, <3>3, <3>4, <3>5, <3>6 DEF ListingInv
  <2>4. ASSUME UNCHANGED <<rules, listed, sunk>> PROVE ListingInv'
    BY <2>4 DEF ListingInv, Present
  <2>5. ASSUME NEW h \in Handlers, NEW rows \in Updates, BeginUpdate(h, rows) PROVE ListingInv'
    BY <2>4, <2>5 DEF BeginUpdate, tables
  <2>6. ASSUME NEW h \in Handlers, NEW k \in Keys, WriteRow(h, k) PROVE ListingInv'
    BY <2>4, <2>6 DEF WriteRow
  <2>7. ASSUME NEW h \in Handlers, AnswerOk(h) \/ AnswerError(h) PROVE ListingInv'
    BY <2>4, <2>7 DEF AnswerOk, AnswerError, tables
  <2>8. ASSUME NEW v \in Values, SetPausedRow(v) PROVE ListingInv'
    BY <2>4, <2>8 DEF SetPausedRow
  <2>9. ASSUME NEW s \in Sources, CheckSource(s) PROVE ListingInv'
    BY <2>4, <2>9 DEF CheckSource, tables
  <2>10. CASE StoreClip \/ Restart \/ UNCHANGED vars
    BY <2>4, <2>10 DEF StoreClip, Restart, vars, tables
  <2> QED BY <2>1, <2>2, <2>3, <2>5, <2>6, <2>7, <2>8, <2>9, <2>10 DEF Next
<1>3. ListingInv => ListingHolds
  BY DEF ListingInv, ListingHolds, Present
<1> QED BY <1>1, <1>2, <1>3, TypeCorrect, PTL DEF Spec

----------------------------------------------------------------------------
(* The capture thread. *)

(* No clip is stored from an application that a rule excludes at the time: *)
(* who adds a rule needs the mutex the capture thread holds.               *)
THEOREM ExcludedNeverStored == Spec => []NeverStoredWhileExcluded
<1> USE DEF NeverStoredWhileExcluded
<1>1. Init => NeverStoredWhileExcluded
  BY DEF Init
<1>2. TypeOK /\ NeverStoredWhileExcluded /\ [Next]_vars => NeverStoredWhileExcluded'
  <2> SUFFICES ASSUME TypeOK, NeverStoredWhileExcluded, [Next]_vars
               PROVE  NeverStoredWhileExcluded'
    OBVIOUS
  <2>1. ASSUME holder = Nobody, UNCHANGED source PROVE NeverStoredWhileExcluded'
    BY <2>1 DEF TypeOK
  <2>2. ASSUME UNCHANGED <<rules, source>> PROVE NeverStoredWhileExcluded'
    BY <2>2 DEF Excluded, Present
  <2>3. ASSUME source' = NoSource PROVE NeverStoredWhileExcluded'
    BY <2>3
  <2>4. CASE ListExcludedApps
    BY <2>1, <2>4 DEF ListExcludedApps
  <2>5. ASSUME NEW r \in Rules, AddExcludedApp(r) PROVE NeverStoredWhileExcluded'
    BY <2>1, <2>5 DEF AddExcludedApp
  <2>6. ASSUME NEW i \in Present(rules), RemoveExcludedApp(i) PROVE NeverStoredWhileExcluded'
    BY <2>1, <2>6 DEF RemoveExcludedApp
  <2>7. ASSUME NEW h \in Handlers, NEW rows \in Updates, BeginUpdate(h, rows)
        PROVE  NeverStoredWhileExcluded'
    BY <2>2, <2>7 DEF BeginUpdate, tables
  <2>8. ASSUME NEW h \in Handlers, NEW k \in Keys, WriteRow(h, k)
        PROVE  NeverStoredWhileExcluded'
    BY <2>2, <2>8 DEF WriteRow
  <2>9. ASSUME NEW h \in Handlers, AnswerOk(h) \/ AnswerError(h)
        PROVE  NeverStoredWhileExcluded'
    BY <2>2, <2>9 DEF AnswerOk, AnswerError, tables
  <2>10. ASSUME NEW v \in Values, SetPausedRow(v) PROVE NeverStoredWhileExcluded'
    BY <2>2, <2>10 DEF SetPausedRow
  <2>11. ASSUME NEW s \in Sources, CheckSource(s) PROVE NeverStoredWhileExcluded'
    BY <2>11 DEF CheckSource, tables, Excluded, Present
  <2>12. CASE StoreClip \/ Restart
    BY <2>3, <2>12 DEF StoreClip, Restart
  <2>13. CASE UNCHANGED vars
    BY <2>2, <2>13 DEF vars, tables
  <2> QED BY <2>4, <2>5, <2>6, <2>7, <2>8, <2>9, <2>10, <2>11, <2>12, <2>13 DEF Next
<1> QED BY <1>1, <1>2, TypeCorrect, PTL DEF Spec

----------------------------------------------------------------------------
(* Settings. *)

(* What a handler has written is in the table. *)
RowsWritten ==
    \A h \in Handlers : \A k \in DOMAIN request[h] \ left[h] :
        settings[k] = request[h][k]

SettingsInv == RowsWritten /\ SettingsKept

(* What SettingsKept says of a key that no request is about. *)
Kept(k) ==
    \/ promised[k] \in {"doubt", settings[k]}
    \/ k = PausedKey /\ k \in unsaved

(* A setting has the value that the last request about it was told it has, *)
(* however requests interleave, fail and are cut short (handlers.rs        *)
(* apply_settings), but for capture.paused after a SetPaused, whose Ok     *)
(* does not say that its row was written (handlers.rs:120).                *)
THEOREM SettingsStayAsPromised == Spec => []SettingsKept
<1>1. Init => SettingsInv
  BY NoRowsIsUpdate DEF Init, SettingsInv, RowsWritten, SettingsKept
<1>2. TypeOK /\ SettingsInv /\ [Next]_vars => SettingsInv'
  <2> SUFFICES ASSUME TypeOK, SettingsInv, [Next]_vars PROVE SettingsInv'
    OBVIOUS
  <2>1. ASSUME UNCHANGED <<settings, request, left, promised, unsaved>> PROVE SettingsInv'
    BY <2>1 DEF SettingsInv, RowsWritten, SettingsKept
  <2>2. CASE ListExcludedApps
    BY <2>1, <2>2 DEF ListExcludedApps, tables, writers
  <2>3. ASSUME NEW r \in Rules, AddExcludedApp(r) PROVE SettingsInv'
    BY <2>1, <2>3 DEF AddExcludedApp, writers
  <2>4. ASSUME NEW i \in Present(rules), RemoveExcludedApp(i) PROVE SettingsInv'
    BY <2>1, <2>4 DEF RemoveExcludedApp, writers
  <2>5. ASSUME NEW h \in Handlers, NEW rows \in Updates, BeginUpdate(h, rows)
        PROVE  SettingsInv'
    <3>1. \A g \in Handlers : request[g] = NoRows
      BY <2>5 DEF BeginUpdate, TypeOK
    <3>2. RowsWritten'
      BY <2>5, <3>1, NoRowsIsUpdate DEF BeginUpdate, RowsWritten, TypeOK
    <3>3. \A k \in Keys : Kept(k)
      BY <3>1, NoRowsIsUpdate DEF SettingsInv, SettingsKept, Kept
    <3>4. SettingsKept'
      BY <2>5, <3>3 DEF BeginUpdate, SettingsKept, Kept, tables
    <3> QED BY <3>2, <3>4 DEF SettingsInv
  <2>6. ASSUME NEW h \in Handlers, NEW k \in Keys, WriteRow(h, k) PROVE SettingsInv'
    <3>1. k \in DOMAIN request[h] /\ request[h] # NoRows
      BY <2>6, NoRowsIsUpdate DEF WriteRow, TypeOK
    <3>2. \A g \in Handlers \ {h} : request[g] = NoRows
      BY <3>1 DEF TypeOK
    <3>3. RowsWritten'
      BY <2>6, <3>2, NoRowsIsUpdate DEF WriteRow, RowsWritten, SettingsInv, TypeOK
    <3>4. SettingsKept'
      BY <2>6, <3>1 DEF WriteRow, SettingsKept, SettingsInv, TypeOK
    <3> QED BY <3>3, <3>4 DEF SettingsInv
  <2>7. ASSUME NEW h \in Handlers, request[h] # NoRows,
               NEW outcome, EndUpdate(h, outcome), UNCHANGED settings,
               \A g \in Handlers \ {h} : left'[g] = left[g],
               \A k \in DOMAIN request[h] : outcome[k] \in {"doubt", settings[k]}
        PROVE  SettingsInv'
    <3>1. \A g \in Handlers : request'[g] = NoRows
      BY <2>7 DEF TypeOK, EndUpdate
    <3>2. RowsWritten'
      BY <3>1, NoRowsIsUpdate DEF RowsWritten
    <3>3. \A g \in Handlers \ {h} : request[g] = NoRows
      BY <2>7 DEF TypeOK
    <3>4. \A k \in Keys : Kept(k)'
      <4> SUFFICES ASSUME NEW k \in Keys PROVE Kept(k)'
        OBVIOUS
      <4>1. CASE k \in DOMAIN request[h]
        BY <2>7, <4>1 DEF EndUpdate, Kept
      <4>2. CASE k \notin DOMAIN request[h]
        <5>1. promised'[k] = promised[k] /\ (k \in unsaved' <=> k \in unsaved)
          BY <2>7, <4>2 DEF EndUpdate
        <5>2. \A g \in Handlers : k \notin DOMAIN request[g]
          BY <3>3, <4>2, NoRowsIsUpdate
        <5>3. Kept(k)
          BY <5>2 DEF SettingsInv, SettingsKept, Kept
        <5> QED BY <2>7, <5>1, <5>3 DEF Kept
      <4> QED BY <4>1, <4>2
    <3> QED BY <3>2, <3>4 DEF SettingsInv, SettingsKept, Kept
  <2>8. ASSUME NEW h \in Handlers, AnswerOk(h) PROVE SettingsInv'
    <3>1. \A k \in DOMAIN request[h] : request[h][k] \in {"doubt", settings[k]}
      BY <2>8 DEF AnswerOk, SettingsInv, RowsWritten
    <3> QED BY <2>7, <2>8, <3>1 DEF AnswerOk, tables
  <2>9. ASSUME NEW h \in Handlers, AnswerError(h) PROVE SettingsInv'
    <3>1. request[h] # NoRows /\ DOMAIN request[h] \subseteq Keys
      BY <2>9, NoRowsIsUpdate, UpdatesAre DEF AnswerError, TypeOK
    <3>2. \A g \in Handlers \ {h} : left'[g] = left[g]
      BY <2>9 DEF AnswerError, TypeOK
    <3>3. \A k \in DOMAIN request[h] : [j \in Keys |-> "doubt"][k] \in {"doubt", settings[k]}
      BY <3>1
    <3> QED BY <2>7, <2>9, <3>1, <3>2, <3>3 DEF AnswerError, tables
  <2>10. ASSUME NEW v \in Values, SetPausedRow(v) PROVE SettingsInv'
    <3>1. \A g \in Handlers : request[g] = NoRows
      BY <2>10 DEF SetPausedRow, TypeOK
    <3>2. \A k \in Keys : Kept(k)
      BY <3>1, NoRowsIsUpdate DEF SettingsInv, SettingsKept, Kept
    <3>3. RowsWritten'
      BY <2>10, <3>1, NoRowsIsUpdate DEF SetPausedRow, RowsWritten, writers
    <3>4. \A k \in Keys : Kept(k)'
      <4> SUFFICES ASSUME NEW k \in Keys PROVE Kept(k)'
        OBVIOUS
      <4>1. CASE k = PausedKey
        BY <2>10, <4>1 DEF SetPausedRow, TypeOK, Kept
      <4>2. CASE k # PausedKey
        BY <2>10, <3>2, <4>2 DEF SetPausedRow, TypeOK, Kept
      <4> QED BY <4>1, <4>2
    <3> QED BY <3>3, <3>4 DEF SettingsInv, SettingsKept, Kept
  <2>11. ASSUME NEW s \in Sources, CheckSource(s) PROVE SettingsInv'
    BY <2>1, <2>11 DEF CheckSource, tables
  <2>12. CASE StoreClip
    BY <2>1, <2>12 DEF StoreClip, tables
  <2>13. CASE Restart
    <3>1. RowsWritten'
      BY <2>13, NoRowsIsUpdate DEF Restart, RowsWritten
    <3>2. SettingsKept'
      BY <2>13 DEF Restart, SettingsInv, SettingsKept, tables
    <3> QED BY <3>1, <3>2 DEF SettingsInv
  <2>14. CASE UNCHANGED vars
    BY <2>1, <2>14 DEF vars, tables, writers
  <2> QED BY <2>2, <2>3, <2>4, <2>5, <2>6, <2>8, <2>9, <2>10, <2>11, <2>12, <2>13, <2>14 DEF Next
<1>3. SettingsInv => SettingsKept
  BY DEF SettingsInv
<1> QED BY <1>1, <1>2, <1>3, TypeCorrect, PTL DEF Spec

============================================================================
