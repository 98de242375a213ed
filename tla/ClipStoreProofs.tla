-------------------------- MODULE ClipStoreProofs --------------------------
(***************************************************************************)
(* Proofs about ClipStore, for every set of contents, ids, applications    *)
(* and terms.                                                              *)
(*                                                                         *)
(* Statements may fail and the process may die anywhere.  TypeOK,          *)
(* OneRowPerContent and RowOutlivesEntry hold whatever happens; the        *)
(* properties of the index hold until one of the events in upsets that     *)
(* they name, without which TLC refutes them.                              *)
(***************************************************************************)
EXTENDS ClipStore, TLAPS

----------------------------------------------------------------------------
(* Lemmas about the operators. *)

(* The terms a row or a request is indexed by are search terms. *)
LEMMA TermsType ==
    /\ \A row \in Rows : Searchable(row) \subseteq Tokens
    /\ \A r \in Requests : r.kind = "store" => IndexedTerms(r) \subseteq Tokens
<1>1. \A app \in Apps \cup {NoApp} : AppTerms(app) \subseteq Tokens
  BY TokenAssumption DEF AppTerms
<1>2. \A c \in Contents, full \in BOOLEAN : TextTerms(full, c) \subseteq Tokens
  BY TokenAssumption DEF TextTerms
<1> QED
  BY <1>1, <1>2 DEF Searchable, IndexedTerms, Rows, Requests

(* A stored request becomes a row of the right shape, which delete will    *)
(* describe to the index by the very terms store_capture gave it.          *)
LEMMA RowOfRequest ==
    \A r \in Requests : r.kind = "store" =>
        /\ r.content \in Contents /\ r.full \in BOOLEAN
        /\ r.app \in Apps \cup {NoApp}
        /\ RowOf(r) \in Rows
        /\ RowOf(r).content = r.content
        /\ RowOf(r) # NoClip
        /\ Searchable(RowOf(r)) = IndexedTerms(r)
<1>1. \A r \in Requests : r.kind = "store" =>
        /\ r.content \in Contents /\ r.full \in BOOLEAN
        /\ r.app \in Apps \cup {NoApp}
  BY DEF Requests
<1>2. \A r \in Requests : r.kind = "store" => RowOf(r) \in Rows
  BY <1>1 DEF RowOf, Rows
<1> QED
  BY <1>1, <1>2, SentinelAssumption
     DEF RowOf, Searchable, IndexedTerms

(* Touching a row changes nothing but its application. *)
LEMMA TouchedRow ==
    ASSUME NEW row \in Rows, NEW app \in Apps \cup {NoApp}
    PROVE  LET new == [row EXCEPT !.app = Coalesce(app, @)]
           IN  /\ new \in Rows
               /\ new.content = row.content
               /\ Apps = {} => new = row
<1>1. Coalesce(app, row.app) \in Apps \cup {NoApp}
  BY DEF Coalesce, Rows
<1>2. Apps = {} => Coalesce(app, row.app) = row.app
  BY DEF Coalesce, Rows
<1> QED
  BY <1>1, <1>2 DEF Rows

----------------------------------------------------------------------------
(* Which request is being served, and how far, at each statement. *)

StoreReq == req \in Requests /\ req.kind = "store"
DeleteReq == req \in Requests /\ req.kind = "delete"

Phase ==
    /\ pc = "free" => req = NoRequest /\ target = NoId
    /\ pc = "locked" => req \in Requests
    /\ pc = "upsert" => StoreReq
    /\ pc = "index" => StoreReq /\ target \in Ids /\ isNew
    /\ pc = "map" => StoreReq /\ target \in Ids /\ isNew /\ rowid \in Rowids
    /\ pc \in {"unindex", "unmap"} => DeleteReq /\ target \in Ids
    /\ pc = "remove" => DeleteReq /\ target \in Ids

TypeInv == TypeOK /\ Phase

LEMMA TypeInit == Init => TypeInv
BY SentinelAssumption
   DEF Init, LocalsCleared, TypeInv, TypeOK, Phase, PCs, Outcomes, NoRow

LEMMA TypeNext == TypeInv /\ [Next]_vars => TypeInv'
<1> SUFFICES ASSUME TypeInv, [Next]_vars PROVE TypeInv'
  OBVIOUS
<1> USE DEF TypeInv, PCs, Outcomes, StoreReq, DeleteReq, CutShort
<1>1. ASSUME NEW r \in Requests, Acquire(r) PROVE TypeInv'
  BY <1>1 DEF Acquire, tables, TypeOK, Phase
<1>2. CASE LookUp
  BY <1>2 DEF LookUp, Continue, tables, TypeOK, Phase
<1>3. CASE Touch
  <2>1. PICK id \in Ids :
          /\ HasContent(id, req.content)
          /\ clips' = [clips EXCEPT ![id].app = Coalesce(req.app, @)]
          /\ AfterUpsert(id)
    BY <1>3 DEF Touch
  <2>2. /\ pc = "upsert" /\ UNCHANGED <<ftsMap, postings, docs>>
        /\ upsets' \subseteq upsets \cup {"enrich"}
    BY <1>3 DEF Touch
  <2>3. clips' \in [Ids -> Rows \cup {NoClip}]
    BY <2>1, <2>2, TouchedRow, RowOfRequest DEF TypeOK, Phase, HasContent
  <2>4. AfterUpsert(id)
    BY <2>1
  <2> QED
    BY <2>2, <2>3, <2>4 DEF AfterUpsert, Continue, Finish, LocalsCleared, TypeOK, Phase
<1>4. CASE Insert
  <2>1. PICK id \in Ids :
          /\ clips' = [clips EXCEPT ![id] = RowOf(req)]
          /\ AfterUpsert(id)
    BY <1>4 DEF Insert
  <2>2. pc = "upsert" /\ UNCHANGED <<ftsMap, postings, docs, upsets>>
    BY <1>4 DEF Insert
  <2>3. clips' \in [Ids -> Rows \cup {NoClip}]
    BY <2>1, <2>2, RowOfRequest DEF TypeOK, Phase
  <2> QED
    BY <2>1, <2>2, <2>3 DEF AfterUpsert, Continue, Finish, LocalsCleared, TypeOK, Phase
<1>5. CASE FtsInsert
  <2>1. PICK r \in Rowids :
          /\ docs' = docs \cup {r}
          /\ postings' = postings \cup ({r} \X IndexedTerms(req))
          /\ rowid' = r
    BY <1>5 DEF FtsInsert
  <2>2. IndexedTerms(req) \subseteq Tokens
    BY <1>5, TermsType DEF FtsInsert, Phase
  <2>3. postings' \subseteq Rowids \X Tokens /\ docs' \subseteq Rowids
    BY <2>1, <2>2 DEF TypeOK
  <2> QED
    BY <1>5, <2>1, <2>3 DEF FtsInsert, Continue, TypeOK, Phase
<1>6. CASE MapInsert
  BY <1>6 DEF MapInsert, Finish, LocalsCleared, TypeOK, Phase
<1>7. CASE FetchRow
  <2>1. DeleteReq /\ req.id \in Ids
    BY <1>7 DEF FetchRow, Phase, Requests
  <2>2. CASE Finish("not_found")
    BY <1>7, <2>2 DEF FetchRow, Finish, LocalsCleared, tables, TypeOK, Phase
  <2>3. CASE /\ Continue("remove", req.id) \/ Continue("unindex", req.id)
             /\ UNCHANGED <<isNew, rowid>>
    BY <1>7, <2>1, <2>3 DEF FetchRow, Continue, tables, TypeOK, Phase
  <2> QED
    BY <1>7, <2>2, <2>3 DEF FetchRow
<1>8. CASE FtsDelete
  <2>1. postings' \subseteq Rowids \X Tokens /\ docs' \subseteq Rowids
    BY <1>8 DEF FtsDelete, TypeOK
  <2> QED
    BY <1>8, <2>1 DEF FtsDelete, Continue, TypeOK, Phase
<1>9. CASE MapDelete
  BY <1>9 DEF MapDelete, Continue, TypeOK, Phase, NoRow
<1>10. CASE RowDelete
  BY <1>10 DEF RowDelete, Finish, LocalsCleared, TypeOK, Phase, NoRow
<1>11. CASE Clear
  BY <1>11 DEF Clear, Finish, LocalsCleared, TypeOK, Phase, NoRow
<1>12. CASE Fail
  BY <1>12 DEF Fail, Finish, LocalsCleared, tables, TypeOK, Phase
<1>13. CASE Crash
  BY <1>13 DEF Crash, Finish, LocalsCleared, tables, TypeOK, Phase
<1>14. CASE UNCHANGED vars
  BY <1>14 DEF vars, tables, locals, TypeOK, Phase
<1> QED
  BY <1>1, <1>2, <1>3, <1>4, <1>5, <1>6, <1>7, <1>8, <1>9, <1>10, <1>11,
     <1>12, <1>13, <1>14
     DEF Next, StoreStep, DeleteStep

(* The tables and the operation in flight keep their shape, whatever       *)
(* statement fails and wherever the process dies.                          *)
THEOREM TypeCorrect == Spec => []TypeOK
<1>1. TypeInv => TypeOK
  BY DEF TypeInv
<1> QED
  BY <1>1, TypeInit, TypeNext, PTL DEF Spec

----------------------------------------------------------------------------
(* Deduplication. *)

LEMMA DedupNext ==
    TypeInv /\ OneRowPerContent /\ [Next]_vars => OneRowPerContent'
<1> SUFFICES ASSUME TypeInv, OneRowPerContent, [Next]_vars
             PROVE  OneRowPerContent'
  OBVIOUS
<1> USE DEF OneRowPerContent, Stored
<1>1. CASE Touch
  <2>1. PICK id \in Ids :
          /\ HasContent(id, req.content)
          /\ clips' = [clips EXCEPT ![id].app = Coalesce(req.app, @)]
    BY <1>1 DEF Touch
  <2>2. req \in Requests /\ req.kind = "store"
    BY <1>1 DEF Touch, TypeInv, Phase, StoreReq
  <2>3. \A i \in Ids : clips'[i] # NoClip =>
          clips[i] # NoClip /\ clips'[i].content = clips[i].content
    BY <2>1, <2>2, TouchedRow, RowOfRequest DEF TypeInv, TypeOK, HasContent
  <2> QED
    BY <2>3
<1>2. CASE Insert
  <2>1. PICK id \in Ids : clips' = [clips EXCEPT ![id] = RowOf(req)]
    BY <1>2 DEF Insert
  <2>2. RowOf(req).content = req.content
    BY <1>2, RowOfRequest DEF Insert, TypeInv, Phase, StoreReq
  <2>3. \A i \in Ids : clips[i] # NoClip => clips[i].content # req.content
    BY <1>2 DEF Insert, HasContent
  <2> QED
    BY <2>1, <2>2, <2>3 DEF TypeInv, TypeOK
<1>3. CASE Clear \/ RowDelete
  BY <1>3 DEF Clear, RowDelete, TypeInv, TypeOK
<1>4. CASE clips' = clips
  BY <1>4
<1> QED
  BY <1>1, <1>2, <1>3, <1>4
     DEF Next, StoreStep, DeleteStep, Acquire, LookUp, FtsInsert, MapInsert,
         FetchRow, FtsDelete, MapDelete, Fail, Crash, vars, tables

(* No two rows ever hold the same content, whatever statement fails and    *)
(* wherever the process dies and captures the same text again.             *)
THEOREM Deduplicated == Spec => []OneRowPerContent
<1>1. Init => OneRowPerContent
  BY DEF Init, OneRowPerContent, Stored
<1> QED
  BY <1>1, TypeInit, TypeNext, DedupNext, PTL DEF Spec

----------------------------------------------------------------------------
(* The row outlives its index entry. *)

OutliveInv ==
    /\ Mapped \subseteq Stored
    /\ pc \in {"index", "map", "unindex", "unmap", "remove"} => target \in Stored

LEMMA OutliveNext ==
    TypeInv /\ OutliveInv /\ [Next]_vars => OutliveInv'
<1> SUFFICES ASSUME TypeInv, OutliveInv, [Next]_vars PROVE OutliveInv'
  OBVIOUS
<1> USE DEF OutliveInv, Mapped, Stored, NoRow
<1>1. ASSUME NEW r \in Requests, Acquire(r) PROVE OutliveInv'
  BY <1>1 DEF Acquire, tables
<1>2. CASE LookUp
  BY <1>2 DEF LookUp, Continue, tables
<1>3. CASE Touch
  <2>1. PICK id \in Ids :
          /\ HasContent(id, req.content)
          /\ clips' = [clips EXCEPT ![id].app = Coalesce(req.app, @)]
          /\ AfterUpsert(id)
    BY <1>3 DEF Touch
  <2>2. req \in Requests /\ req.kind = "store" /\ ftsMap' = ftsMap
    BY <1>3 DEF Touch, TypeInv, Phase, StoreReq
  <2>3. \A i \in Ids : clips[i] # NoClip => clips'[i] # NoClip
    BY <2>1, <2>2, TouchedRow, RowOfRequest, SentinelAssumption
       DEF TypeInv, TypeOK, HasContent
  <2>4. AfterUpsert(id) /\ clips[id] # NoClip
    BY <2>1 DEF HasContent
  <2> QED
    BY <2>2, <2>3, <2>4 DEF AfterUpsert, Continue, Finish
<1>4. CASE Insert
  <2>1. PICK id \in Ids :
          /\ clips' = [clips EXCEPT ![id] = RowOf(req)]
          /\ AfterUpsert(id)
    BY <1>4 DEF Insert
  <2>2. RowOf(req) # NoClip /\ ftsMap' = ftsMap
    BY <1>4, RowOfRequest DEF Insert, TypeInv, Phase, StoreReq
  <2> QED
    BY <2>1, <2>2 DEF AfterUpsert, Continue, Finish, TypeInv, TypeOK
<1>5. CASE FtsInsert
  BY <1>5 DEF FtsInsert, Continue
<1>6. CASE MapInsert
  BY <1>6 DEF MapInsert, Finish, TypeInv, TypeOK
<1>7. CASE FetchRow
  <2>1. req.id \in Ids /\ UNCHANGED <<clips, ftsMap>>
    BY <1>7 DEF FetchRow, tables, TypeInv, Phase, Requests
  <2> QED
    BY <1>7, <2>1 DEF FetchRow, Continue, Finish
<1>8. CASE FtsDelete
  BY <1>8 DEF FtsDelete, Continue
<1>9. CASE MapDelete
  BY <1>9 DEF MapDelete, Continue, TypeInv, TypeOK
<1>10. CASE RowDelete
  BY <1>10 DEF RowDelete, Finish, TypeInv, TypeOK
<1>11. CASE Clear
  BY <1>11 DEF Clear, Finish
<1>12. CASE Fail \/ Crash
  BY <1>12 DEF Fail, Crash, Finish, tables
<1>13. CASE UNCHANGED vars
  BY <1>13 DEF vars, tables, locals
<1> QED
  BY <1>1, <1>2, <1>3, <1>4, <1>5, <1>6, <1>7, <1>8, <1>9, <1>10, <1>11,
     <1>12, <1>13
     DEF Next, StoreStep, DeleteStep

(* The map never refers to a row that is gone, and a deletion that stops   *)
(* halfway has not removed its row: the clip is still there to be deleted  *)
(* again.  No fault breaks this.                                           *)
THEOREM RowsOutliveEntries == Spec => []RowOutlivesEntry
<1>1. Init => OutliveInv
  BY DEF Init, OutliveInv, Mapped, Stored
<1>2. OutliveInv => RowOutlivesEntry
  BY DEF OutliveInv, RowOutlivesEntry
<1> QED
  BY <1>1, <1>2, TypeInit, TypeNext, OutliveNext, PTL DEF Spec

----------------------------------------------------------------------------
(* The index mirrors the rows. *)

(* The document of a mapped clip counts, and holds the terms of its row    *)
(* and no other.                                                           *)
Entry(id) ==
    /\ ftsMap[id] \in docs
    /\ \A t \in Tokens :
         <<ftsMap[id], t>> \in postings <=> t \in Searchable(clips[id])

RowidsDistinct == \A i, j \in Mapped : ftsMap[i] = ftsMap[j] => i = j

(* What the look-up found still holds at the next statement.  Between the  *)
(* two statements of fts_add the new document is complete and belongs to   *)
(* nobody; between those of fts_remove the old one is gone and the clip's  *)
(* map row still names it.                                                 *)
IndexInv ==
    /\ RowidsDistinct
    /\ \A r \in Rowids, t \in Tokens : <<r, t>> \in postings => r \in docs
    /\ \A id \in Mapped : Entry(id) \/ (pc = "unmap" /\ id = target)
    /\ pc = "upsert" => (isNew <=> ~\E id \in Ids : HasContent(id, req.content))
    /\ pc \in {"index", "map"} =>
         target \notin Mapped /\ clips[target] = RowOf(req)
    /\ pc = "map" =>
         /\ rowid \in docs
         /\ \A id \in Mapped : ftsMap[id] # rowid
         /\ \A t \in Tokens : <<rowid, t>> \in postings <=> t \in IndexedTerms(req)
    /\ pc = "unindex" => target \in Mapped
    /\ pc = "unmap" => target \in Mapped /\ ftsMap[target] \notin docs
    /\ pc = "remove" => target \notin Mapped

Inv == TypeInv /\ OutliveInv /\ IndexInv

(* What upset the entries is not forgotten before the next clear. *)
LEMMA KeptBefore ==
    ASSUME TypeInv, [Next]_vars, ~Clear PROVE upsets \subseteq upsets'
BY DEF Next, StoreStep, DeleteStep, Acquire, LookUp, Touch, Insert, FtsInsert,
       MapInsert, FetchRow, FtsDelete, MapDelete, RowDelete, Fail, Crash,
       CutShort, vars

LEMMA IndexInit == Init => IndexInv
BY DEF Init, IndexInv, RowidsDistinct, Mapped, NoRow

LEMMA IndexStore == Inv /\ StoreStep /\ EntriesKept' => IndexInv'
<1> SUFFICES ASSUME Inv, StoreStep, EntriesKept' PROVE IndexInv'
  OBVIOUS
<1> USE DEF Inv, Mapped, NoRow
<1>1. CASE LookUp
  <2>1. UNCHANGED <<tables, rowid, req>> /\ pc' = "upsert"
    BY <1>1 DEF LookUp, Continue
  <2>2. isNew' <=> ~\E id \in Ids : HasContent(id, req.content)'
    BY <1>1, <2>1 DEF LookUp, tables, HasContent
  <2>3. pc = "locked"
    BY <1>1 DEF LookUp
  <2> QED
    BY <2>1, <2>2, <2>3 DEF tables, IndexInv, RowidsDistinct, Entry
<1>2. CASE Touch
  <2>1. PICK id \in Ids :
          /\ HasContent(id, req.content)
          /\ clips' = [clips EXCEPT ![id].app = Coalesce(req.app, @)]
          /\ AfterUpsert(id)
    BY <1>2 DEF Touch
  <2>2. StoreReq /\ pc = "upsert" /\ UNCHANGED <<ftsMap, postings, docs>>
    BY <1>2 DEF Touch, TypeInv, Phase
  <2>3. clips' = clips
    BY <1>2 DEF Touch, EntriesKept
  <2>4. pc' = "free"
    BY <2>1, <2>2 DEF AfterUpsert, Finish, IndexInv
  <2> QED
    BY <2>2, <2>3, <2>4 DEF IndexInv, RowidsDistinct, Entry
<1>3. CASE Insert
  <2>1. PICK id \in Ids :
          /\ clips[id] = NoClip
          /\ clips' = [clips EXCEPT ![id] = RowOf(req)]
          /\ AfterUpsert(id)
    BY <1>3 DEF Insert
  <2>2. StoreReq /\ pc = "upsert" /\ UNCHANGED <<ftsMap, postings, docs>>
    BY <1>3 DEF Insert, TypeInv, Phase
  <2>3. pc' = "index" /\ target' = id /\ req' = req
    BY <1>3, <2>1, <2>2 DEF Insert, AfterUpsert, Continue, IndexInv
  <2>4. id \notin Mapped /\ clips'[id] = RowOf(req)
    BY <2>1 DEF OutliveInv, Stored, TypeInv, TypeOK
  <2>5. \A i \in Mapped : clips'[i] = clips[i]
    BY <2>1, <2>4 DEF TypeInv, TypeOK
  <2> QED
    BY <2>2, <2>3, <2>4, <2>5 DEF IndexInv, RowidsDistinct, Entry, RowOf
<1>4. CASE FtsInsert
  <2>1. PICK r \in Rowids :
          /\ IsNextRowid(r)
          /\ docs' = docs \cup {r}
          /\ postings' = postings \cup ({r} \X IndexedTerms(req))
          /\ rowid' = r
    BY <1>4 DEF FtsInsert
  <2>2. /\ pc = "index" /\ pc' = "map" /\ target' = target
        /\ UNCHANGED <<clips, ftsMap, req>>
    BY <1>4 DEF FtsInsert, Continue
  <2>3. r \notin docs
    BY <2>1, BoundAssumption DEF IsNextRowid, Rowids
  <2>4. \A t \in Tokens : <<r, t>> \notin postings
    BY <2>3 DEF IndexInv
  <2>5. \A id \in Mapped : ftsMap[id] # r
    BY <2>2, <2>3 DEF IndexInv, Entry
  <2>6. \A t \in Tokens : <<r, t>> \in postings' <=> t \in IndexedTerms(req)
    BY <2>1, <2>4
  <2>7. \A s \in Rowids, t \in Tokens :
          s # r => (<<s, t>> \in postings' <=> <<s, t>> \in postings)
    BY <2>1
  <2>8. \A id \in Mapped : Entry(id)'
    BY <2>1, <2>2, <2>5, <2>7 DEF IndexInv, Entry, TypeInv, TypeOK
  <2>9. \A s \in Rowids, t \in Tokens : <<s, t>> \in postings' => s \in docs'
    BY <2>1, <2>7 DEF IndexInv
  <2> QED
    BY <2>1, <2>2, <2>5, <2>6, <2>8, <2>9
       DEF IndexInv, RowidsDistinct, RowOf, IndexedTerms
<1>5. CASE MapInsert
  <2>1. /\ pc = "map" /\ pc' = "free"
        /\ ftsMap' = [ftsMap EXCEPT ![target] = rowid]
        /\ UNCHANGED <<clips, postings, docs>>
    BY <1>5 DEF MapInsert, Finish
  <2>2. StoreReq /\ target \in Ids /\ rowid \in Rowids
    BY <2>1 DEF TypeInv, Phase
  <2>3. ftsMap'[target] = rowid
    BY <2>1, <2>2 DEF TypeInv, TypeOK
  <2>4. \A id \in Ids : id # target => ftsMap'[id] = ftsMap[id]
    BY <2>1, <2>2 DEF TypeInv, TypeOK
  <2>5. \A id \in Ids : id = target => Entry(id)'
    <3>1. clips'[target] = RowOf(req) /\ rowid \in docs
      BY <2>1 DEF IndexInv
    <3>2. Searchable(clips'[target]) = IndexedTerms(req)
      BY <2>2, <3>1, RowOfRequest DEF StoreReq
    <3>3. \A t \in Tokens : <<rowid, t>> \in postings <=> t \in IndexedTerms(req)
      BY <2>1 DEF IndexInv
    <3> QED
      BY <2>1, <2>3, <3>1, <3>2, <3>3 DEF Entry
  <2>6. \A id \in Ids : id # target /\ id \in Mapped' => Entry(id)'
    <3> SUFFICES ASSUME NEW id \in Ids, id # target, ftsMap'[id] # NoRow
                 PROVE  Entry(id)'
      OBVIOUS
    <3>1. ftsMap'[id] = ftsMap[id]
      BY <2>4
    <3>2. Entry(id)
      BY <2>1, <3>1 DEF IndexInv
    <3> QED
      BY <2>1, <3>1, <3>2 DEF Entry
  <2>7. RowidsDistinct'
    BY <2>1, <2>2, <2>3, <2>4 DEF IndexInv, RowidsDistinct
  <2> QED
    BY <2>1, <2>5, <2>6, <2>7 DEF IndexInv
<1> QED
  BY <1>1, <1>2, <1>3, <1>4, <1>5 DEF StoreStep

LEMMA IndexDelete == Inv /\ DeleteStep => IndexInv'
<1> SUFFICES ASSUME Inv, DeleteStep PROVE IndexInv'
  OBVIOUS
<1> USE DEF Inv, Mapped, NoRow
<1>1. CASE FetchRow
  <2>1. pc = "locked" /\ UNCHANGED <<clips, ftsMap, postings, docs>>
    BY <1>1 DEF FetchRow, tables
  <2>2. req.id \in Ids
    BY <1>1, <2>1 DEF FetchRow, TypeInv, Phase, Requests
  <2>3. \/ pc' = "free"
        \/ pc' = "remove" /\ target' = req.id /\ ftsMap[req.id] = NoRow
        \/ pc' = "unindex" /\ target' = req.id /\ ftsMap[req.id] # NoRow
    BY <1>1 DEF FetchRow, Finish, Continue
  <2> QED
    BY <2>1, <2>2, <2>3 DEF IndexInv, RowidsDistinct, Entry
<1>2. CASE FtsDelete
  <2> DEFINE r == ftsMap[target]
  <2>1. /\ pc = "unindex" /\ pc' = "unmap" /\ target' = target
        /\ docs' = docs \ {r}
        /\ postings' = postings \ ({r} \X Searchable(clips[target]))
        /\ UNCHANGED <<clips, ftsMap>>
    BY <1>2 DEF FtsDelete, Continue
  <2>2. target \in Mapped /\ r \in Rowids /\ Entry(target)
    BY <2>1 DEF IndexInv, TypeInv, TypeOK
  <2>3. \A t \in Tokens : <<r, t>> \notin postings'
    BY <2>1, <2>2 DEF Entry
  <2>4. \A s \in Rowids, t \in Tokens :
          s # r => (<<s, t>> \in postings' <=> <<s, t>> \in postings)
    BY <2>1
  <2>5. \A id \in Mapped : id # target => ftsMap[id] # r
    BY <2>2 DEF IndexInv, RowidsDistinct
  <2>6. \A id \in Mapped : id # target => Entry(id)'
    BY <2>1, <2>4, <2>5 DEF IndexInv, Entry, TypeInv, TypeOK
  <2>7. \A s \in Rowids, t \in Tokens : <<s, t>> \in postings' => s \in docs'
    BY <2>1, <2>3, <2>4 DEF IndexInv
  <2> QED
    BY <2>1, <2>2, <2>6, <2>7 DEF IndexInv, RowidsDistinct
<1>3. CASE MapDelete
  <2>1. /\ pc = "unmap" /\ pc' = "remove" /\ target' = target
        /\ ftsMap' = [ftsMap EXCEPT ![target] = NoRow]
        /\ UNCHANGED <<clips, postings, docs>>
    BY <1>3 DEF MapDelete, Continue
  <2>2. \A id \in Ids : ftsMap'[id] = IF id = target THEN 0 ELSE ftsMap[id]
    BY <2>1 DEF TypeInv, TypeOK
  <2> QED
    BY <2>1, <2>2 DEF IndexInv, RowidsDistinct, Entry
<1>4. CASE RowDelete
  <2>1. /\ pc = "remove" /\ pc' = "free" /\ target \in Ids
        /\ clips' = [clips EXCEPT ![target] = NoClip]
        /\ ftsMap' = [ftsMap EXCEPT ![target] = NoRow]
        /\ UNCHANGED <<postings, docs>>
    BY <1>4 DEF RowDelete, Finish, TypeInv, Phase
  <2>2. \A id \in Mapped' :
          id \in Mapped /\ ftsMap'[id] = ftsMap[id] /\ clips'[id] = clips[id]
    BY <2>1 DEF TypeInv, TypeOK
  <2> QED
    BY <2>1, <2>2 DEF IndexInv, RowidsDistinct, Entry
<1> QED
  BY <1>1, <1>2, <1>3, <1>4 DEF DeleteStep

LEMMA ClearedIndex == Clear => IndexInv'
BY DEF Clear, Finish, IndexInv, RowidsDistinct, Mapped, NoRow

LEMMA IndexNext == Inv /\ [Next]_vars /\ EntriesKept' => IndexInv'
<1> SUFFICES ASSUME Inv, [Next]_vars, EntriesKept' PROVE IndexInv'
  OBVIOUS
<1> USE DEF Inv
<1>1. ASSUME NEW r \in Requests, Acquire(r) PROVE IndexInv'
  BY <1>1 DEF Acquire, tables, IndexInv, RowidsDistinct, Entry, Mapped
<1>2. CASE StoreStep
  BY <1>2, IndexStore
<1>3. CASE DeleteStep
  BY <1>3, IndexDelete
<1>4. CASE Clear
  BY <1>4, ClearedIndex
<1>5. CASE Fail \/ Crash
  <2>1. pc # "unmap"
    BY <1>5 DEF Fail, Crash, CutShort, EntriesKept
  <2> QED
    BY <1>5, <2>1
       DEF Fail, Crash, Finish, tables, IndexInv, RowidsDistinct, Entry, Mapped
<1>6. CASE UNCHANGED vars
  BY <1>6 DEF vars, tables, locals, IndexInv, RowidsDistinct, Entry, Mapped,
              HasContent
<1> QED
  BY <1>1, <1>2, <1>3, <1>4, <1>5, <1>6 DEF Next

(* The index invariant for as long as the entries were kept.  A clear      *)
(* restores it, having emptied everything.                                 *)
KeptInv == TypeInv /\ OutliveInv /\ (EntriesKept => IndexInv)

LEMMA KeptNext == KeptInv /\ [Next]_vars => KeptInv'
<1> SUFFICES ASSUME KeptInv, [Next]_vars PROVE KeptInv'
  OBVIOUS
<1>1. TypeInv' /\ OutliveInv'
  BY TypeNext, OutliveNext DEF KeptInv
<1>2. CASE Clear
  BY <1>1, <1>2, ClearedIndex DEF KeptInv
<1>3. CASE ~Clear
  <2>1. EntriesKept' => EntriesKept
    BY <1>3, KeptBefore DEF KeptInv, EntriesKept
  <2> QED
    BY <1>1, <2>1, IndexNext DEF KeptInv, Inv
<1> QED
  BY <1>2, <1>3

LEMMA KeptInvariant == Spec => []KeptInv
<1>1. Init => KeptInv
  BY TypeInit, IndexInit DEF Init, KeptInv, OutliveInv, Mapped, Stored
<1> QED
  BY <1>1, KeptNext, PTL DEF Spec

(* What delete will hand the index is exactly what was indexed, unless a   *)
(* delete stopped between its index statements or a touch changed a row.   *)
THEOREM IndexStaysReversible == Spec => []IndexReversible
<1>1. KeptInv => IndexReversible
  <2> SUFFICES ASSUME KeptInv, EntriesKept, pc = "free", NEW id \in Mapped
               PROVE  {t \in Tokens : <<ftsMap[id], t>> \in postings}
                        = Searchable(clips[id])
    BY DEF IndexReversible
  <2>1. Entry(id)
    BY DEF KeptInv, IndexInv
  <2>2. clips[id] \in Rows
    BY DEF KeptInv, OutliveInv, Mapped, Stored, TypeInv, TypeOK
  <2>3. Searchable(clips[id]) \subseteq Tokens
    BY <2>2, TermsType
  <2> QED
    BY <2>1, <2>3 DEF Entry
<1> QED
  BY <1>1, KeptInvariant, PTL

(* With the same exceptions no two clips ever share an index document.     *)
THEOREM RowidsNeverShared == Spec => []RowidsNotShared
<1>1. KeptInv => RowidsNotShared
  BY DEF KeptInv, IndexInv, RowidsNotShared, RowidsDistinct
<1> QED
  BY <1>1, KeptInvariant, PTL

(* With the same exceptions a search only returns stored clips that        *)
(* contain the term.                                                       *)
THEOREM SearchIsSound == Spec => []SearchSoundIfKept
<1>1. KeptInv => SearchSoundIfKept
  <2> SUFFICES ASSUME KeptInv, EntriesKept, pc = "free",
                      NEW t \in Tokens, NEW id \in Search(t)
               PROVE  clips[id] # NoClip /\ t \in Searchable(clips[id])
    BY DEF SearchSoundIfKept, SearchSound
  <2>1. id \in Mapped /\ <<ftsMap[id], t>> \in postings
    BY DEF Search, Mapped
  <2>2. Entry(id) /\ id \in Stored
    BY <2>1 DEF KeptInv, IndexInv, OutliveInv
  <2> QED
    BY <2>1, <2>2 DEF Entry, Stored
<1> QED
  BY <1>1, KeptInvariant, PTL

----------------------------------------------------------------------------
(* Every row is indexed, as long as nothing was cut short. *)

(* The only row without a map row is the one being stored or removed. *)
IndexedInv ==
    \A id \in Stored : id \in Mapped \/ (pc \in {"index", "map", "remove"} /\ id = target)

LEMMA IndexedNext ==
    ASSUME Inv, IndexedInv, [Next]_vars, upsets' = {} PROVE IndexedInv'
<1> USE DEF Inv, IndexedInv, Mapped, Stored, NoRow
<1>1. ASSUME NEW r \in Requests, Acquire(r) PROVE IndexedInv'
  BY <1>1 DEF Acquire, tables
<1>2. CASE LookUp
  BY <1>2 DEF LookUp, Continue, tables
<1>3. CASE Touch
  <2>1. clips' = clips /\ ftsMap' = ftsMap /\ pc = "upsert"
    BY <1>3 DEF Touch
  <2> QED
    BY <2>1
<1>4. CASE Insert
  <2>1. PICK id \in Ids :
          /\ clips' = [clips EXCEPT ![id] = RowOf(req)]
          /\ AfterUpsert(id)
    BY <1>4 DEF Insert
  <2>2. ftsMap' = ftsMap /\ pc = "upsert" /\ isNew
    BY <1>4 DEF Insert, IndexInv
  <2>3. pc' = "index" /\ target' = id
    BY <2>1, <2>2 DEF AfterUpsert, Continue
  <2> QED
    BY <2>1, <2>2, <2>3 DEF TypeInv, TypeOK
<1>5. CASE FtsInsert
  BY <1>5 DEF FtsInsert, Continue
<1>6. CASE MapInsert
  <2>1. rowid # 0
    BY <1>6 DEF MapInsert, TypeInv, Phase, Rowids
  <2> QED
    BY <1>6, <2>1 DEF MapInsert, TypeInv, TypeOK
<1>7. CASE FetchRow \/ FtsDelete
  <2>1. pc \in {"locked", "unindex"} /\ UNCHANGED <<clips, ftsMap>>
    BY <1>7 DEF FetchRow, FtsDelete, tables
  <2> QED
    BY <2>1
<1>8. CASE MapDelete
  BY <1>8 DEF MapDelete, Continue, TypeInv, TypeOK
<1>9. CASE RowDelete
  BY <1>9 DEF RowDelete, TypeInv, TypeOK
<1>10. CASE Clear
  BY <1>10 DEF Clear
<1>11. CASE Fail \/ Crash
  <2>1. pc \notin {"index", "map", "remove"}
    BY <1>11 DEF Fail, Crash, CutShort
  <2> QED
    BY <1>11, <2>1 DEF Fail, Crash, tables
<1>12. CASE UNCHANGED vars
  BY <1>12 DEF vars, tables, locals
<1> QED
  BY <1>1, <1>2, <1>3, <1>4, <1>5, <1>6, <1>7, <1>8, <1>9, <1>10, <1>11, <1>12
     DEF Next, StoreStep, DeleteStep

CompleteInv == KeptInv /\ (upsets = {} => IndexedInv)

LEMMA CompleteNext == CompleteInv /\ [Next]_vars => CompleteInv'
<1> SUFFICES ASSUME CompleteInv, [Next]_vars PROVE CompleteInv'
  OBVIOUS
<1>1. KeptInv'
  BY KeptNext DEF CompleteInv
<1>2. CASE Clear
  BY <1>1, <1>2 DEF Clear, CompleteInv, IndexedInv, Stored
<1>3. CASE ~Clear
  <2>1. upsets' = {} => upsets = {} /\ EntriesKept
    BY <1>3, KeptBefore DEF CompleteInv, KeptInv, EntriesKept
  <2> QED
    BY <1>1, <2>1, IndexedNext DEF CompleteInv, KeptInv, Inv
<1> QED
  BY <1>2, <1>3

(* As long as no capture or delete stopped halfway, and no touch changed a *)
(* row, every stored clip is found by each of its terms.                   *)
THEOREM SearchIsComplete == Spec => []SearchComplete
<1>1. Init => CompleteInv
  BY TypeInit, IndexInit
     DEF Init, CompleteInv, KeptInv, OutliveInv, IndexedInv, Mapped, Stored
<1>2. CompleteInv => SearchComplete
  <2> SUFFICES ASSUME CompleteInv, upsets = {}, pc = "free", NEW id \in Stored,
                      NEW t \in Searchable(clips[id])
               PROVE  id \in Search(t)
    BY DEF SearchComplete, Found
  <2>1. id \in Mapped /\ id \in Ids
    BY DEF CompleteInv, IndexedInv, Stored
  <2>2. Entry(id)
    BY <2>1 DEF CompleteInv, KeptInv, EntriesKept, IndexInv
  <2>3. clips[id] \in Rows
    BY <2>1 DEF CompleteInv, KeptInv, TypeInv, TypeOK, Stored
  <2>4. t \in Tokens
    BY <2>3, TermsType
  <2> QED
    BY <2>1, <2>2, <2>4 DEF Entry, Search, Mapped
<1> QED
  BY <1>1, <1>2, CompleteNext, PTL DEF Spec

----------------------------------------------------------------------------
(* Nothing else is in the index. *)

(* Every document belongs to a clip, or to the one being stored. *)
OwnedInv ==
    \A r \in docs : (\E id \in Mapped : ftsMap[id] = r) \/ (pc = "map" /\ rowid = r)

LEMMA OwnedNext ==
    ASSUME Inv, OwnedInv, [Next]_vars, "map" \notin upsets' PROVE OwnedInv'
<1> USE DEF Inv, OwnedInv, Mapped, NoRow
<1>1. ASSUME NEW r \in Requests, Acquire(r) PROVE OwnedInv'
  BY <1>1 DEF Acquire, tables
<1>2. CASE LookUp \/ Touch \/ Insert \/ FetchRow
  <2>1. pc \in {"locked", "upsert"} /\ UNCHANGED <<ftsMap, docs>>
    BY <1>2 DEF LookUp, Touch, Insert, FetchRow, tables
  <2> QED
    BY <2>1
<1>3. CASE FtsInsert
  BY <1>3 DEF FtsInsert, Continue
<1>4. CASE MapInsert
  <2>1. /\ pc = "map" /\ docs' = docs
        /\ ftsMap' = [ftsMap EXCEPT ![target] = rowid]
    BY <1>4 DEF MapInsert
  <2>2. target \in Ids /\ ftsMap[target] = 0 /\ rowid \in Rowids
    BY <2>1 DEF TypeInv, Phase, IndexInv
  <2>3. ftsMap'[target] = rowid /\ rowid # 0
    BY <2>1, <2>2 DEF TypeInv, TypeOK, Rowids
  <2>4. \A id \in Ids : ftsMap[id] # 0 => ftsMap'[id] = ftsMap[id]
    BY <2>1, <2>2 DEF TypeInv, TypeOK
  <2> QED
    BY <2>1, <2>2, <2>3, <2>4
<1>5. CASE FtsDelete
  BY <1>5 DEF FtsDelete, Continue
<1>6. CASE MapDelete
  <2>1. /\ pc = "unmap" /\ docs' = docs
        /\ ftsMap' = [ftsMap EXCEPT ![target] = NoRow]
    BY <1>6 DEF MapDelete
  <2>2. ftsMap[target] \notin docs
    BY <2>1 DEF IndexInv
  <2>3. \A id \in Ids : id # target => ftsMap'[id] = ftsMap[id]
    BY <2>1 DEF TypeInv, TypeOK
  <2> QED
    BY <2>1, <2>2, <2>3
<1>7. CASE RowDelete
  <2>1. /\ pc = "remove" /\ docs' = docs
        /\ ftsMap' = [ftsMap EXCEPT ![target] = NoRow]
    BY <1>7 DEF RowDelete
  <2>2. target \in Ids /\ ftsMap[target] = 0
    BY <2>1 DEF IndexInv, TypeInv, Phase
  <2>3. ftsMap' = ftsMap
    BY <2>1, <2>2 DEF TypeInv, TypeOK
  <2> QED
    BY <2>1, <2>3
<1>8. CASE Clear
  BY <1>8 DEF Clear
<1>9. CASE Fail \/ Crash
  <2>1. pc # "map"
    BY <1>9 DEF Fail, Crash, CutShort
  <2> QED
    BY <1>9, <2>1 DEF Fail, Crash, tables
<1>10. CASE UNCHANGED vars
  BY <1>10 DEF vars, tables, locals
<1> QED
  BY <1>1, <1>2, <1>3, <1>4, <1>5, <1>6, <1>7, <1>8, <1>9, <1>10
     DEF Next, StoreStep, DeleteStep

ResidueInv == KeptInv /\ (EntriesKept /\ "map" \notin upsets => OwnedInv)

LEMMA ResidueNext == ResidueInv /\ [Next]_vars => ResidueInv'
<1> SUFFICES ASSUME ResidueInv, [Next]_vars PROVE ResidueInv'
  OBVIOUS
<1>1. KeptInv'
  BY KeptNext DEF ResidueInv
<1>2. CASE Clear
  BY <1>1, <1>2 DEF Clear, ResidueInv, OwnedInv
<1>3. CASE ~Clear
  <2>1. /\ EntriesKept' => EntriesKept
        /\ "map" \notin upsets' => "map" \notin upsets
    BY <1>3, KeptBefore DEF ResidueInv, KeptInv, EntriesKept
  <2> QED
    BY <1>1, <2>1, OwnedNext DEF ResidueInv, KeptInv, Inv
<1> QED
  BY <1>2, <1>3

(* The index holds no term that no stored clip contains, unless a capture  *)
(* stopped before its map row or the entries were not kept.                *)
THEOREM NoResidueLeft == Spec => []NoResidueIfKept
<1>1. Init => ResidueInv
  BY TypeInit, IndexInit
     DEF Init, ResidueInv, KeptInv, OutliveInv, OwnedInv, Mapped, Stored
<1>2. ResidueInv => NoResidueIfKept
  <2> SUFFICES ASSUME ResidueInv, EntriesKept, "map" \notin upsets, pc = "free",
                      NEW p \in postings
               PROVE  \E id \in Stored : p[2] \in Searchable(clips[id])
    BY DEF NoResidueIfKept, NoResidue
  <2>1. PICK r \in Rowids, t \in Tokens : p = <<r, t>>
    BY DEF ResidueInv, KeptInv, TypeInv, TypeOK
  <2>2. r \in docs
    BY <2>1 DEF ResidueInv, KeptInv, IndexInv
  <2>3. PICK id \in Mapped : ftsMap[id] = r
    BY <2>2 DEF ResidueInv, OwnedInv
  <2>4. Entry(id) /\ id \in Stored
    BY <2>3 DEF ResidueInv, KeptInv, IndexInv, OutliveInv
  <2> QED
    BY <2>1, <2>3, <2>4 DEF Entry
<1> QED
  BY <1>1, <1>2, ResidueNext, PTL DEF Spec

----------------------------------------------------------------------------
(* ClipStore implements History, under every fault: each statement of an   *)
(* operation is a step of the history or leaves it unchanged.              *)
(*                                                                         *)
(* An entry is a row.  A capture takes effect with INSERT INTO clips, and  *)
(* is answered two statements later; a deletion takes effect, and is       *)
(* answered, with DELETE FROM clips.                                       *)

Entries == {<<id, clips[id].content>> : id \in Stored}

(* What the look-up found still holds at the next statement, because the   *)
(* mutex is held; and a deletion works on the id it was asked to delete.   *)
ServeInv ==
    /\ pc = "upsert" => (isNew <=> ~\E id \in Ids : HasContent(id, req.content))
    /\ pc \in {"unindex", "unmap", "remove"} => target = req.id

RefInv == TypeInv /\ OutliveInv /\ ServeInv

LEMMA ServeNext == TypeInv /\ ServeInv /\ [Next]_vars => ServeInv'
<1> SUFFICES ASSUME TypeInv, ServeInv, [Next]_vars PROVE ServeInv'
  OBVIOUS
<1>1. CASE LookUp
  <2>1. UNCHANGED <<clips, req>> /\ pc' = "upsert"
    BY <1>1 DEF LookUp, Continue, tables
  <2>2. isNew' <=> ~\E id \in Ids : HasContent(id, req.content)'
    BY <1>1, <2>1 DEF LookUp, HasContent
  <2> QED
    BY <2>1, <2>2 DEF ServeInv
<1>2. CASE Touch \/ Insert
  BY <1>2 DEF Touch, Insert, AfterUpsert, Continue, Finish, ServeInv
<1>3. CASE FetchRow
  BY <1>3 DEF FetchRow, Continue, Finish, ServeInv
<1>4. CASE FtsDelete \/ MapDelete
  BY <1>4 DEF FtsDelete, MapDelete, Continue, ServeInv
<1>5. CASE UNCHANGED vars
  BY <1>5 DEF vars, tables, locals, ServeInv, HasContent
<1>6. CASE pc' \in {"free", "locked", "map"}
  BY <1>6 DEF ServeInv
<1> QED
  BY <1>1, <1>2, <1>3, <1>4, <1>5, <1>6
     DEF Next, StoreStep, DeleteStep, Acquire, FtsInsert, MapInsert, RowDelete,
         Clear, Fail, Crash, Continue, Finish

LEMMA RefInvAlways == Spec => []RefInv
<1>1. Init => RefInv
  BY TypeInit DEF Init, RefInv, OutliveInv, ServeInv, Mapped, Stored
<1>2. RefInv /\ [Next]_vars => RefInv'
  BY TypeNext, OutliveNext, ServeNext DEF RefInv
<1> QED
  BY <1>1, <1>2, PTL DEF Spec

----------------------------------------------------------------------------
(* How the history sees the tables. *)

LEMMA EntriesKnown ==
    ASSUME NEW c
    PROVE  Abstract!Known(c) <=> \E id \in Ids : HasContent(id, c)
<1>1. \A id : <<id, clips[id].content>>[2] = clips[id].content
  OBVIOUS
<1>2. Abstract!Known(c) <=> \E e \in Entries : e[2] = c
  BY DEF Abstract!Known, Entries
<1>3. (\E e \in Entries : e[2] = c) <=> \E id \in Stored : clips[id].content = c
  BY <1>1 DEF Entries
<1> QED
  BY <1>2, <1>3 DEF HasContent, Stored

LEMMA EntriesPresent ==
    ASSUME NEW i \in Ids
    PROVE  Abstract!Present(i) <=> clips[i] # NoClip
<1>1. \A id : <<id, clips[id].content>>[1] = id
  OBVIOUS
<1>2. Abstract!Present(i) <=> \E e \in Entries : e[1] = i
  BY DEF Abstract!Present, Entries
<1>3. (\E e \in Entries : e[1] = i) <=> i \in Stored
  BY <1>1 DEF Entries
<1> QED
  BY <1>2, <1>3 DEF Stored

LEMMA RequestSeen ==
    ASSUME NEW r \in Requests
    PROVE  LET seen == IF r.kind = "store"
                       THEN [kind |-> "store", content |-> r.content]
                       ELSE r
           IN  /\ seen \in Abstract!Requests
               /\ seen # NoRequest
               /\ seen.kind = r.kind
               /\ r.kind = "store" => seen.content = r.content
               /\ r.kind = "delete" => seen.id = r.id
<1>1. NoRequest.kind = "no request"
  BY DEF NoRequest
<1>2. CASE r.kind = "store"
  <2>1. r.content \in Contents
    BY <1>2 DEF Requests
  <2> DEFINE seen == [kind |-> "store", content |-> r.content]
  <2>2. seen \in [kind : {"store"}, content : Contents]
    BY <2>1
  <2>3. seen.kind = "store" /\ seen.content = r.content
    OBVIOUS
  <2>4. seen \in Abstract!Requests
    BY <2>2 DEF Abstract!Requests
  <2> QED
    BY <1>1, <1>2, <2>3, <2>4
<1>3. CASE r.kind # "store"
  <2>1. r \in [kind : {"delete"}, id : Ids] \cup {[kind |-> "clear"]}
    BY <1>3 DEF Requests
  <2>2. r.kind = "delete" \/ r.kind = "clear"
    BY <2>1
  <2>3. r \in Abstract!Requests
    BY <2>1 DEF Abstract!Requests
  <2> QED
    BY <1>1, <1>3, <2>2, <2>3
<1> QED
  BY <1>2, <1>3

----------------------------------------------------------------------------
(* Each step is a step of the history or leaves it unchanged. *)

Quiet == UNCHANGED <<Entries, HistoryRequest, pc \in {"index", "map"}, HistoryAnswer>>

LEMMA QuietIsStutter == Quiet => UNCHANGED Abstract!vars
BY DEF Quiet, Entries, Abstract!vars

LEMMA AcquireAsks ==
    ASSUME RefInv, NEW r \in Requests, Acquire(r)
    PROVE  Abstract!Next
<1>1. /\ pc = "free" /\ pc' = "locked" /\ req' = r /\ resp' = "none"
      /\ clips' = clips
  BY DEF Acquire, tables
<1>2. HistoryRequest = NoRequest
  <2>1. req = NoRequest
    BY <1>1 DEF RefInv, TypeInv, Phase
  <2>2. NoRequest.kind # "store"
    BY DEF NoRequest
  <2> QED
    BY <2>1, <2>2 DEF HistoryRequest
<1>3. HistoryRequest' \in Abstract!Requests
  BY <1>1, RequestSeen DEF HistoryRequest
<1>4. Entries' = Entries
  BY <1>1 DEF Entries, Stored
<1>5. HistoryAnswer' = "none"
  BY <1>1 DEF HistoryAnswer
<1>6. (pc \in {"index", "map"})' = FALSE
  BY <1>1
<1>7. Abstract!Ask(HistoryRequest')
  BY <1>2, <1>4, <1>5, <1>6 DEF Abstract!Ask, Entries
<1> QED
  BY <1>3, <1>7 DEF Abstract!Next

LEMMA CaptureStores ==
    ASSUME RefInv, Touch \/ Insert
    PROVE  Abstract!Next
<1>1. StoreReq /\ pc = "upsert" /\ resp' \in {"deduped", resp}
  BY DEF Touch, Insert, AfterUpsert, Continue, Finish, RefInv, TypeInv, Phase
<1>2. /\ HistoryRequest # NoRequest /\ HistoryRequest.kind = "store"
      /\ HistoryRequest.content = req.content
  BY <1>1, RequestSeen DEF StoreReq, HistoryRequest
<1>3. CASE Touch
  <2>1. PICK id \in Ids :
          /\ HasContent(id, req.content)
          /\ clips' = [clips EXCEPT ![id].app = Coalesce(req.app, @)]
          /\ AfterUpsert(id)
    BY <1>3 DEF Touch
  <2>2. ~isNew
    BY <1>1, <2>1 DEF RefInv, ServeInv
  <2>3. pc' = "free" /\ resp' = "deduped" /\ req' = NoRequest
    BY <2>1, <2>2 DEF AfterUpsert, Finish, LocalsCleared
  <2>4. \A i \in Ids : /\ clips'[i] # NoClip <=> clips[i] # NoClip
                       /\ clips[i] # NoClip => clips'[i].content = clips[i].content
    BY <1>1, <2>1, TouchedRow, RowOfRequest, SentinelAssumption
       DEF RefInv, TypeInv, TypeOK, HasContent, StoreReq
  <2>5. Entries' = Entries
    BY <2>4 DEF Entries, Stored
  <2>6. Abstract!Known(req.content)
    BY <2>1, EntriesKnown
  <2>7. HistoryRequest' = NoRequest /\ HistoryAnswer' = "ok"
    BY <2>3 DEF HistoryRequest, HistoryAnswer, NoRequest
  <2>8. Abstract!Effect(HistoryRequest)
    BY <1>2, <2>5, <2>6 DEF Abstract!Effect, Abstract!StoreEffect, Entries
  <2>9. Abstract!Apply
    BY <1>1, <1>2, <2>3, <2>7, <2>8 DEF Abstract!Apply
  <2> QED
    BY <2>9 DEF Abstract!Next
<1>4. CASE Insert
  <2>1. PICK id \in Ids :
          /\ clips[id] = NoClip
          /\ clips' = [clips EXCEPT ![id] = RowOf(req)]
          /\ AfterUpsert(id)
    BY <1>4 DEF Insert
  <2>2. isNew
    BY <1>1, <1>4 DEF Insert, RefInv, ServeInv
  <2>3. pc' = "index" /\ resp' = resp /\ req' = req
    BY <2>1, <2>2 DEF AfterUpsert, Continue
  <2>4. RowOf(req) # NoClip /\ RowOf(req).content = req.content
    BY <1>1, RowOfRequest DEF StoreReq
  <2>5. /\ clips'[id] = RowOf(req)
        /\ \A i \in Ids : i # id => clips'[i] = clips[i]
    BY <2>1 DEF RefInv, TypeInv, TypeOK
  <2>6. Stored' = Stored \cup {id} /\ id \notin Stored
    BY <2>1, <2>4, <2>5 DEF Stored
  <2>7. \A i \in Stored : clips'[i] = clips[i]
    BY <2>5, <2>6 DEF Stored
  <2>8. Entries' = Entries \cup {<<id, req.content>>}
    BY <2>4, <2>5, <2>6, <2>7 DEF Entries
  <2>9. ~Abstract!Known(req.content) /\ ~Abstract!Present(id)
    BY <1>4, <2>1, EntriesKnown, EntriesPresent DEF Insert
  <2>10. UNCHANGED <<HistoryRequest, HistoryAnswer>>
    BY <2>3 DEF HistoryRequest, HistoryAnswer
  <2>11. Abstract!Effect(HistoryRequest)
    BY <1>2, <2>8, <2>9 DEF Abstract!Effect, Abstract!StoreEffect, Entries
  <2>12. Abstract!Apply
    BY <1>1, <1>2, <2>3, <2>10, <2>11 DEF Abstract!Apply
  <2> QED
    BY <2>12 DEF Abstract!Next
<1> QED
  BY <1>3, <1>4

LEMMA DeletionDeletes ==
    ASSUME RefInv, RowDelete
    PROVE  Abstract!Next
<1>1. /\ pc = "remove" /\ pc' = "free" /\ resp' = "deleted" /\ req' = NoRequest
      /\ clips' = [clips EXCEPT ![req.id] = NoClip]
      /\ DeleteReq /\ req.id \in Stored
  BY DEF RowDelete, Finish, LocalsCleared, RefInv, TypeInv, Phase, OutliveInv, ServeInv
<1>2. req.id \in Ids /\ clips[req.id] # NoClip
  BY <1>1 DEF Stored
<1>3. /\ HistoryRequest # NoRequest /\ HistoryRequest.kind = "delete"
      /\ HistoryRequest.id = req.id
  BY <1>1, RequestSeen DEF DeleteReq, HistoryRequest
<1>4. \A i \in Ids : clips'[i] = IF i = req.id THEN NoClip ELSE clips[i]
  BY <1>1, <1>2 DEF RefInv, TypeInv, TypeOK
<1>5. Stored' = Stored \ {req.id}
  BY <1>4 DEF Stored
<1>6. Entries' = {e \in Entries : e[1] # req.id}
  BY <1>4, <1>5 DEF Entries, Stored
<1>7. HistoryRequest' = NoRequest /\ HistoryAnswer' = "ok"
  BY <1>1 DEF HistoryRequest, HistoryAnswer, NoRequest
<1>8. Abstract!Effect(HistoryRequest)
  BY <1>2, <1>3, <1>6, EntriesPresent
     DEF Abstract!Effect, Abstract!DeleteEffect, Entries
<1>9. Abstract!Apply
  BY <1>1, <1>3, <1>7, <1>8 DEF Abstract!Apply
<1> QED
  BY <1>9 DEF Abstract!Next

LEMMA ClearClears ==
    ASSUME RefInv, Clear
    PROVE  Abstract!Next
<1>1. /\ pc = "locked" /\ pc' = "free" /\ resp' = "cleared" /\ req' = NoRequest
      /\ req \in Requests /\ req.kind = "clear"
      /\ clips' = [id \in Ids |-> NoClip]
  BY DEF Clear, Finish, LocalsCleared, RefInv, TypeInv, Phase
<1>2. HistoryRequest # NoRequest /\ HistoryRequest.kind = "clear"
  BY <1>1, RequestSeen DEF HistoryRequest
<1>3. Entries' = {}
  BY <1>1 DEF Entries, Stored
<1>4. HistoryRequest' = NoRequest /\ HistoryAnswer' = "ok"
  BY <1>1 DEF HistoryRequest, HistoryAnswer, NoRequest
<1>5. Abstract!Effect(HistoryRequest)
  BY <1>2, <1>3 DEF Abstract!Effect, Abstract!ClearEffect, Entries
<1>6. Abstract!Apply
  BY <1>1, <1>2, <1>4, <1>5 DEF Abstract!Apply
<1> QED
  BY <1>6 DEF Abstract!Next

LEMMA MapInsertAnswers ==
    ASSUME RefInv, MapInsert
    PROVE  Abstract!Next
<1>1. /\ pc = "map" /\ pc' = "free" /\ resp' = "stored" /\ req' = NoRequest
      /\ StoreReq /\ clips' = clips
  BY DEF MapInsert, Finish, LocalsCleared, RefInv, TypeInv, Phase
<1>2. HistoryRequest # NoRequest
  BY <1>1, RequestSeen DEF StoreReq, HistoryRequest
<1>3. Entries' = Entries
  BY <1>1 DEF Entries, Stored
<1>4. HistoryRequest' = NoRequest /\ HistoryAnswer' = "ok"
  BY <1>1 DEF HistoryRequest, HistoryAnswer, NoRequest
<1>5. Abstract!AnswerOk
  BY <1>1, <1>2, <1>3, <1>4 DEF Abstract!AnswerOk, Entries
<1> QED
  BY <1>5 DEF Abstract!Next

LEMMA FetchAnswersOrWaits ==
    ASSUME RefInv, FetchRow
    PROVE  Abstract!Next \/ Quiet
<1>1. /\ pc = "locked" /\ DeleteReq /\ clips' = clips
  BY DEF FetchRow, tables, RefInv, TypeInv, Phase, DeleteReq
<1>2. req.id \in Ids
  BY <1>1 DEF DeleteReq, Requests
<1>3. /\ HistoryRequest # NoRequest /\ HistoryRequest.kind = "delete"
      /\ HistoryRequest.id = req.id
  BY <1>1, RequestSeen DEF DeleteReq, HistoryRequest
<1>4. Entries' = Entries
  BY <1>1 DEF Entries, Stored
<1>5. CASE clips[req.id] = NoClip
  <2>1. pc' = "free" /\ resp' = "not_found" /\ req' = NoRequest
    BY <1>5 DEF FetchRow, Finish, LocalsCleared
  <2>2. HistoryRequest' = NoRequest /\ HistoryAnswer' = "not_found"
    BY <2>1 DEF HistoryRequest, HistoryAnswer, NoRequest
  <2>3. ~Abstract!Present(req.id)
    BY <1>2, <1>5, EntriesPresent
  <2>4. Abstract!AnswerNotFound
    BY <1>1, <1>3, <1>4, <2>1, <2>2, <2>3 DEF Abstract!AnswerNotFound, Entries
  <2> QED
    BY <2>4 DEF Abstract!Next
<1>6. CASE clips[req.id] # NoClip
  <2>1. pc' \in {"remove", "unindex"} /\ UNCHANGED <<req, resp>>
    BY <1>6 DEF FetchRow, Continue
  <2> QED
    BY <1>1, <1>4, <2>1 DEF Quiet, HistoryRequest, HistoryAnswer
<1> QED
  BY <1>5, <1>6

LEMMA FaultsAbandon ==
    ASSUME RefInv, Fail \/ Crash
    PROVE  Abstract!Next
<1>1. /\ pc # "free" /\ pc' = "free" /\ resp' \in {"err", "none"}
      /\ req' = NoRequest /\ clips' = clips
  BY DEF Fail, Crash, Finish, LocalsCleared, tables
<1>2. req \in Requests
  BY <1>1 DEF RefInv, TypeInv, TypeOK, Phase, PCs, StoreReq, DeleteReq
<1>3. HistoryRequest # NoRequest
  BY <1>2, RequestSeen DEF HistoryRequest
<1>4. Entries' = Entries
  BY <1>1 DEF Entries, Stored
<1>5. HistoryRequest' = NoRequest /\ HistoryAnswer' \in {"err", "none"}
  BY <1>1 DEF HistoryRequest, HistoryAnswer, NoRequest
<1>6. Abstract!Abandon
  BY <1>1, <1>3, <1>4, <1>5 DEF Abstract!Abandon, Entries
<1> QED
  BY <1>6 DEF Abstract!Next

LEMMA OthersAreQuiet ==
    ASSUME RefInv,
           LookUp \/ FtsInsert \/ FtsDelete \/ MapDelete \/ UNCHANGED vars
    PROVE  Quiet
<1>1. UNCHANGED <<clips, req, resp>>
  BY DEF LookUp, FtsInsert, FtsDelete, MapDelete, Continue, vars, tables, locals
<1>2. pc' \in {"index", "map"} <=> pc \in {"index", "map"}
  BY DEF LookUp, FtsInsert, FtsDelete, MapDelete, Continue, vars
<1> QED
  BY <1>1, <1>2 DEF Quiet, Entries, Stored, HistoryRequest, HistoryAnswer

(* Whatever statement fails and wherever the process dies, every behaviour *)
(* of the store is one of the history's: a clip appears only by a capture, *)
(* at most once per content, disappears only by the deletion or the clear  *)
(* that was asked for, and "ok" is answered only for what was done.        *)
THEOREM StoreImplementsHistory == Spec => ImplementsHistory
<1>1. Init => Abstract!Init
  <2> SUFFICES ASSUME Init PROVE Abstract!Init
    OBVIOUS
  <2>1. Entries = {}
    BY DEF Init, Entries, Stored
  <2>2. HistoryRequest = NoRequest /\ HistoryAnswer = "none" /\ pc = "free"
    BY DEF Init, LocalsCleared, HistoryRequest, HistoryAnswer, NoRequest
  <2> QED
    BY <2>1, <2>2 DEF Abstract!Init, Entries
<1>2. RefInv /\ [Next]_vars => [Abstract!Next]_(Abstract!vars)
  BY QuietIsStutter, AcquireAsks, CaptureStores, DeletionDeletes, ClearClears,
     MapInsertAnswers, FetchAnswersOrWaits, FaultsAbandon, OthersAreQuiet
     DEF Next, StoreStep, DeleteStep
<1> QED
  BY <1>1, <1>2, RefInvAlways, PTL DEF Spec, ImplementsHistory, Abstract!Spec

============================================================================
