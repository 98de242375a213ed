----------------------------- MODULE ClipStore -----------------------------
(***************************************************************************)
(* The clip store of the daemon: the operations of clipboard-daemon        *)
(* src/db.rs over the SQL helpers of clipboard-core src/schema.rs.         *)
(*                                                                         *)
(* Every operation runs under the one mutex around the SQLite connection,  *)
(* so operations do not interleave; but apart from clear_clips none of     *)
(* them opens a transaction, so each SQL statement commits by itself.  One *)
(* action is one statement: a statement that fails, or a process that      *)
(* dies, leaves the statements before it in the database.                  *)
(*                                                                         *)
(* The full-text index is a contentless FTS5 table.  It does not know what *)
(* it indexed: removing a document means supplying the text again, and a   *)
(* new document gets the rowid after the largest one in use.               *)
(***************************************************************************)
EXTENDS Naturals, FiniteSets

CONSTANTS
    Contents,       \* normalized texts, identified by their SHA-256
    Ids,            \* clip ids (UUID v7)
    Apps,           \* source applications a capture may report
    NoApp,          \* the NULL source application
    NoClip,         \* no row with this id
    NoId,           \* no id: no row is being worked on
    Tokens,         \* the search terms
    BodyTokens,     \* terms of a content's full text
    PreviewTokens,  \* terms of its preview (at most 200 characters)
    AppTokens,      \* terms of an application name
    MaxRowid        \* bound: rowids the FTS table can hand out

Rows == [content : Contents, full : BOOLEAN, app : Apps \cup {NoApp}]

Requests == [kind : {"store"}, content : Contents, full : BOOLEAN,
             app : Apps \cup {NoApp}]
              \cup [kind : {"delete"}, id : Ids]
              \cup {[kind |-> "clear"]}

Rowids == 1..MaxRowid

ASSUME TokenAssumption ==
    /\ BodyTokens \in [Contents -> SUBSET Tokens]
    /\ PreviewTokens \in [Contents -> SUBSET Tokens]
    /\ AppTokens \in [Apps -> SUBSET Tokens]

ASSUME SentinelAssumption ==
    /\ NoApp \notin Apps
    /\ NoClip \notin Rows
    /\ NoId \notin Ids

ASSUME BoundAssumption == MaxRowid \in Nat

VARIABLES
    clips,      \* table clips: id -> row, or NoClip
    ftsMap,     \* table clips_fts_map: id -> rowid, 0 for no row
    postings,   \* clips_fts: the set of <<rowid, term>> that MATCH finds
    docs,       \* clips_fts: the rowids it counts as documents
    pc,         \* the next statement; "free" when the mutex is free
    req,        \* the request being served
    isNew,      \* store_capture's is_new
    target,     \* id of the row the operation works on
    rowid,      \* fts_add's last_insert_rowid
    resp,       \* outcome of the last request, "none" while one is served
    upsets      \* history variable: what befell the tables and the index since
                \* the last clear: the statements before which a request was
                \* cut short, and "enrich" for a row changed by a touch

tables == <<clips, ftsMap, postings, docs>>
locals == <<req, isNew, target, rowid>>
vars == <<tables, locals, pc, resp, upsets>>

NoRow == 0
NoRequest == [kind |-> "no request"]

----------------------------------------------------------------------------
(* Operators of the code. *)

AppTerms(app) == IF app = NoApp THEN {} ELSE AppTokens[app]

(* The terms of a text: the whole body when it is stored, else the preview. *)
TextTerms(full, c) == IF full THEN BodyTokens[c] ELSE PreviewTokens[c]

(* The columns store_capture hands to fts_add: the captured body or, when  *)
(* it is over the cap, the preview; and the source application.            *)
IndexedTermsOfPreview(r) == PreviewTokens[r.content] \cup AppTerms(r.app)

IndexedTerms(r) == TextTerms(r.full, r.content) \cup AppTerms(r.app)

(* The columns delete hands to fts_remove, rebuilt from the stored row:    *)
(* the decrypted body if there is one, the preview otherwise.              *)
SearchableOfPreview(row) == PreviewTokens[row.content] \cup AppTerms(row.app)

Searchable(row) == TextTerms(row.full, row.content) \cup AppTerms(row.app)

RowOf(r) == [content |-> r.content, full |-> r.full, app |-> r.app]

HasContentWithBody(id, c) ==
    clips[id] # NoClip /\ clips[id].content = c /\ clips[id].full

HasContent(id, c) == clips[id] # NoClip /\ clips[id].content = c

(* SQL COALESCE(new, old). *)
Coalesce(new, old) == IF new = NoApp THEN old ELSE new

(* FTS5 numbers a document one past the largest document it counts. *)
IsNextRowid(r) ==
    /\ \A d \in docs : d < r
    /\ r = 1 \/ r - 1 \in docs

(* The ids fts_search returns for a term: documents joined with the map. *)
Search(term) ==
    {id \in Ids : ftsMap[id] # NoRow /\ <<ftsMap[id], term>> \in postings}

(* The locals of an operation, out of scope before and after it. *)
LocalsCleared(request, new, id, row) ==
    request = NoRequest /\ new = FALSE /\ id = NoId /\ row = NoRow

----------------------------------------------------------------------------

Init ==
    /\ clips = [id \in Ids |-> NoClip]
    /\ ftsMap = [id \in Ids |-> NoRow]
    /\ postings = {}
    /\ docs = {}
    /\ pc = "free"
    /\ LocalsCleared(req, isNew, target, rowid)
    /\ resp = "none"
    /\ upsets = {}

(* A thread takes the mutex for its operation.  Bound: no capture is stored *)
(* once the last rowid is in use; a deletion of it, or a clear, frees it.   *)
Acquire(r) ==
    /\ pc = "free"
    /\ r.kind = "store" => MaxRowid \notin docs
    /\ pc' = "locked"
    /\ req' = r
    /\ resp' = "none"
    /\ UNCHANGED <<tables, isNew, target, rowid, upsets>>

(* The operation returns, releasing the mutex. *)
Finish(outcome) ==
    /\ pc' = "free"
    /\ resp' = outcome
    /\ LocalsCleared(req', isNew', target', rowid')

(* The next statement of the operation, which works on the row id. *)
Continue(stmt, id) ==
    /\ pc' = stmt
    /\ target' = id
    /\ UNCHANGED <<req, resp>>

(***************************************************************************)
(* store_capture: look the hash up; insert a row or touch the one there;   *)
(* index it when the look-up found nothing.                                *)
(***************************************************************************)
LookUp ==
    /\ pc = "locked" /\ req.kind = "store"
    /\ isNew' = ~\E id \in Ids : HasContent(id, req.content)
    /\ Continue("upsert", NoId)
    /\ UNCHANGED <<tables, rowid, upsets>>

AfterUpsert(id) ==
    \/ isNew /\ Continue("index", id) /\ UNCHANGED <<isNew, rowid>>
    \/ ~isNew /\ Finish("deduped")

Touch ==
    /\ pc = "upsert"
    /\ \E id \in Ids :
        /\ HasContent(id, req.content)
        /\ clips' = [clips EXCEPT ![id].app = Coalesce(req.app, @)]
        /\ AfterUpsert(id)
    /\ upsets' = IF clips' = clips THEN upsets ELSE upsets \cup {"enrich"}
    /\ UNCHANGED <<ftsMap, postings, docs>>

(* A fresh id is any id without a row: nothing refers to the id of a row   *)
(* that is gone, the map row having gone with it.                          *)
Insert ==
    /\ pc = "upsert"
    /\ ~\E id \in Ids : HasContent(id, req.content)
    /\ \E id \in Ids :
        /\ clips[id] = NoClip
        /\ clips' = [clips EXCEPT ![id] = RowOf(req)]
        /\ AfterUpsert(id)
    /\ UNCHANGED <<ftsMap, postings, docs, upsets>>

(* fts_add, first statement: INSERT INTO clips_fts. *)
FtsInsert ==
    /\ pc = "index"
    /\ \E r \in Rowids :
        /\ IsNextRowid(r)
        /\ docs' = docs \cup {r}
        /\ postings' = postings \cup ({r} \X IndexedTerms(req))
        /\ rowid' = r
    /\ Continue("map", target)
    /\ UNCHANGED <<clips, ftsMap, isNew, upsets>>

(* fts_add, second statement: INSERT OR REPLACE INTO clips_fts_map. *)
MapInsert ==
    /\ pc = "map"
    /\ ftsMap' = [ftsMap EXCEPT ![target] = rowid]
    /\ Finish("stored")
    /\ UNCHANGED <<clips, postings, docs, upsets>>

(***************************************************************************)
(* delete: fetch the row, reverse its index entry, delete the row.         *)
(***************************************************************************)
FetchRowIfIndexed ==
    /\ pc = "locked" /\ req.kind = "delete"
    /\ \/ ftsMap[req.id] = NoRow /\ Finish("not_found")
       \/ /\ ftsMap[req.id] # NoRow
          /\ Continue("unindex", req.id)
          /\ UNCHANGED <<isNew, rowid>>
    /\ UNCHANGED <<tables, upsets>>

FetchRow ==
    /\ pc = "locked" /\ req.kind = "delete"
    /\ \/ clips[req.id] = NoClip /\ Finish("not_found")
       \/ /\ clips[req.id] # NoClip
          /\ \/ ftsMap[req.id] = NoRow /\ Continue("remove", req.id)
             \/ ftsMap[req.id] # NoRow /\ Continue("unindex", req.id)
          /\ UNCHANGED <<isNew, rowid>>
    /\ UNCHANGED <<tables, upsets>>

(* fts_remove, the 'delete' command: forgets the terms it is given under   *)
(* the rowid, and stops counting the document.                             *)
FtsDeleteDocumentOnly ==
    /\ pc = "unindex"
    /\ docs' = docs \ {ftsMap[target]}
    /\ Continue("unmap", target)
    /\ UNCHANGED <<clips, ftsMap, postings, isNew, rowid, upsets>>

FtsDelete ==
    /\ pc = "unindex"
    /\ docs' = docs \ {ftsMap[target]}
    /\ postings' = postings \ ({ftsMap[target]} \X Searchable(clips[target]))
    /\ Continue("unmap", target)
    /\ UNCHANGED <<clips, ftsMap, isNew, rowid, upsets>>

(* fts_remove, last statement: DELETE FROM clips_fts_map. *)
MapDelete ==
    /\ pc = "unmap"
    /\ ftsMap' = [ftsMap EXCEPT ![target] = NoRow]
    /\ Continue("remove", target)
    /\ UNCHANGED <<clips, postings, docs, isNew, rowid, upsets>>

(* delete_clip: DELETE FROM clips; the foreign key cascades to the map. *)
RowDelete ==
    /\ pc = "remove"
    /\ clips' = [clips EXCEPT ![target] = NoClip]
    /\ ftsMap' = [ftsMap EXCEPT ![target] = NoRow]
    /\ Finish("deleted")
    /\ UNCHANGED <<postings, docs, upsets>>

(***************************************************************************)
(* clear_clips: one transaction over both tables and the index.            *)
(***************************************************************************)
ClearRowsOnly ==
    /\ pc = "locked" /\ req.kind = "clear"
    /\ clips' = [id \in Ids |-> NoClip]
    /\ ftsMap' = [id \in Ids |-> NoRow]
    /\ docs' = {}
    /\ upsets' = {}
    /\ Finish("cleared")
    /\ UNCHANGED postings

ClearWithoutCascade ==
    /\ pc = "locked" /\ req.kind = "clear"
    /\ clips' = [id \in Ids |-> NoClip]
    /\ postings' = {}
    /\ docs' = {}
    /\ upsets' = {}
    /\ Finish("cleared")
    /\ UNCHANGED ftsMap

Clear ==
    /\ pc = "locked" /\ req.kind = "clear"
    /\ clips' = [id \in Ids |-> NoClip]
    /\ ftsMap' = [id \in Ids |-> NoRow]
    /\ postings' = {}
    /\ docs' = {}
    /\ upsets' = {}
    /\ Finish("cleared")

(***************************************************************************)
(* Faults.  A statement fails (disk full, I/O error, a body that does not  *)
(* decrypt, an exhausted rowid): the ? operator returns the error and the  *)
(* mutex guard is dropped.  Or the process dies and is started again.      *)
(***************************************************************************)
CutShort == upsets' = upsets \cup ({pc} \cap {"index", "map", "unmap", "remove"})

Fail ==
    /\ pc # "free"
    /\ CutShort
    /\ Finish("err")
    /\ UNCHANGED tables

Crash ==
    /\ pc # "free"
    /\ CutShort
    /\ Finish("none")
    /\ UNCHANGED tables

StoreStep == LookUp \/ Touch \/ Insert \/ FtsInsert \/ MapInsert
DeleteStep == FetchRow \/ FtsDelete \/ MapDelete \/ RowDelete

Next ==
    \/ \E r \in Requests : Acquire(r)
    \/ StoreStep
    \/ DeleteStep
    \/ Clear
    \/ Fail
    \/ Crash

Spec == Init /\ [][Next]_vars

----------------------------------------------------------------------------
(* Properties. *)

PCs == {"free", "locked", "upsert", "index", "map", "unindex", "unmap", "remove"}
Outcomes == {"none", "stored", "deduped", "deleted", "not_found", "cleared", "err"}

(* The shape of the tables and of the operation in flight. *)
TypeOK ==
    /\ clips \in [Ids -> Rows \cup {NoClip}]
    /\ ftsMap \in [Ids -> Rowids \cup {NoRow}]
    /\ postings \subseteq Rowids \X Tokens
    /\ docs \subseteq Rowids
    /\ pc \in PCs
    /\ req \in Requests \cup {NoRequest}
    /\ isNew \in BOOLEAN
    /\ target \in Ids \cup {NoId}
    /\ rowid \in Rowids \cup {NoRow}
    /\ resp \in Outcomes
    /\ upsets \subseteq {"index", "map", "unmap", "remove", "enrich"}

Stored == {id \in Ids : clips[id] # NoClip}
Mapped == {id \in Ids : ftsMap[id] # NoRow}
Found(id) == \A term \in Searchable(clips[id]) : id \in Search(term)

(* A search never returns a clip that does not contain the term: what      *)
(* fts_search promises ("matching clip ids"), whenever it can get the      *)
(* mutex.                                                                  *)
SearchSound ==
    pc = "free" =>
      \A term \in Tokens : \A id \in Search(term) :
        clips[id] # NoClip /\ term \in Searchable(clips[id])

(* What delete hands fts_remove is what is under the clip's rowid, unless  *)
(* a delete stopped between its index statement and its map statement, or  *)
(* a touch changed an indexed column.                                      *)
EntriesKept == upsets \cap {"unmap", "enrich"} = {}

(* Only these two can spoil a search: captures may fail and crash at any   *)
(* statement, deletes at any other.                                        *)
SearchSoundIfKept == EntriesKept => SearchSound

(* Only these two can keep delete from reversing the entry: what it hands  *)
(* the contentless index is what was indexed, no more and no less.         *)
IndexReversible ==
    EntriesKept /\ pc = "free" =>
      \A id \in Mapped :
        {term \in Tokens : <<ftsMap[id], term>> \in postings} = Searchable(clips[id])

(* No two clips share an index document, in spite of rowids being reused.  *)
RowidsNotShared ==
    EntriesKept => \A i, j \in Mapped : ftsMap[i] = ftsMap[j] => i = j

(* Every stored clip is found by each of its terms, as long as no capture  *)
(* or delete stopped halfway: the index is populated on insert and follows *)
(* every later change of the rows.                                         *)
SearchComplete ==
    upsets = {} /\ pc = "free" => \A id \in Stored : Found(id)

(* A capture is only reported stored or deduplicated when a search finds   *)
(* the clip by its terms, whatever happened to earlier attempts to store   *)
(* the same text.                                                          *)
CapturedIsFound ==
    [][\A c \in Contents :
         (/\ req.kind = "store" /\ req.content = c
          /\ resp' \in {"stored", "deduped"})
            => (\E id \in Ids : HasContent(id, c) /\ Found(id))']_vars

(* The index holds no term that no stored clip contains: deleting a clip,  *)
(* or clearing the history, takes its text out of the index too.           *)
NoResidue ==
    pc = "free" =>
      \A p \in postings : \E id \in Stored : p[2] \in Searchable(clips[id])

(* The index keeps such a term only when a capture stopped after indexing  *)
(* its text and before the map row, or the entries were not kept.          *)
NoResidueIfKept == EntriesKept /\ "map" \notin upsets => NoResidue

(* Deduplication: no two rows have the same content, and a row is never    *)
(* inserted over a live id.                                                *)
OneRowPerContent ==
    \A i, j \in Stored : clips[i].content = clips[j].content => i = j

(* The row outlives its index entry: the map never refers to a row that is *)
(* gone, and a delete that stops halfway has not removed the row yet, so   *)
(* that the caller sees the clip and can delete it again.                  *)
RowOutlivesEntry ==
    /\ Mapped \subseteq Stored
    /\ pc \in {"unindex", "unmap", "remove"} => target \in Stored

----------------------------------------------------------------------------
(* The store implements the history. *)

HistoryRequest ==
    IF req.kind = "store" THEN [kind |-> "store", content |-> req.content]
    ELSE req

HistoryAnswer ==
    IF resp \in {"stored", "deduped", "deleted", "cleared"} THEN "ok" ELSE resp

Abstract == INSTANCE History WITH
    entries <- {<<id, clips[id].content>> : id \in Stored},
    request <- HistoryRequest,
    applied <- pc \in {"index", "map"},
    answer <- HistoryAnswer

(* Every behaviour of the store, faults included, is one of the history's. *)
ImplementsHistory == Abstract!Spec

============================================================================
