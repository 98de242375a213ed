------------------------------- MODULE Intake -------------------------------
(***************************************************************************)
(* What the capture thread makes of a text it reads: src/capture.rs        *)
(* process_text with normalize, mime_for and preview, from the text on the *)
(* clipboard to the row it stores.  CaptureLoop has the interleavings of   *)
(* the thread, and its secrets; here a poll is one step and the subject is *)
(* the data.                                                               *)
(*                                                                         *)
(* A hash is the text it is of.  Sizes are counted in lexemes.             *)
(***************************************************************************)
EXTENDS Categorizer

CONSTANTS
    Texts,          \* what other applications copy
    Caps,           \* max_text_bytes, which the configuration may change
    PreviewMax,     \* PREVIEW_MAX_CHARS
    MaxForeign      \* bound: texts copied from other applications

ASSUME IntakeAssumption ==
    Texts \subseteq Seq(Lexemes) /\ Caps \subseteq Nat /\ {PreviewMax, MaxForeign} \subseteq Nat

VARIABLES
    clipboard,  \* the text on the clipboard
    lastHash,   \* last_hash; NoText before the first
    cap,        \* max_text_bytes
    rows,       \* the rows of the clips table
    foreign     \* history variable: the texts other applications copied

vars == <<clipboard, lastHash, cap, rows, foreign>>

NoText == <<>>

Init ==
    /\ clipboard = NoText /\ lastHash = NoText
    /\ cap \in Caps
    /\ rows = {} /\ foreign = {}

----------------------------------------------------------------------------
(* The conversions. *)

(* The return of a CRLF is at i. *)
ReturnIn(t, i) == t[i] = "return" /\ i < Len(t) /\ t[i + 1] = "newline"

(* Each CRLF becomes LF: the n-th of the other lexemes becomes the n-th. *)
Unixed(t) ==
    LET kept == {i \in DOMAIN t : ~ReturnIn(t, i)}
        Rank(i) == Cardinality({j \in kept : j <= i})
    IN  [n \in 1 .. Cardinality(kept) |-> t[CHOOSE i \in kept : Rank(i) = n]]

NormalizeLastOnly(t) ==
    LET u == Unixed(t) IN IF u # <<>> /\ Last(u) \in White THEN Front(u) ELSE u

Normalize(t) == TrimEnd(Unixed(t))

MimeForUriList(category) == IF category \in {"file", "url"} THEN "text/uri-list" ELSE "text/plain"

MimeFor(category) == IF category = "file" THEN "text/uri-list" ELSE "text/plain"

(* On one line. *)
Preview(t) ==
    LET line == Trim([i \in DOMAIN t |-> IF t[i] \in White THEN "space" ELSE t[i]])
    IN  SubSeq(line, 1, Min({PreviewMax, Len(line)}))

RowOf(t) ==
    LET category == Categorize("text/plain", t) IN
      [text |-> t, category |-> category, mime |-> MimeFor(category),
       body |-> IF Len(t) > cap THEN NoText ELSE t, preview |-> Preview(t)]

----------------------------------------------------------------------------
(* Actions. *)

(* Another application copies a text. *)
Copy ==
    /\ Cardinality(foreign) < MaxForeign
    /\ clipboard' \in Texts /\ foreign' = foreign \cup {clipboard'}
    /\ UNCHANGED <<lastHash, cap, rows>>

(* The user takes a clip out of the history and copies it. *)
CopyBack(r) ==
    /\ r.body # NoText
    /\ clipboard' = r.body
    /\ UNCHANGED <<lastHash, cap, rows, foreign>>

(* One poll: a text whose hash is in the table touches its row, of which   *)
(* nothing here changes.                                                   *)
Poll ==
    LET t == Normalize(clipboard) IN
      /\ t # <<>> /\ t # lastHash
      /\ lastHash' = t
      /\ rows' = IF \E r \in rows : r.text = t THEN rows ELSE rows \cup {RowOf(t)}
      /\ UNCHANGED <<clipboard, cap, foreign>>

(* The daemon is started again, maybe with another cap. *)
Restart(c) ==
    /\ lastHash' = NoText /\ cap' = c
    /\ UNCHANGED <<clipboard, rows, foreign>>

Next ==
    \/ Copy
    \/ \E r \in rows : CopyBack(r)
    \/ Poll
    \/ \E c \in Caps : Restart(c)

Spec == Init /\ [][Next]_vars

----------------------------------------------------------------------------
(* Properties. *)

(* Beyond types: a stored text is not blank, does not end in white space,  *)
(* and is stored once; its body is all of it or missing, and its preview   *)
(* within the limit (capture.rs process_text).                             *)
TypeOK ==
    /\ {clipboard, lastHash} \cup foreign \subseteq Seq(Lexemes) /\ cap \in Caps
    /\ \A r \in rows :
        /\ r.text \in Seq(Lexemes) \ {<<>>} /\ Last(r.text) \notin White
        /\ r.category \in {"file", "url", "code", "text"}
        /\ r.body \in {NoText, r.text}
        /\ Len(r.preview) <= PreviewMax
    /\ \A r, s \in rows : r.text = s.text => r = s

(* A stored clip has the category that the documentation gives texts of    *)
(* its form, whatever other tests of the cascade it would pass             *)
(* (categorize.rs, from its head comment).                                 *)
CategoryAsDocumented == \A r \in rows : DocumentedAs(Trim(r.text), r.category)

(* The MIME type that is stored fits the category: categorizing the stored *)
(* clip again, by its type and body, gives the category it has             *)
(* (capture.rs mime_for).                                                  *)
CategorizedAgain ==
    \A r \in rows : r.body # NoText => Categorize(r.mime, r.body) = r.category

(* A clip copied back from the history is the same clip: it makes no other *)
(* row, unless its text still has the CRLF of a doubled carriage return    *)
(* (capture.rs normalize, "for stable hashing").                           *)
CopyOfClipIsTheClip ==
    \A r \in rows :
        \/ r.text \in {Normalize(t) : t \in foreign}
        \/ \E s \in rows : Has(s.text, <<"return", "newline">>)

============================================================================
