---------------------------- MODULE SearchQuery ----------------------------
(***************************************************************************)
(* What a client sees of the history: Recent and Search of the daemon      *)
(* (src/handlers.rs, src/db.rs search, src/schema.rs recent_clips and      *)
(* fts_search), while captures, touches, deletions and the wall clock go   *)
(* on.  The index is taken as whole; ClipStore is about what spoils it.    *)
(*                                                                         *)
(* A time is counted in half seconds, since rows and the `since` of a      *)
(* query are compared as RFC 3339 texts, with and without a fraction.      *)
(***************************************************************************)
EXTENDS Integers, FiniteSets

CONSTANTS
    Contents,               \* normalized texts
    Tokens, Categories, Apps,
    TokensOf, CategoryOf, AppOf,    \* what is stored with a content
    NoClip,                 \* no row with this id
    NoApp,                  \* the NULL source application
    NoFilter,               \* a filter that is absent
    MaxLimit,               \* clamp_limit's 1000
    FetchCap,               \* what a filtered search fetches, 1000
    EastOffset,             \* a time zone's offset
    MaxId, MaxTime          \* bounds: rows ever inserted, times

Ids == 1..MaxId             \* UUID v7, in their order as texts
Times == 1..MaxTime

ASSUME ContentAssumption ==
    /\ TokensOf \in [Contents -> SUBSET Tokens]
    /\ CategoryOf \in [Contents -> Categories]
    /\ AppOf \in [Contents -> Apps \cup {NoApp}]
    /\ NoClip \notin Contents /\ NoFilter \notin Categories \cup Apps /\ NoApp \notin Apps

ASSUME LimitAssumption ==
    /\ MaxLimit \in Nat \ {0} /\ FetchCap \in Nat
    /\ MaxId \in Nat /\ MaxTime \in Nat /\ EastOffset \in Nat

(* The form of the text that names the instant `at`: "utc" as the daemon   *)
(* writes it, with +00:00; "zulu" with Z; "east" with another offset.      *)
Bounds == [at : Times, form : {"utc", "zulu", "east"}]

Queries == [terms : SUBSET Tokens, limit : Nat, category : Categories \cup {NoFilter},
            app : Apps \cup {NoFilter}, since : Bounds \cup {NoFilter}]

CONSTANT Asked              \* the queries clients send

ASSUME AskedAssumption == Asked \subseteq Queries /\ NoFilter \notin Bounds

VARIABLES
    content,    \* per id: the content of its row, or NoClip
    seen,       \* per id: last_seen_at
    used,       \* the ids handed out so far
    clock,      \* the wall clock at the last capture
    answer,     \* the answer to the last query, if nothing changed since
    setBack,    \* history variable: was the wall clock set back?
    after       \* history variable: <<i, j>> when i was captured after j

rows == <<content, seen, used>>
vars == <<rows, clock, answer, setBack, after>>

NoAnswer == [items |-> {}]

Init ==
    /\ content = [i \in Ids |-> NoClip]
    /\ seen = [i \in Ids |-> 0]
    /\ used = {} /\ clock = 0
    /\ answer = NoAnswer
    /\ setBack = FALSE /\ after = {}

----------------------------------------------------------------------------
(* Operators of the code. *)

Stored == {i \in Ids : content[i] # NoClip}

(* T is what ORDER BY and LIMIT n leave of S; `order` has the pairs of     *)
(* which the left one comes first.                                         *)
First(T, S, n, order) ==
    /\ T \subseteq S
    /\ \A i \in T, j \in S : <<j, i>> \in order => j \in T
    /\ IF Cardinality(S) <= n THEN T = S ELSE Cardinality(T) = n

NewerById(i, j) == i > j

(* last_seen_at DESC, id DESC *)
Newer(i, j) == seen[i] > seen[j] \/ (seen[i] = seen[j] /\ i > j)

NewestFirst == {p \in Stored \X Stored : Newer(p[1], p[2])}

Clamp(limit) ==
    IF limit < 1 THEN 1 ELSE IF limit > MaxLimit THEN MaxLimit ELSE limit

Filtered(q) == q.category # NoFilter \/ q.app # NoFilter \/ q.since # NoFilter

FetchedAsAsked(q) == Clamp(q.limit)

Fetched(q) == IF Filtered(q) THEN FetchCap ELSE Clamp(q.limit)

(* The terms are and-ed; without any, the candidates are all rows. *)
Candidates(q) == {i \in Stored : q.terms \subseteq TokensOf[content[i]]}

Second(t) == t \div 2

(* last_seen_at >= since, as texts.  The digits of the date and time come  *)
(* first; then + sorts before the point of a fraction, and both before Z.  *)
TextAtLeast(t, bound) ==
    CASE bound.form = "utc"  -> t >= bound.at
      [] bound.form = "zulu" -> Second(t) > Second(bound.at)
      [] bound.form = "east" -> t > bound.at + EastOffset

Passes(i, q) ==
    /\ q.category # NoFilter => CategoryOf[content[i]] = q.category
    /\ q.app # NoFilter => AppOf[content[i]] = q.app
    /\ q.since # NoFilter => TextAtLeast(seen[i], q.since)

(* FTS5's rank: some order of the matches. *)
StrictOrders(S) ==
    {{p \in S \X S : rank[p[1]] < rank[p[2]]} :
        rank \in {f \in [S -> 1..Cardinality(S)] : \A i, j \in S : f[i] = f[j] => i = j}}

----------------------------------------------------------------------------
(* Actions. *)

Forgotten(i) == {p \in after : i \notin {p[1], p[2]}}

NowLatest(i) == after' = Forgotten(i) \cup {<<i, j>> : j \in Stored \ {i}}

SeenAtInsertOnly(i, t) ==
    /\ seen' = IF i \in Stored THEN seen ELSE [seen EXCEPT ![i] = t]
    /\ NowLatest(i)

(* last_seen_at, of a new row or of the one there is. *)
SeenAt(i, t) ==
    /\ seen' = [seen EXCEPT ![i] = t]
    /\ NowLatest(i)

(* An id begins with the time: while the clock runs on, a later one is     *)
(* greater.                                                                *)
NewId(i) ==
    /\ i \notin used /\ used' = used \cup {i}
    /\ setBack' \/ \A j \in used : j < i

(* store_capture at time t, a poll later than the one before, unless the   *)
(* wall clock was set back.                                                *)
Capture(c, t) ==
    /\ t # clock /\ clock' = t
    /\ setBack' = (setBack \/ t < clock)
    /\ \/ \E i \in Stored : content[i] = c /\ SeenAt(i, t) /\ UNCHANGED <<content, used>>
       \/ /\ \A i \in Stored : content[i] # c
          /\ \E i \in Ids :
               /\ NewId(i)
               /\ content' = [content EXCEPT ![i] = c]
               /\ SeenAt(i, t)
    /\ answer' = NoAnswer

Delete(i) ==
    /\ i \in Stored
    /\ content' = [content EXCEPT ![i] = NoClip]
    /\ seen' = [seen EXCEPT ![i] = 0]
    /\ after' = Forgotten(i)
    /\ answer' = NoAnswer
    /\ UNCHANGED <<used, clock, setBack>>

Clear ==
    /\ content' = [i \in Ids |-> NoClip]
    /\ seen' = [i \in Ids |-> 0]
    /\ after' = {}
    /\ answer' = NoAnswer
    /\ UNCHANGED <<used, clock, setBack>>

(* search: fetch in order, filter, take.  Recent is a search for nothing,  *)
(* without filters.                                                        *)
Query(q) ==
    \E order \in IF q.terms = {} THEN {NewestFirst} ELSE StrictOrders(Candidates(q)) :
      \E fetched \in SUBSET Candidates(q) :
        /\ First(fetched, Candidates(q), Fetched(q), order)
        /\ \E items \in SUBSET fetched :
            /\ First(items, {i \in fetched : Passes(i, q)}, Clamp(q.limit), order)
            /\ answer' = [query |-> q, items |-> items, order |-> order]
    /\ UNCHANGED <<rows, clock, setBack, after>>

Next ==
    \/ \E c \in Contents, t \in Times : Capture(c, t)
    \/ \E i \in Ids : Delete(i)
    \/ Clear
    \/ \E q \in Asked : Query(q)

Spec == Init /\ [][Next]_vars

----------------------------------------------------------------------------
(* Properties. *)

Answers ==
    [query : Asked, items : SUBSET Ids, order : SUBSET (Ids \X Ids)] \cup {NoAnswer}

TypeOK ==
    /\ content \in [Ids -> Contents \cup {NoClip}]
    /\ seen \in [Ids -> Times \cup {0}]
    /\ used \subseteq Ids
    /\ \A i \in Stored : i \in used /\ seen[i] # 0
    /\ clock \in Times \cup {0}
    /\ answer \in Answers
    /\ setBack \in BOOLEAN
    /\ after \subseteq Stored \X Stored

(* What the query asks for, its bound being the instant it names. *)
Wanted(q) ==
    {i \in Candidates(q) :
        /\ q.category # NoFilter => CategoryOf[content[i]] = q.category
        /\ q.app # NoFilter => AppOf[content[i]] = q.app
        /\ q.since # NoFilter => seen[i] >= q.since.at}

InDaemonForm(q) == q.since # NoFilter => q.since.form = "utc"

(* When fewer than `limit` items come back, and no more than were fetched  *)
(* match the terms, nothing the query asks for is missing, and nothing     *)
(* else is there.                                                          *)
InFull(q, items) ==
    (Cardinality(items) < Clamp(q.limit) /\ Cardinality(Candidates(q)) <= FetchCap)
      => items = Wanted(q)

(* Post-filtering can still fill `limit`: an answer that is short of its   *)
(* limit has everything the query asks for, whatever the filters drop.     *)
ShortMeansAll ==
    answer # NoAnswer /\ InDaemonForm(answer.query)
      => InFull(answer.query, answer.items)

(* However much is cut off, nothing is left out for something that comes   *)
(* later: not by the fetch, not by the filters, not by the limit.          *)
NothingBetterLeftOut ==
    answer # NoAnswer /\ InDaemonForm(answer.query) =>
      LET q == answer.query
          Better(i, j) == IF q.terms = {} THEN seen[i] > seen[j]
                          ELSE <<i, j>> \in answer.order
      IN  /\ answer.items \subseteq Wanted(q)
          /\ Cardinality(answer.items) <= Clamp(q.limit)
          /\ \A i \in answer.items, j \in Wanted(q) : Better(j, i) => j \in answer.items

(* Recent lists the clips captured last, whether they were new then or     *)
(* only seen again, as long as the wall clock was not set back.            *)
RecentIsNewest ==
    (answer # NoAnswer /\ ~setBack)
      => (answer.query.terms = {} /\ ~Filtered(answer.query)
            => First(answer.items, Stored, Clamp(answer.query.limit), after))

(* A bound is what any RFC 3339 text says it is.                           *)
SinceIsALowerBound ==
    answer # NoAnswer => InFull(answer.query, answer.items)

============================================================================
