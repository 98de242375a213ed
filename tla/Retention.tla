----------------------------- MODULE Retention -----------------------------
(***************************************************************************)
(* Favourites and eviction (src/schema.rs set_favorite, evict), added to   *)
(* the rows that SearchQuery captures, touches, deletes and lists.  Both   *)
(* are operations of the store that no request reaches yet.                *)
(***************************************************************************)
EXTENDS SearchQuery

CONSTANTS
    Limits,         \* the values of max_items
    MaxFavorites    \* bound: clips that are favourites at a time

ASSUME RetentionAssumption == Limits \subseteq Nat /\ MaxFavorites \in Nat

VARIABLE favorite   \* the rows with is_favorite

rvars == <<vars, favorite>>

RInit == Init /\ favorite = {}

(* The first statement of evict: last_seen_at < cutoff, as texts of one    *)
(* form.  A cutoff or limit that is absent is NoFilter.                    *)
AgedOutAll(cutoff) == {i \in Stored : cutoff # NoFilter /\ seen[i] < cutoff}

AgedOut(cutoff) ==
    {i \in Stored \ favorite : cutoff # NoFilter /\ seen[i] < cutoff}

OldestFirst == {p \in Stored \X Stored : Newer(p[2], p[1])}

KeptOldest(kept, others, max) == First(kept, others, max, OldestFirst)

(* The second statement keeps the first `max` of the other non-favourites. *)
Kept(kept, others, max) == First(kept, others, max, NewestFirst)

(* The statements are two transactions: the process may die in between.    *)
Evict(cutoff, max) ==
    LET aged   == AgedOut(cutoff)
        others == Stored \ (favorite \cup aged)
    IN  \E kept \in SUBSET others :
          /\ kept = others \/ (max # NoFilter /\ Kept(kept, others, max))
          /\ LET gone == aged \cup (others \ kept) IN
              /\ content' = [i \in Ids |-> IF i \in gone THEN NoClip ELSE content[i]]
              /\ seen' = [i \in Ids |-> IF i \in gone THEN 0 ELSE seen[i]]
              /\ after' = {p \in after : p[1] \notin gone /\ p[2] \notin gone}
    /\ answer' = NoAnswer
    /\ UNCHANGED <<used, clock, setBack, favorite>>

SetFavorite(i, is) ==
    /\ i \in Stored
    /\ favorite' = IF is THEN favorite \cup {i} ELSE favorite \ {i}
    /\ Cardinality(favorite') <= MaxFavorites
    /\ answer' = NoAnswer
    /\ UNCHANGED <<rows, clock, setBack, after>>

(* An answer is read before anything else happens: nothing depends on it.  *)
Read ==
    /\ answer # NoAnswer /\ answer' = NoAnswer
    /\ UNCHANGED <<rows, clock, setBack, after, favorite>>

(* A new row is no favourite; a touched one stays what it was. *)
Change ==
    \/ (\E c \in Contents, t \in Times : Capture(c, t)) /\ UNCHANGED favorite
    \/ \E i \in Ids : Delete(i) /\ favorite' = favorite \ {i}
    \/ Clear /\ favorite' = {}
    \/ \E i \in Ids, is \in BOOLEAN : SetFavorite(i, is)
    \/ \E cutoff \in Times \cup {NoFilter}, max \in Limits \cup {NoFilter} : Evict(cutoff, max)

RNext ==
    \/ Read
    \/ answer = NoAnswer /\ Change
    \/ answer = NoAnswer /\ (\E q \in Asked : Query(q)) /\ UNCHANGED favorite

RSpec == RInit /\ [][RNext]_rvars

----------------------------------------------------------------------------
(* Properties. *)

RTypeOK == favorite \subseteq Stored

(* A favourite goes only when somebody deletes it or clears the history:   *)
(* neither statement of evict takes it, and no touch unmarks it.           *)
FavoritesStay ==
    [][\A i \in favorite : i \in Stored' \/ Delete(i) \/ Clear]_rvars

(* Eviction takes the clips seen longest ago: whatever it removes, and     *)
(* wherever it stops, no clip it leaves was seen earlier, but favourites.  *)
OldestGoFirst ==
    [][\A i \in Stored \ Stored' :
         Delete(i) \/ Clear \/ \A j \in Stored' \ favorite : Newer(j, i)]_rvars

============================================================================
