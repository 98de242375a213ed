--------------------------- MODULE SearchQueryMC ---------------------------
(* Instances of SearchQuery for TLC.                                       *)
EXTENDS SearchQuery, TLC

CONSTANTS c1, c2, c3, w, text, code, terminal

(* No application is stored with a content today. *)
MCTokensOf == (c1 :> {w}) @@ (c2 :> {w}) @@ (c3 :> {w})
MCCategoryOf == (c1 :> text) @@ (c2 :> code) @@ (c3 :> text)
MCAppOf == [c \in Contents |-> NoApp]

Plain == [terms |-> {}, limit |-> 1, category |-> NoFilter, app |-> NoFilter, since |-> NoFilter]

(* Recent with any limit, searches with and without each filter. *)
MCAsked ==
    {[Plain EXCEPT !.limit = n] : n \in {0, 2, 3}}
      \cup {[Plain EXCEPT !.terms = t, !.limit = n, !.category = k] :
              t \in {{}, {w}}, n \in 1..2, k \in {text, NoFilter}}
      \cup {[Plain EXCEPT !.limit = 2, !.category = k,
                          !.since = [at |-> t, form |-> "utc"]] :
              k \in {code, NoFilter}, t \in {2, 3}}
      \cup {[Plain EXCEPT !.terms = {w}, !.app = terminal]}

MCAskedInAnyForm ==
    {[Plain EXCEPT !.limit = 2, !.since = [at |-> 2, form |-> "zulu"]]}

Symmetry == Permutations({c1, c3})
============================================================================
