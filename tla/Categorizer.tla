---------------------------- MODULE Categorizer ----------------------------
(***************************************************************************)
(* The category of a text (src/categorize.rs).                             *)
(*                                                                         *)
(* A text is a sequence of lexemes, the pieces that the tests of the code  *)
(* tell apart: white space, the parts of URLs and paths, and marks of      *)
(* code.  Of tests that are alike, one stands for all: "let" and "git" for *)
(* the keywords and commands of their kind, "certificate" for the PEM      *)
(* headers.  No lexeme ends with a point, has a `?`, or is the "while      *)
(* true" of the code's test for it; "select" with "from" and "apiVersion"  *)
(* with "kind" are two indicators each, which is enough without the code's *)
(* tests for the pairs.                                                    *)
(***************************************************************************)
EXTENDS Naturals, Sequences, FiniteSets, SequencesExt

(* The characters of each lexeme that are not white space. *)
Chars ==
    [space |-> 0, newline |-> 0, return |-> 0,
     https |-> 8, file |-> 7, mailto |-> 7,     \* https:// file:// mailto:
     user |-> 5, dotted |-> 11, localhost |-> 9, port |-> 3,    \* user@ example.com :80
     slash |-> 1, word |-> 4, let |-> 3, git |-> 3,
     open |-> 1, close |-> 1, semi |-> 1, equals |-> 1, arrow |-> 2,    \* { } ; = =>
     shebang |-> 2, fence |-> 3, tag |-> 3,     \* #! ``` <b>
     certificate |-> 26]                        \* -----BEGIN CERTIFICATE-----

(* Those among them that the code counts as symbols. *)
Symbols ==
    [l \in DOMAIN Chars |->
        CASE l \in {"slash", "open", "close", "semi", "equals"} -> 1
          [] l \in {"https", "file", "arrow", "tag"} -> 2
          [] l = "certificate" -> 10
          [] OTHER -> 0]

Lexemes == DOMAIN Chars
White == {"space", "newline", "return"}
HasWhite == White \cup {"certificate"}
HasColon == {"https", "file", "mailto"}
PathLexemes == {"slash", "word", "dotted", "localhost", "let", "git"}

(* The characters of t, each as its place and number in the lexeme. *)
CharsOf(weight, t) == UNION {{i} \X (1 .. weight[t[i]]) : i \in DOMAIN t}
Sum(weight, t) == Cardinality(CharsOf(weight, t))

Count(t, ls) == Cardinality({i \in DOMAIN t : t[i] \in ls})
Uses(t, ls) == \E i \in DOMAIN t : t[i] \in ls
Has(t, s) == \E i \in DOMAIN t : i + Len(s) - 1 <= Len(t) /\ SubSeq(t, i, i + Len(s) - 1) = s

(* The parts of t up to its first lexeme of ls, with it and without, and   *)
(* after the last.                                                         *)
Through(t, ls) == SubSeq(t, 1, Min({Len(t)} \cup {i \in DOMAIN t : t[i] \in ls}))
Before(t, ls) == SubSeq(t, 1, Min({Len(t) + 1} \cup {i \in DOMAIN t : t[i] \in ls}) - 1)
After(t, ls) == SubSeq(t, Max({0} \cup {i \in DOMAIN t : t[i] \in ls}) + 1, Len(t))

TrimEnd(t) == SubSeq(t, 1, Max({0} \cup {i \in DOMAIN t : t[i] \notin White}))
Trim(t) == LET u == TrimEnd(t) IN
    IF u = <<>> THEN u ELSE SubSeq(u, Min({i \in DOMAIN u : u[i] \notin White}), Len(u))

----------------------------------------------------------------------------
(* Where the words of a text begin, split_whitespace. *)
WordStarts(t) == {i \in DOMAIN t : t[i] \notin White /\ (i = 1 \/ t[i - 1] \in White)}

LooksLikeFileUrls(t) ==
    ~Uses(t, {"certificate"}) /\ \A i \in WordStarts(t) : t[i] = "file"

LooksLikeAbsolutePaths(t) ==
    /\ \A i \in WordStarts(t) : t[i] = "slash"
    /\ ~Uses(t, Lexemes \ (White \cup PathLexemes))

NameWithUser(authority) == Before(authority, {"port"})

(* The name in the authority of a URL: what is left of the port of what is *)
(* right of the user.                                                      *)
NameOf(authority) == Before(After(authority, {"user"}), {"port"})

(* The authority ends at a slash, its own or a scheme's, or at the # of a  *)
(* shebang; a scheme ends the name after its letters, as a port does.  The *)
(* code tests the authority for being empty, not the name, which is a name *)
(* of digits only if it is empty.                                          *)
IsSingleUrl(t) ==
    /\ ~Uses(t, HasWhite)
    /\ \/ t[1] = "mailto" /\ Uses(Tail(t), {"user"})
       \/ /\ t[1] = "https"
          /\ LET authority == Before(Through(Tail(t), {"https", "file"}), {"slash", "shebang"})
                 name      == NameOf(authority)
             IN  /\ authority # <<>>
                 /\ \/ name = <<"localhost">>
                    \/ Uses(Before(name, HasColon), {"dotted"})
                    \/ name = <<>>

(* INDICATORS; "::" is at the end of mailto: and the beginning of :80. *)
INDICATORS ==
    {<<"let", "space">>, <<"git", "space">>, <<"arrow">>, <<"open", "close">>,
     <<"mailto", "port">>}

Hits(t) == Cardinality({s \in INDICATORS : Has(t, s)})

IsTinyHtml(t) == t[1] = "tag" /\ Last(t) \in {"tag", "arrow"} /\ ~Uses(t, {"open"})

IsDense(t) == 100 * Sum(Symbols, t) > 18 * Sum(Chars, t)

LooksLikeCode(t) ==
    \/ t[1] = "shebang"
    \/ Uses(t, {"fence"})
    \/ /\ ~Uses(t, {"certificate"})
       /\ ~IsTinyHtml(t)
       /\ \/ Hits(t) >= 2
          \/ IsPrefix(<<"git", "space">>, t)
          \/ Count(t, {"open", "close"}) >= 2
          \/ Count(t, {"semi"}) >= 2 /\ Uses(t, {"equals", "arrow"})
          \/ IsDense(t)
          \/ Hits(t) >= 1 /\ Uses(t, {"newline"})

(* The daemon's texts are text/plain or, categorized again, what MimeFor   *)
(* made of them: never an image.                                           *)
Categorize(mime, text) ==
    LET t == Trim(text) IN
      IF mime = "text/uri-list" THEN "file"
      ELSE IF t = <<>> THEN "text"
      ELSE IF LooksLikeFileUrls(t) \/ LooksLikeAbsolutePaths(t) THEN "file"
      ELSE IF IsSingleUrl(t) THEN "url"
      ELSE IF LooksLikeCode(t) THEN "code"
      ELSE "text"

----------------------------------------------------------------------------
(* What the documentation of the module, and of its tests, says of texts   *)
(* of some forms.                                                          *)

Options(l) == {<<>>, <<l>>}
Paths == {<<>>} \cup {<<"slash", l>> : l \in Lexemes \ HasWhite}

(* A URL, built from its parts. *)
Url(user, name, port, path) == <<"https">> \o user \o <<name>> \o port \o path

WellFormedUrls ==
    {<<"mailto", "user", "dotted">>}
      \cup {Url(user, name, port, path) :
              user \in Options("user"), name \in {"dotted", "localhost"},
              port \in Options("port"), path \in Paths}

(* Rules 2 to 5, in their order: a URL is never code, however many symbols *)
(* it has; whatever begins with a shebang or has a fence is code unless it *)
(* is one of the earlier kinds; and code has at least one mark of code.    *)
DocumentedAs(t, category) ==
    LET words == {t[i] : i \in WordStarts(t)}
        files == words = {"file"} /\ ~Uses(t, HasWhite \ White)
    IN  /\ files => category = "file"
        /\ category = "file" => words \subseteq {"file", "slash"}
        /\ t \in WellFormedUrls => category = "url"
        /\ category = "url" => t[1] \in {"https", "mailto"} /\ ~Uses(t, White)
        /\ (t[1] = "shebang" \/ (Uses(t, {"fence"}) /\ Cardinality(WordStarts(t)) > 1)) /\ ~files
              => category = "code"
        /\ category = "code" =>
              Uses(t, {"shebang", "fence", "let", "git", "arrow", "open", "close", "semi",
                       "equals", "tag", "slash", "https", "file", "mailto"})

============================================================================
