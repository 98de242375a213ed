----------------------------- MODULE IntakeMC -----------------------------
(* Instances of Intake for TLC.                                            *)
EXTENDS Intake, TLC

UpTo(n, ls) == UNION {[1 .. k -> ls] : k \in 1 .. n}

(* All texts of three lexemes, URLs and mails of four, and texts of five   *)
(* that differ in white space only.                                        *)
MCTexts ==
    UpTo(3, Lexemes)
      \cup {<<"https">> \o t : t \in UpTo(3, Lexemes \ White)}
      \cup UpTo(5, {"word", "newline", "return"})

============================================================================
