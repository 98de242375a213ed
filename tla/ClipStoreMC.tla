---------------------------- MODULE ClipStoreMC ----------------------------
(* Instances of ClipStore for TLC.                                         *)
EXTENDS ClipStore, TLC

(* A content has a term of its own early enough to be in its preview, and  *)
(* a term it shares with the others that is only in its full text; every   *)
(* application name is one term.                                           *)
Own(c) == <<"own", c>>
Shared == <<"shared", "all">>
App(a) == <<"app", a>>

MCTokens == {Shared} \cup {Own(c) : c \in Contents} \cup {App(a) : a \in Apps}
MCPreviewTokens == [c \in Contents |-> {Own(c)}]
MCBodyTokens == [c \in Contents |-> {Own(c), Shared}]
MCAppTokens == [a \in Apps |-> {App(a)}]

Symmetry == Permutations(Contents) \cup Permutations(Ids) \cup Permutations(Apps)
============================================================================
