---------------------------- MODULE IntakeProofs ----------------------------
(***************************************************************************)
(* Proofs about Intake and the Categorizer it rests on, for any texts of   *)
(* the lexemes, of any length, and any caps.                               *)
(***************************************************************************)
EXTENDS Intake, FiniteSetTheorems, SequenceTheorems, TLAPS

----------------------------------------------------------------------------
(* The least and the greatest number of a set. *)

LEMMA MinExists ==
    ASSUME NEW S \in SUBSET Nat, S # {}
    PROVE  Min(S) \in S /\ \A x \in S : Min(S) <= x
<1>1. PICK m \in S : TRUE
  OBVIOUS
<1> DEFINE Below(x) == {y \in S : y <= x}
           Family == {Below(x) : x \in {y \in S : y <= m}}
<1>2. \A x \in S : IsFiniteSet(Below(x))
  BY FS_BoundedSetOfNaturals
<1>3. Family \subseteq FiniteSubsetsOf(S)
  BY <1>2 DEF FiniteSubsetsOf
<1>4. Below(m) \in Family
  OBVIOUS
<1> HIDE DEF Family
<1>5. IsWellFoundedOn(StrictSubsetOrdering(S), FiniteSubsetsOf(S))
  BY FS_StrictSubsetOrderingWellFounded
<1>6. PICK T \in Family : \A U \in Family : <<U, T>> \notin StrictSubsetOrdering(S)
  BY <1>3, <1>4, <1>5, WFMin
<1>7. PICK x \in S : x <= m /\ T = Below(x)
  BY DEF Family
<1>8. ASSUME NEW y \in S, y < x PROVE FALSE
  <2>1. Below(y) \in Family
    BY <1>7, <1>8 DEF Family
  <2>2. x \in Nat /\ y \in Nat /\ \A z \in S : z \in Nat
    OBVIOUS
  <2>3. Below(y) \subseteq T /\ x \in T /\ x \notin Below(y)
    <3>1. \A z \in S : z <= y => z <= x
      BY <1>8, <2>2
    <3>2. ~(x <= y) /\ x <= x
      BY <1>8, <2>2
    <3> QED
      BY <1>7, <3>1, <3>2
  <2>4. <<Below(y), T>> \in StrictSubsetOrdering(S)
    BY <1>7, <2>3 DEF StrictSubsetOrdering
  <2> QED
    BY <1>6, <2>1, <2>4
<1>9. \A y \in S : x <= y
  BY <1>8
<1> QED
  BY <1>9 DEF Min

(* The greatest is the least of those that bound the set. *)
LEMMA MaxExists ==
    ASSUME NEW S \in SUBSET Nat, S # {}, NEW n \in Nat, \A x \in S : x <= n
    PROVE  Max(S) \in S /\ \A x \in S : x <= Max(S)
<1> DEFINE Bounds == {k \in Nat : \A x \in S : x <= k}
<1>1. Bounds \in SUBSET Nat /\ n \in Bounds
  OBVIOUS
<1> HIDE DEF Bounds
<1>2. Min(Bounds) \in Bounds /\ \A k \in Bounds : Min(Bounds) <= k
  BY <1>1, MinExists
<1> DEFINE m == Min(Bounds)
<1>3. m \in Nat /\ \A x \in S : x <= m
  BY <1>2 DEF Bounds
<1>4. m \in S
  <2> SUFFICES ASSUME m \notin S PROVE FALSE
    OBVIOUS
  <2> HIDE DEF m
  <2>1. \A x \in S : x <= m - 1
    BY <1>3
  <2>2. m # 0
    <3>1. PICK x \in S : TRUE
      OBVIOUS
    <3>2. x \in Nat /\ x <= m - 1
      BY <2>1
    <3> QED
      BY <1>3, <3>2
  <2>3. m - 1 \in Bounds
    BY <1>3, <2>1, <2>2 DEF Bounds
  <2> QED
    BY <1>2, <1>3, <2>3 DEF m
<1> HIDE DEF m
<1> QED
  BY <1>3, <1>4 DEF Max

LEMMA MinIs ==
    ASSUME NEW S \in SUBSET Nat, NEW m \in S, \A x \in S : m <= x
    PROVE  Min(S) = m
<1>1. Min(S) \in S /\ Min(S) <= m
  BY MinExists
<1>2. m <= Min(S) /\ m \in Nat /\ Min(S) \in Nat
  BY <1>1
<1> QED
  BY <1>1, <1>2

LEMMA MaxIs ==
    ASSUME NEW S \in SUBSET Nat, NEW m \in S, \A x \in S : x <= m
    PROVE  Max(S) = m
<1>1. m \in Nat
  OBVIOUS
<1>2. Max(S) \in S /\ m <= Max(S)
  BY <1>1, MaxExists
<1>3. Max(S) <= m /\ Max(S) \in Nat
  BY <1>2
<1> QED
  BY <1>1, <1>2, <1>3

----------------------------------------------------------------------------
(* Trimming. *)

(* What is left of a text is a beginning of it that ends, if it is not     *)
(* empty, with a lexeme that is not white space; only white space is lost. *)
LEMMA TrimEndIs ==
    ASSUME NEW t \in Seq(Lexemes)
    PROVE  /\ TrimEnd(t) \in Seq(Lexemes) /\ Len(TrimEnd(t)) <= Len(t)
           /\ \A i \in 1 .. Len(TrimEnd(t)) : TrimEnd(t)[i] = t[i]
           /\ TrimEnd(t) # <<>> => t[Len(TrimEnd(t))] \notin White
           /\ \A i \in DOMAIN t : i > Len(TrimEnd(t)) => t[i] \in White
<1> DEFINE S == {0} \cup {i \in DOMAIN t : t[i] \notin White}
           n == Max(S)
<1>1. DOMAIN t = 1 .. Len(t) /\ Len(t) \in Nat
  OBVIOUS
<1>2. n \in S /\ \A x \in S : x <= n
  <2>1. S \in SUBSET Nat /\ S # {} /\ \A x \in S : x <= Len(t)
    BY <1>1
  <2> QED
    BY <1>1, <2>1, MaxExists
<1>3. n \in 0 .. Len(t) /\ (n # 0 => t[n] \notin White)
  BY <1>1, <1>2
<1>4. \A i \in DOMAIN t : i > n => t[i] \in White
  BY <1>1, <1>2, <1>3
<1> HIDE DEF n
<1>5. TrimEnd(t) = SubSeq(t, 1, n)
  BY DEF TrimEnd, n
<1>6. /\ TrimEnd(t) \in Seq(Lexemes) /\ Len(TrimEnd(t)) = n
      /\ \A i \in 1 .. n : TrimEnd(t)[i] = t[i]
  BY <1>3, <1>5
<1> QED
  BY <1>1, <1>3, <1>4, <1>6

LEMMA TrimEndKeeps ==
    ASSUME NEW t \in Seq(Lexemes), t # <<>>, Last(t) \notin White
    PROVE  TrimEnd(t) = t
<1>1. Len(TrimEnd(t)) = Len(t)
  BY TrimEndIs DEF Last
<1> QED
  BY <1>1, TrimEndIs, SeqEqual

(* What is left of a text that is not all white space begins with a lexeme *)
(* that is not white space.                                                *)
LEMMA TrimIs ==
    ASSUME NEW t \in Seq(Lexemes)
    PROVE  /\ Trim(t) \in Seq(Lexemes)
           /\ Trim(t) # <<>> => Trim(t)[1] \notin White
           /\ TrimEnd(t) # <<>> => Trim(t) # <<>>
<1> DEFINE u == TrimEnd(t)
           S == {i \in DOMAIN u : u[i] \notin White}
           m == Min(S)
<1>1. u \in Seq(Lexemes) /\ DOMAIN u = 1 .. Len(u) /\ Len(u) \in Nat
  BY TrimEndIs
<1>2. CASE u = <<>>
  BY <1>1, <1>2 DEF Trim
<1>3. CASE u # <<>>
  <2>1. Len(u) \in 1 .. Len(u) /\ u[Len(u)] \notin White
    BY <1>1, <1>3, TrimEndIs
  <2>2. S \in SUBSET Nat /\ S # {}
    BY <1>1, <2>1
  <2>3. m \in 1 .. Len(u) /\ u[m] \notin White
    BY <1>1, <2>2, MinExists
  <2>4. Trim(t) = SubSeq(u, m, Len(u))
    BY <1>3 DEF Trim
  <2> HIDE DEF u, m
  <2>5. /\ Trim(t) \in Seq(Lexemes) /\ Len(Trim(t)) = Len(u) - m + 1
        /\ Trim(t)[1] = u[m]
    BY <1>1, <2>3, <2>4
  <2> QED
    BY <1>1, <2>3, <2>5
<1> QED
  BY <1>2, <1>3

----------------------------------------------------------------------------
(* Line endings. *)

LEMMA UpToSize ==
    ASSUME NEW n \in Nat
    PROVE  IsFiniteSet(1 .. n) /\ Cardinality(1 .. n) = n
<1>1. n - 1 + 1 = n /\ (1 > n => n = 0)
  OBVIOUS
<1> QED
  BY <1>1, FS_Interval

(* In a finite set of numbers there is an n-th for every n up to its size. *)
LEMMA RankOnto ==
    ASSUME NEW K \in SUBSET Nat, IsFiniteSet(K), NEW n \in 1 .. Cardinality(K)
    PROVE  \E i \in K : Cardinality({j \in K : j <= i}) = n
<1> DEFINE UpTo(i) == {j \in K : j <= i}
           rank == [i \in K |-> Cardinality(UpTo(i))]
           places == 1 .. Cardinality(K)
<1>1. Cardinality(K) \in Nat
  BY FS_CardinalityType
<1>2. \A i \in K : IsFiniteSet(UpTo(i)) /\ Cardinality(UpTo(i)) <= Cardinality(K)
  BY FS_Subset
<1>3. \A i \in K : Cardinality(UpTo(i)) \in places
  <2> TAKE i \in K
  <2>1. Cardinality(UpTo(i)) \in Nat
    BY <1>2, FS_CardinalityType
  <2>2. i \in UpTo(i)
    OBVIOUS
  <2>3. Cardinality(UpTo(i)) # 0
    BY <1>2, <2>2, FS_EmptySet
  <2> QED
    BY <1>1, <1>2, <2>1, <2>3
<1>4. ASSUME NEW i \in K, NEW k \in K, i < k
      PROVE  Cardinality(UpTo(i)) # Cardinality(UpTo(k))
  <2>1. \A j \in K : j \in Nat /\ (j <= i => j <= k)
    BY <1>4
  <2>2. UpTo(i) \in SUBSET UpTo(k)
    BY <2>1
  <2>3. k \in UpTo(k) /\ k \notin UpTo(i)
    BY <1>4, <2>1
  <2>4. UpTo(i) # UpTo(k)
    BY <2>3
  <2> HIDE DEF UpTo
  <2> QED
    BY <1>2, <2>2, <2>4, FS_Subset
<1>5. \A i, k \in K : rank[i] = rank[k] => i = k
  <2> TAKE i, k \in K
  <2>1. i < k \/ k < i \/ i = k
    OBVIOUS
  <2>2. rank[i] = Cardinality(UpTo(i)) /\ rank[k] = Cardinality(UpTo(k))
    OBVIOUS
  <2> HIDE DEF rank, UpTo
  <2> QED
    BY <1>4, <2>1, <2>2
<1>6. rank \in [K -> places]
  BY <1>3
<1>7. IsFiniteSet(places) /\ Cardinality(places) = Cardinality(K)
  BY <1>1, FS_Interval
<1> HIDE DEF rank
<1>8. rank \in Injection(K, places)
  BY <1>5, <1>6 DEF Injection, IsInjective
<1> HIDE DEF places
<1>9. rank \in Surjection(K, places)
  BY <1>7, <1>8, FS_Injection
<1>10. PICK i \in K : rank[i] = n
  BY <1>9 DEF Surjection, places
<1> QED
  BY <1>10 DEF rank

(* A conversion of line endings makes a text of a text, and changes none   *)
(* that has no CRLF.                                                       *)
LEMMA UnixedIs ==
    ASSUME NEW t \in Seq(Lexemes)
    PROVE  /\ Unixed(t) \in Seq(Lexemes)
           /\ (\A i \in DOMAIN t : ~ReturnIn(t, i)) => Unixed(t) = t
<1> DEFINE kept == {i \in DOMAIN t : ~ReturnIn(t, i)}
           Rank(i) == Cardinality({j \in kept : j <= i})
           At(n) == CHOOSE i \in kept : Rank(i) = n
<1>1. DOMAIN t = 1 .. Len(t) /\ Len(t) \in Nat
  OBVIOUS
<1>2. kept \in SUBSET Nat /\ kept \in SUBSET (1 .. Len(t))
  BY <1>1
<1>3. IsFiniteSet(kept) /\ Cardinality(kept) \in Nat
  <2> HIDE DEF kept
  <2>1. IsFiniteSet(1 .. Len(t))
    BY <1>1, UpToSize
  <2>2. IsFiniteSet(kept)
    BY <1>2, <2>1, FS_Subset
  <2> QED
    BY <2>2, FS_CardinalityType
<1>4. Unixed(t) = [n \in 1 .. Cardinality(kept) |-> t[At(n)]]
  BY DEF Unixed
<1>5. \A n \in 1 .. Cardinality(kept) : At(n) \in kept /\ Rank(At(n)) = n
  <2> TAKE n \in 1 .. Cardinality(kept)
  <2>1. \E i \in kept : Rank(i) = n
    BY <1>2, <1>3, RankOnto
  <2> QED
    BY <2>1
<1>6. Unixed(t) \in Seq(Lexemes)
  <2>1. \A n \in 1 .. Cardinality(kept) : t[At(n)] \in Lexemes
    <3> TAKE n \in 1 .. Cardinality(kept)
    <3>1. At(n) \in 1 .. Len(t)
      BY <1>2, <1>5, Zenon
    <3> HIDE DEF At
    <3> QED
      BY <3>1
  <2> HIDE DEF At, kept
  <2> QED
    BY <1>3, <1>4, <2>1
<1>7. ASSUME \A i \in DOMAIN t : ~ReturnIn(t, i) PROVE Unixed(t) = t
  <2>1. kept = 1 .. Len(t)
    BY <1>1, <1>7
  <2>2. Cardinality(kept) = Len(t)
    BY <1>1, <2>1, UpToSize
  <2>3. ASSUME NEW i \in 1 .. Len(t) PROVE Rank(i) = i
    <3>1. {j \in kept : j <= i} = 1 .. i
      BY <2>1
    <3>2. Cardinality(1 .. i) = i
      BY UpToSize
    <3> QED
      BY <3>1, <3>2, Zenon
  <2>4. \A n \in 1 .. Len(t) : At(n) = n
    <3> TAKE n \in 1 .. Len(t)
    <3>1. At(n) \in 1 .. Len(t) /\ Rank(At(n)) = n
      BY <1>5, <2>1, <2>2
    <3> HIDE DEF At, Rank
    <3> QED
      BY <2>3, <3>1
  <2> HIDE DEF At, kept
  <2>5. Unixed(t) = [n \in 1 .. Len(t) |-> t[n]]
    BY <1>4, <2>2, <2>4
  <2> QED
    BY <1>1, <2>5
<1> QED
  BY <1>6, <1>7

(* What a poll takes up is a text that does not end with white space; a    *)
(* text that does not, and has no CRLF, is taken up as it is.              *)
LEMMA NormalizeIs ==
    ASSUME NEW t \in Seq(Lexemes)
    PROVE  /\ Normalize(t) \in Seq(Lexemes)
           /\ Normalize(t) # <<>> => Last(Normalize(t)) \notin White
           /\ /\ t # <<>> /\ Last(t) \notin White
              /\ ~Has(t, <<"return", "newline">>)
              => Normalize(t) = t
<1> DEFINE u == Unixed(t)
           v == TrimEnd(u)
<1>1. u \in Seq(Lexemes)
  BY UnixedIs
<1> HIDE DEF u
<1>2. v \in Seq(Lexemes) /\ (v # <<>> => v[Len(v)] \notin White)
  BY <1>1, TrimEndIs
<1>3. ASSUME t # <<>>, Last(t) \notin White, ~Has(t, <<"return", "newline">>)
      PROVE  v = t
  <2>1. \A i \in DOMAIN t : ~ReturnIn(t, i)
    <3> SUFFICES ASSUME NEW i \in DOMAIN t, ReturnIn(t, i) PROVE FALSE
      OBVIOUS
    <3>1. i \in 1 .. Len(t) /\ i + 1 \in 1 .. Len(t)
      BY DEF ReturnIn
    <3>2. SubSeq(t, i, i + 1) = <<"return", "newline">>
      <4> DEFINE s == SubSeq(t, i, i + 1)
      <4>1. s \in Seq(Lexemes) /\ Len(s) = 2 /\ s[1] = t[i] /\ s[2] = t[i + 1]
        BY <3>1
      <4> HIDE DEF s
      <4>2. s = <<s[1], s[2]>>
        BY <4>1
      <4> QED
        BY <4>1, <4>2 DEF s, ReturnIn
    <3>3. Len(<<"return", "newline">>) = 2 /\ i + 2 - 1 = i + 1
      BY <3>1
    <3>4. Has(t, <<"return", "newline">>)
      BY <3>1, <3>2, <3>3 DEF Has
    <3> QED
      BY <1>3, <3>4
  <2>2. u = t
    BY <2>1, UnixedIs DEF u
  <2> QED
    BY <1>3, <2>2, TrimEndKeeps
<1>4. Normalize(t) = v
  BY DEF Normalize, u
<1> QED
  BY <1>2, <1>3, <1>4 DEF Last

LEMMA NormalizeEmpty == Normalize(NoText) = NoText
<1>1. NoText \in Seq(Lexemes) /\ Len(NoText) = 0
  BY EmptySeq DEF NoText
<1>2. DOMAIN NoText = {}
  BY <1>1
<1>3. Unixed(NoText) = NoText
  BY <1>1, <1>2, UnixedIs
<1>4. TrimEnd(NoText) \in Seq(Lexemes) /\ Len(TrimEnd(NoText)) = 0
  <2>1. TrimEnd(NoText) \in Seq(Lexemes) /\ Len(TrimEnd(NoText)) <= Len(NoText)
    BY <1>1, TrimEndIs
  <2>2. Len(TrimEnd(NoText)) \in Nat
    BY <2>1
  <2> QED
    BY <1>1, <2>1, <2>2
<1>5. TrimEnd(NoText) = NoText
  BY <1>1, <1>4, SeqEqual
<1> QED
  BY <1>3, <1>5 DEF Normalize

----------------------------------------------------------------------------
(* Types. *)

LEMMA PreviewIsShort ==
    ASSUME NEW t \in Seq(Lexemes)
    PROVE  Len(Preview(t)) <= PreviewMax
<1> DEFINE spaced == [i \in DOMAIN t |-> IF t[i] \in White THEN "space" ELSE t[i]]
           line == Trim(spaced)
           n == Min({PreviewMax, Len(line)})
<1>1. "space" \in Lexemes
  BY DEF Lexemes, Chars
<1>2. spaced \in Seq(Lexemes)
  BY <1>1
<1> HIDE DEF spaced
<1>3. line \in Seq(Lexemes) /\ Len(line) \in Nat
  BY <1>2, TrimIs
<1> HIDE DEF line
<1>4. PreviewMax \in Nat
  BY IntakeAssumption
<1>5. n \in Nat /\ n <= PreviewMax /\ n <= Len(line)
  <2>1. {PreviewMax, Len(line)} \in SUBSET Nat /\ {PreviewMax, Len(line)} # {}
    BY <1>3, <1>4
  <2> QED
    BY <1>3, <1>4, <2>1, MinExists
<1>6. Preview(t) = SubSeq(line, 1, n)
  BY DEF Preview, line, spaced
<1> HIDE DEF n
<1> QED
  BY <1>3, <1>4, <1>5, <1>6

LEMMA CategoryType ==
    ASSUME NEW t PROVE Categorize("text/plain", t) \in {"file", "url", "code", "text"}
BY Zenon DEF Categorize

(* A poll takes up a text fit for a row, and stores it as one. *)
LEMMA RowOfType ==
    ASSUME NEW t \in Seq(Lexemes) \ {<<>>}
    PROVE  /\ RowOf(t).text = t
           /\ RowOf(t).category = Categorize("text/plain", t)
           /\ RowOf(t).category \in {"file", "url", "code", "text"}
           /\ RowOf(t).mime = MimeFor(RowOf(t).category)
           /\ RowOf(t).body \in {NoText, t}
           /\ Len(RowOf(t).preview) <= PreviewMax
BY PreviewIsShort, CategoryType DEF RowOf, NoText

LEMMA NoTextType == NoText \in Seq(Lexemes)
BY EmptySeq DEF NoText

LEMMA TypeInit == Init => TypeOK
BY DEF Init, TypeOK, NoText

LEMMA TypeNext == TypeOK /\ [Next]_vars => TypeOK'
<1> SUFFICES ASSUME TypeOK, [Next]_vars PROVE TypeOK'
  OBVIOUS
<1>1. CASE Copy
  BY <1>1, IntakeAssumption DEF Copy, TypeOK
<1>2. ASSUME NEW r \in rows, CopyBack(r) PROVE TypeOK'
  <2>1. r.body \in {NoText, r.text} /\ r.text \in Seq(Lexemes)
    BY DEF TypeOK
  <2>2. r.body \in Seq(Lexemes)
    BY <2>1, NoTextType
  <2> QED
    BY <1>2, <2>2 DEF CopyBack, TypeOK
<1>3. CASE Poll
  <2> DEFINE t == Normalize(clipboard)
  <2>1. t \in Seq(Lexemes) \ {<<>>} /\ Last(t) \notin White
    BY <1>3, NormalizeIs DEF Poll, TypeOK
  <2>2. /\ lastHash' = t /\ UNCHANGED <<clipboard, cap, foreign>>
        /\ rows' = IF \E r \in rows : r.text = t THEN rows ELSE rows \cup {RowOf(t)}
    BY <1>3 DEF Poll
  <2> HIDE DEF t
  <2>3. \A r \in rows' : r \in rows \/ (r = RowOf(t) /\ ~\E s \in rows : s.text = t)
    BY <2>2
  <2>4. \A r \in rows' :
          /\ r.text \in Seq(Lexemes) \ {<<>>} /\ Last(r.text) \notin White
          /\ r.category \in {"file", "url", "code", "text"}
          /\ r.body \in {NoText, r.text}
          /\ Len(r.preview) <= PreviewMax
    BY <2>1, <2>3, RowOfType DEF TypeOK
  <2>5. \A r, s \in rows' : r.text = s.text => r = s
    BY <2>1, <2>3, RowOfType DEF TypeOK
  <2> QED
    BY <2>1, <2>2, <2>4, <2>5 DEF TypeOK
<1>4. ASSUME NEW c \in Caps, Restart(c) PROVE TypeOK'
  BY <1>4, NoTextType DEF Restart, TypeOK
<1>5. CASE UNCHANGED vars
  BY <1>5 DEF vars, TypeOK
<1> QED
  BY <1>1, <1>2, <1>3, <1>4, <1>5 DEF Next

(* Types; that no stored text ends with white space or is there twice; and *)
(* that no preview is longer than it may be.                               *)
THEOREM TypeCorrect == Spec => []TypeOK
BY TypeInit, TypeNext, PTL DEF Spec

----------------------------------------------------------------------------
(* Where texts come from. *)

(* A row says of its text what the thread found when it stored it, and     *)
(* what is on the clipboard was copied by another application or is the    *)
(* body of a clip, maybe of one stored under another cap.                  *)
RowsInv ==
    /\ \A r \in rows : /\ r.category = Categorize("text/plain", r.text)
                       /\ r.mime = MimeFor(r.category)
    /\ clipboard \in {NoText} \cup foreign \cup {r.body : r \in rows}

IInv == TypeOK /\ RowsInv /\ CopyOfClipIsTheClip

LEMMA RowsNext == TypeOK /\ RowsInv /\ [Next]_vars => RowsInv'
<1> SUFFICES ASSUME TypeOK, RowsInv, [Next]_vars PROVE RowsInv'
  OBVIOUS
<1>1. CASE Copy
  BY <1>1 DEF Copy, RowsInv
<1>2. ASSUME NEW r \in rows, CopyBack(r) PROVE RowsInv'
  BY <1>2 DEF CopyBack, RowsInv
<1>3. CASE Poll
  <2> DEFINE t == Normalize(clipboard)
  <2>1. t \in Seq(Lexemes) \ {<<>>}
    BY <1>3, NormalizeIs DEF Poll, TypeOK
  <2>2. /\ UNCHANGED <<clipboard, foreign>>
        /\ rows' = rows \/ rows' = rows \cup {RowOf(t)}
    BY <1>3 DEF Poll
  <2> HIDE DEF t
  <2> QED
    BY <2>1, <2>2, RowOfType DEF RowsInv
<1>4. CASE (\E c \in Caps : Restart(c)) \/ UNCHANGED vars
  BY <1>4 DEF Restart, vars, RowsInv
<1> QED
  BY <1>1, <1>2, <1>3, <1>4 DEF Next

(* The body of a clip is what a poll takes up of it, so that its row is    *)
(* already there, unless the body has a CRLF: normalizing a text once      *)
(* takes away the trailing white space for good, but CRCRLF leaves a CRLF. *)
LEMMA CopyNext == IInv /\ [Next]_vars => CopyOfClipIsTheClip'
<1> SUFFICES ASSUME IInv, [Next]_vars PROVE CopyOfClipIsTheClip'
  OBVIOUS
<1> USE DEF IInv
<1>1. CASE Copy
  BY <1>1 DEF Copy, CopyOfClipIsTheClip
<1>2. ASSUME NEW r \in rows, CopyBack(r) PROVE CopyOfClipIsTheClip'
  BY <1>2 DEF CopyBack, CopyOfClipIsTheClip
<1>3. CASE Poll
  <2> DEFINE t == Normalize(clipboard)
  <2>1. t \in Seq(Lexemes) \ {<<>>}
    BY <1>3, NormalizeIs DEF Poll, TypeOK
  <2>2. /\ UNCHANGED <<clipboard, foreign>>
        /\ rows' = IF \E r \in rows : r.text = t THEN rows ELSE rows \cup {RowOf(t)}
    BY <1>3 DEF Poll
  <2>3. CASE rows' = rows
    BY <2>2, <2>3 DEF CopyOfClipIsTheClip
  <2>4. CASE /\ ~\E r \in rows : r.text = t
             /\ rows' = rows \cup {RowOf(t)}
    <3>1. CASE clipboard \in foreign
      BY <2>1, <2>2, <2>4, <3>1, RowOfType DEF CopyOfClipIsTheClip
    <3>2. CASE \E r \in rows : clipboard = r.body /\ r.body # NoText
      <4>1. PICK r \in rows : clipboard = r.body /\ r.body # NoText
        BY <3>2
      <4>2. /\ r.text = clipboard /\ clipboard \in Seq(Lexemes) \ {<<>>}
            /\ Last(clipboard) \notin White
        BY <4>1 DEF TypeOK
      <4>3. t # clipboard
        BY <2>4, <4>2
      <4>4. Has(r.text, <<"return", "newline">>)
        BY <4>2, <4>3, NormalizeIs
      <4> QED
        BY <2>4, <4>4 DEF CopyOfClipIsTheClip
    <3>3. CASE clipboard = NoText
      BY <2>1, <3>3, NormalizeEmpty DEF NoText
    <3> QED
      BY <3>1, <3>2, <3>3 DEF RowsInv
  <2> QED
    BY <2>2, <2>3, <2>4
<1>4. CASE (\E c \in Caps : Restart(c)) \/ UNCHANGED vars
  BY <1>4 DEF Restart, vars, CopyOfClipIsTheClip
<1> QED
  BY <1>1, <1>2, <1>3, <1>4 DEF Next

LEMMA Invariant == Spec => []IInv
<1>1. Init => IInv
  BY TypeInit DEF Init, IInv, RowsInv, CopyOfClipIsTheClip
<1>2. IInv /\ [Next]_vars => IInv'
  BY TypeNext, RowsNext, CopyNext DEF IInv
<1> QED
  BY <1>1, <1>2, PTL DEF Spec

(* Copying clips back out of the history, however often and under          *)
(* whatever caps, makes no rows: every row is the normalized form of a     *)
(* text another application copied, as long as no clip has a CRLF.         *)
THEOREM CopiesMakeNoRows == Spec => []CopyOfClipIsTheClip
BY Invariant, PTL DEF IInv

(* The MIME type and the body that are stored lead to the category that is *)
(* stored.                                                                 *)
THEOREM StoredTypeFits == Spec => []CategorizedAgain
<1>1. IInv => CategorizedAgain
  <2> SUFFICES ASSUME IInv, NEW r \in rows, r.body # NoText
               PROVE  Categorize(r.mime, r.body) = r.category
    BY DEF CategorizedAgain
  <2>1. /\ r.body = r.text /\ r.category = Categorize("text/plain", r.text)
        /\ r.mime = MimeFor(r.category)
    BY DEF IInv, TypeOK, RowsInv
  <2>2. CASE r.category = "file"
    BY <2>1, <2>2 DEF MimeFor, Categorize
  <2>3. CASE r.category # "file"
    BY <2>1, <2>3 DEF MimeFor
  <2> QED
    BY <2>2, <2>3
<1> QED
  BY <1>1, Invariant, PTL

----------------------------------------------------------------------------
(* Categories. *)

(* The tests of the cascade on a trimmed text that is not empty. *)
CategoryOf(t) ==
    IF LooksLikeFileUrls(t) \/ LooksLikeAbsolutePaths(t) THEN "file"
    ELSE IF IsSingleUrl(t) THEN "url"
    ELSE IF LooksLikeCode(t) THEN "code"
    ELSE "text"

LEMMA CategoryOfTrimmed ==
    ASSUME NEW t, Trim(t) # <<>>
    PROVE  Categorize("text/plain", t) = CategoryOf(Trim(t))
BY DEF Categorize, CategoryOf

(* The first lexeme of a trimmed text begins a word; a text without white  *)
(* space is one word.                                                      *)
LEMMA FirstWord ==
    ASSUME NEW t \in Seq(Lexemes) \ {<<>>}, t[1] \notin White
    PROVE  /\ 1 \in DOMAIN t /\ 1 \in WordStarts(t)
           /\ ~Uses(t, White) => Cardinality(WordStarts(t)) = 1
<1>1. 1 \in DOMAIN t /\ DOMAIN t = 1 .. Len(t) /\ Len(t) \in Nat
  OBVIOUS
<1>2. 1 \in WordStarts(t)
  BY <1>1 DEF WordStarts
<1>3. ASSUME ~Uses(t, White) PROVE WordStarts(t) = {1}
  <2>1. ASSUME NEW i \in WordStarts(t), i # 1 PROVE FALSE
    <3>1. i - 1 \in DOMAIN t /\ t[i - 1] \in White
      BY <1>1, <2>1 DEF WordStarts
    <3> QED
      BY <1>3, <3>1 DEF Uses
  <2> QED
    BY <1>2, <2>1
<1> QED
  BY <1>1, <1>2, <1>3, FS_Singleton

(* Only lexemes with symbols in them make a text dense. *)
LEMMA SymbolsAre ==
    \A l \in Lexemes :
      /\ Symbols[l] \in 0 .. 26 /\ Chars[l] \in 0 .. 26
      /\ Symbols[l] # 0 => l \in {"slash", "open", "close", "semi", "equals", "https",
                                  "file", "arrow", "tag", "certificate"}
BY DEF Symbols, Chars, Lexemes

LEMMA SumType ==
    ASSUME NEW t \in Seq(Lexemes), NEW weight, \A l \in Lexemes : weight[l] \in 0 .. 26
    PROVE  /\ Sum(weight, t) \in Nat
           /\ Sum(weight, t) > 0 => \E i \in DOMAIN t : weight[t[i]] # 0
<1>1. DOMAIN t = 1 .. Len(t) /\ Len(t) \in Nat
  OBVIOUS
<1>2. IsFiniteSet((1 .. Len(t)) \X (1 .. 26))
  BY <1>1, UpToSize, FS_Product
<1>3. CharsOf(weight, t) \in SUBSET ((1 .. Len(t)) \X (1 .. 26))
  <2>1. \A i \in DOMAIN t : weight[t[i]] \in 0 .. 26
    BY <1>1
  <2>2. ASSUME NEW i \in DOMAIN t
        PROVE  {i} \X (1 .. weight[t[i]]) \subseteq (1 .. Len(t)) \X (1 .. 26)
    <3> DEFINE n == weight[t[i]]
    <3>1. i \in 1 .. Len(t) /\ n \in 0 .. 26
      BY <1>1, <2>1
    <3> HIDE DEF n
    <3>2. 1 .. n \subseteq 1 .. 26
      BY <3>1
    <3>3. {i} \X (1 .. n) \subseteq (1 .. Len(t)) \X (1 .. 26)
      BY <3>1, <3>2
    <3> QED
      BY <3>3 DEF n
  <2> QED
    BY <2>2 DEF CharsOf
<1>4. IsFiniteSet(CharsOf(weight, t))
  BY <1>2, <1>3, FS_Subset
<1>5. Sum(weight, t) \in Nat
  BY <1>4, FS_CardinalityType DEF Sum
<1>6. ASSUME Sum(weight, t) > 0 PROVE \E i \in DOMAIN t : weight[t[i]] # 0
  <2>1. CharsOf(weight, t) # {}
    <3>1. CharsOf(weight, t) = {} => Sum(weight, t) = 0
      BY FS_EmptySet DEF Sum
    <3> QED
      BY <1>6, <3>1
  <2>2. PICK i \in DOMAIN t : {i} \X (1 .. weight[t[i]]) # {}
    BY <2>1 DEF CharsOf
  <2>3. weight[t[i]] # 0
    BY <2>2
  <2> QED
    BY <2>3
<1> QED
  BY <1>5, <1>6

(* Where a text is cut at lexemes of ls. *)
LEMMA BeforeIs ==
    ASSUME NEW t \in Seq(Lexemes), NEW ls, NEW n \in 0 .. Len(t),
           \A i \in 1 .. n : t[i] \notin ls, n < Len(t) => t[n + 1] \in ls
    PROVE  Before(t, ls) = SubSeq(t, 1, n)
<1> DEFINE S == {Len(t) + 1} \cup {i \in DOMAIN t : t[i] \in ls}
<1>1. DOMAIN t = 1 .. Len(t) /\ Len(t) \in Nat
  OBVIOUS
<1>2. n \in Nat /\ n <= Len(t)
  BY <1>1
<1>3. S \in SUBSET Nat
  BY <1>1
<1>4. n + 1 \in S
  <2>1. CASE ~(n < Len(t))
    <3>1. n + 1 = Len(t) + 1
      BY <1>1, <1>2, <2>1
    <3> QED
      BY <3>1
  <2>2. CASE n < Len(t)
    <3>1. n + 1 \in 1 .. Len(t)
      BY <1>1, <1>2, <2>2
    <3> QED
      BY <1>1, <2>2, <3>1
  <2> QED
    BY <2>1, <2>2
<1>5. ASSUME NEW x \in S PROVE n + 1 <= x
  <2>1. CASE x = Len(t) + 1
    BY <1>1, <1>2, <2>1
  <2>2. CASE x \in DOMAIN t /\ t[x] \in ls
    <3>1. x \in Nat /\ x >= 1 /\ x \notin 1 .. n
      BY <1>1, <2>2
    <3> QED
      BY <1>2, <3>1
  <2> QED
    BY <2>1, <2>2
<1> HIDE DEF S
<1>6. Min(S) = n + 1
  BY <1>3, <1>4, <1>5, MinIs
<1>7. Min(S) - 1 = n
  BY <1>2, <1>6
<1> QED
  BY <1>7 DEF Before, S

LEMMA AfterIs ==
    ASSUME NEW t \in Seq(Lexemes), NEW ls, NEW n \in 0 .. Len(t),
           n = 0 \/ t[n] \in ls, \A i \in n + 1 .. Len(t) : t[i] \notin ls
    PROVE  After(t, ls) = SubSeq(t, n + 1, Len(t))
<1> DEFINE S == {0} \cup {i \in DOMAIN t : t[i] \in ls}
<1>1. DOMAIN t = 1 .. Len(t) /\ Len(t) \in Nat
  OBVIOUS
<1>2. S \in SUBSET Nat /\ n \in S /\ \A x \in S : x <= n
  BY <1>1
<1> HIDE DEF S
<1>3. Max(S) = n
  BY <1>2, MaxIs
<1> QED
  BY <1>3 DEF After, S

LEMMA ThroughIs ==
    ASSUME NEW t \in Seq(Lexemes), NEW ls, \A i \in 1 .. Len(t) - 1 : t[i] \notin ls
    PROVE  Through(t, ls) = t
<1> DEFINE S == {Len(t)} \cup {i \in DOMAIN t : t[i] \in ls}
<1>1. DOMAIN t = 1 .. Len(t) /\ Len(t) \in Nat
  OBVIOUS
<1>2. S \in SUBSET Nat /\ Len(t) \in S /\ \A x \in S : Len(t) <= x
  BY <1>1
<1> HIDE DEF S
<1>3. Min(S) = Len(t)
  BY <1>2, MinIs
<1> QED
  BY <1>3, SubSeqFull DEF Through, S

(* An authority with the name at k, maybe a user before it and a port      *)
(* after it.                                                               *)
IsAuthority(a, k, name) ==
    /\ a \in Seq(Lexemes) /\ k \in 1 .. Len(a) /\ a[k] = name
    /\ k = 1 \/ (k = 2 /\ a[1] = "user")
    /\ Len(a) = k \/ (Len(a) = k + 1 /\ a[k + 1] = "port")

LEMMA NameOfAuthority ==
    ASSUME NEW name \in {"dotted", "localhost"}, NEW a, NEW k, IsAuthority(a, k, name)
    PROVE  NameOf(a) = <<name>>
<1> DEFINE b == After(a, {"user"})
<1>1. a \in Seq(Lexemes) /\ k - 1 \in 0 .. Len(a) /\ k - 1 + 1 = k
  BY DEF IsAuthority
<1>2. b = SubSeq(a, k, Len(a))
  <2>1. k - 1 = 0 \/ a[k - 1] \in {"user"}
    BY DEF IsAuthority
  <2>2. \A i \in k .. Len(a) : a[i] \notin {"user"}
    BY DEF IsAuthority
  <2> QED
    BY <1>1, <2>1, <2>2, AfterIs
<1> HIDE DEF b
<1>3. /\ b \in Seq(Lexemes) /\ Len(b) \in {1, 2} /\ b[1] = name
      /\ Len(b) = 2 => b[2] = "port"
  BY <1>2 DEF IsAuthority
<1>4. Before(b, {"port"}) = SubSeq(b, 1, 1)
  <2>1. 1 \in 0 .. Len(b) /\ \A i \in 1 .. 1 : b[i] \notin {"port"}
    BY <1>3
  <2>2. 1 < Len(b) => b[1 + 1] \in {"port"}
    BY <1>3
  <2> QED
    BY <1>3, <2>1, <2>2, BeforeIs
<1>5. SubSeq(b, 1, 1) = <<name>>
  <2> DEFINE c == SubSeq(b, 1, 1)
  <2>1. c \in Seq(Lexemes) /\ Len(c) = 1 /\ c[1] = name
    BY <1>3
  <2> HIDE DEF c
  <2>2. c = <<name>>
    BY <2>1
  <2> QED
    BY <2>2 DEF c
<1> QED
  BY <1>4, <1>5 DEF NameOf, b

LEMMA ConcatIs ==
    ASSUME NEW s \in Seq(Lexemes), NEW t \in Seq(Lexemes)
    PROVE  /\ s \o t \in Seq(Lexemes) /\ Len(s \o t) = Len(s) + Len(t)
           /\ \A i \in 1 .. Len(s) : (s \o t)[i] = s[i]
           /\ \A i \in 1 .. Len(t) : (s \o t)[Len(s) + i] = t[i]
<1>1. Len(s) \in Nat /\ Len(t) \in Nat
  OBVIOUS
<1> QED
  BY <1>1, ConcatProperties

LEMMA PartTypes ==
    ASSUME NEW l \in Lexemes, NEW s \in Options(l)
    PROVE  /\ s \in Seq(Lexemes) /\ Len(s) \in {0, 1}
           /\ Len(s) = 1 => s[1] = l
<1>1. CASE s = <<>>
  BY <1>1, EmptySeq
<1>2. CASE s = <<l>>
  BY <1>2
<1> QED
  BY <1>1, <1>2 DEF Options

LEMMA AuthorityOfParts ==
    ASSUME NEW user \in Options("user"), NEW name \in {"dotted", "localhost"},
           NEW port \in Options("port")
    PROVE  LET a == user \o <<name>> \o port
           IN  /\ \E k \in {1, 2} : IsAuthority(a, k, name)
               /\ \A i \in 1 .. Len(a) : a[i] \in {"user", name, "port"}
<1> DEFINE b == user \o <<name>>
           a == b \o port
<1>1. {"user", name, "port"} \subseteq Lexemes
  BY DEF Lexemes, Chars
<1> DEFINE k == Len(user) + 1
           last == k + Len(port)
<1>2. /\ user \in Seq(Lexemes) /\ Len(user) \in {0, 1}
      /\ Len(user) = 1 => user[1] = "user"
  BY <1>1, PartTypes
<1>3. /\ port \in Seq(Lexemes) /\ Len(port) \in {0, 1}
      /\ Len(port) = 1 => port[1] = "port"
  BY <1>1, PartTypes
<1>4. <<name>> \in Seq(Lexemes) /\ Len(<<name>>) = 1 /\ <<name>>[1] = name
  BY <1>1
<1>5. /\ b \in Seq(Lexemes) /\ Len(b) = k /\ b[k] = name
      /\ k = 2 => b[1] = "user"
  BY <1>2, <1>4, ConcatProperties
<1> HIDE DEF b
<1>6. k \in {1, 2} /\ (Len(port) = 0 => last = k) /\ (Len(port) = 1 => last = k + 1)
  <2> DEFINE m == Len(user)
             n == Len(port)
  <2>1. m \in {0, 1}
    BY <1>2
  <2> HIDE DEF m, n
  <2>2. m + 1 \in {1, 2} /\ (n = 0 => m + 1 + n = m + 1) /\ (n = 1 => m + 1 + n = m + 1 + 1)
    BY <2>1
  <2> QED
    BY <2>2 DEF m, n
<1> HIDE DEF k
<1>7. /\ a \in Seq(Lexemes) /\ Len(a) = last
      /\ \A i \in 1 .. k : a[i] = b[i]
      /\ last = k + 1 => a[k + 1] = "port"
  <2>1. /\ a \in Seq(Lexemes) /\ Len(a) = last
        /\ \A i \in 1 .. k : a[i] = b[i]
        /\ \A i \in 1 .. Len(port) : a[k + i] = port[i]
    BY <1>3, <1>5, ConcatIs
  <2>2. last = k + 1 => 1 \in 1 .. Len(port) /\ port[1] = "port"
    BY <1>3, <1>6
  <2> QED
    BY <2>1, <2>2
<1>8. last \in {k, k + 1}
  BY <1>3, <1>6
<1> HIDE DEF a, last
<1>9. a[k] = name /\ (k = 2 => a[1] = "user")
  BY <1>5, <1>6, <1>7
<1>10. IsAuthority(a, k, name)
  BY <1>6, <1>7, <1>9, <1>8 DEF IsAuthority
<1>11. \A i \in 1 .. Len(a) : a[i] \in {"user", name, "port"}
  <2> TAKE i \in 1 .. Len(a)
  <2>1. i = k \/ (i = 1 /\ k = 2) \/ (i = k + 1 /\ last = k + 1)
    BY <1>6, <1>7, <1>8
  <2> QED
    BY <1>7, <1>9, <2>1
<1> QED
  BY <1>6, <1>10, <1>11 DEF a, b

(* A URL built from its parts passes the test for one, whatever its path. *)
LEMMA UrlsAreUrls ==
    ASSUME NEW t \in WellFormedUrls
    PROVE  IsSingleUrl(t) /\ t[1] \in {"https", "mailto"}
<1>1. CASE t = <<"mailto", "user", "dotted">>
  <2>1. /\ DOMAIN t = {1, 2, 3} /\ t[1] = "mailto" /\ t[2] = "user" /\ t[3] = "dotted"
        /\ DOMAIN Tail(t) = {1, 2} /\ Tail(t)[1] = "user"
    BY <1>1
  <2> QED
    BY <2>1 DEF IsSingleUrl, Uses, HasWhite, White
<1>2. ASSUME NEW user \in Options("user"), NEW name \in {"dotted", "localhost"},
             NEW port \in Options("port"),
             NEW path \in Paths, t = Url(user, name, port, path)
      PROVE  IsSingleUrl(t) /\ t[1] \in {"https", "mailto"}
  <2> DEFINE a == user \o <<name>> \o port
             u == a \o path
  <2>1. PICK k \in {1, 2} : IsAuthority(a, k, name)
    BY AuthorityOfParts
  <2>2. \A i \in 1 .. Len(a) : a[i] \in {"user", name, "port"}
    BY AuthorityOfParts
  <2>3. a \in Seq(Lexemes) /\ Len(a) \in Nat \ {0}
    BY <2>1 DEF IsAuthority
  <2>4. {"https", "slash", "user", "port", name} \subseteq Lexemes
    BY DEF Lexemes, Chars
  <2>5. /\ path \in Seq(Lexemes) /\ Len(path) \in {0, 2}
        /\ Len(path) = 2 => path[1] = "slash" /\ path[2] \in Lexemes \ HasWhite
    <3>1. CASE path = <<>>
      BY <3>1, EmptySeq
    <3>2. CASE path # <<>>
      <4>1. PICK l \in Lexemes \ HasWhite : path = <<"slash", l>>
        BY <3>2 DEF Paths
      <4>2. path \in Seq(Lexemes) /\ Len(path) = 2 /\ path[1] = "slash" /\ path[2] = l
        BY <2>4, <4>1
      <4> QED
        BY <4>2
    <3> QED
      BY <3>1, <3>2
  <2> DEFINE scheme == <<"https">>
  <2>6. scheme \in Seq(Lexemes) /\ Len(scheme) = 1 /\ scheme[1] = "https"
    BY <2>4
  <2> HIDE DEF scheme
  <2>7. t = scheme \o u
    <3>1. user \in Seq(Lexemes) /\ port \in Seq(Lexemes) /\ <<name>> \in Seq(Lexemes)
      BY <2>4, PartTypes
    <3>2. user \o <<name>> \in Seq(Lexemes)
      BY <3>1, ConcatProperties
    <3>3. (scheme \o user) \o <<name>> = scheme \o (user \o <<name>>)
      BY <2>6, <3>1, ConcatAssociative
    <3>4. (scheme \o (user \o <<name>>)) \o port = scheme \o a
      BY <2>6, <3>1, <3>2, ConcatAssociative
    <3>5. (scheme \o a) \o path = scheme \o u
      <4> HIDE DEF a
      <4> QED
        BY <2>3, <2>5, <2>6, ConcatAssociative
    <3>6. t = (((scheme \o user) \o <<name>>) \o port) \o path
      BY <1>2 DEF Url, scheme
    <3> QED
      BY <3>3, <3>4, <3>5, <3>6
  <2> HIDE DEF a
  <2>8. /\ u \in Seq(Lexemes) /\ Len(u) = Len(a) + Len(path)
        /\ \A i \in 1 .. Len(a) : u[i] = a[i]
        /\ Len(path) = 2 => u[Len(a) + 1] = "slash" /\ u[Len(a) + 2] = path[2]
    BY <2>3, <2>5, ConcatProperties
  <2> HIDE DEF u
  <2>9. /\ t \in Seq(Lexemes) /\ Len(t) = Len(u) + 1 /\ t[1] = "https"
        /\ \A i \in 1 .. Len(u) : t[i + 1] = u[i]
    <3>1. /\ scheme \o u \in Seq(Lexemes) /\ Len(scheme \o u) = Len(u) + 1
          /\ (scheme \o u)[1] = "https"
          /\ \A i \in 1 .. Len(u) : (scheme \o u)[1 + i] = u[i]
      <4>1. u \in Seq(Lexemes)
        BY <2>8
      <4>2. scheme \in Seq(Lexemes)
        BY <2>6
      <4>3. /\ scheme \o u \in Seq(Lexemes) /\ Len(scheme \o u) = Len(scheme) + Len(u)
            /\ \A i \in 1 .. Len(scheme) : (scheme \o u)[i] = scheme[i]
            /\ \A i \in 1 .. Len(u) : (scheme \o u)[Len(scheme) + i] = u[i]
        BY <4>1, <4>2, ConcatIs
      <4> QED
        BY <2>6, <4>1, <4>3
    <3>2. \A i \in 1 .. Len(u) : 1 + i = i + 1
      BY <2>8
    <3> QED
      BY <2>7, <3>1, <3>2
  <2>10. Tail(t) = u
    BY <2>8, <2>9, SeqEqual, HeadTailProperties
  <2>11. \A i \in 1 .. Len(u) :
           \/ i \in 1 .. Len(a) /\ u[i] \in {"user", name, "port"}
           \/ i = Len(a) + 1 /\ u[i] = "slash"
           \/ i = Len(u) /\ u[i] \in Lexemes \ HasWhite
    <3> TAKE i \in 1 .. Len(u)
    <3>1. CASE i <= Len(a)
      BY <2>2, <2>3, <2>8, <3>1
    <3>2. CASE i > Len(a)
      <4> DEFINE m == Len(path)
                 n == Len(a)
      <4>1. m \in {0, 2} /\ n \in Nat /\ i \in 1 .. n + m /\ i > n
        BY <2>3, <2>5, <2>8, <3>2
      <4> HIDE DEF m, n
      <4>2. m = 2 /\ (i = n + 1 \/ i = n + 2)
        BY <4>1
      <4>3. Len(path) = 2 /\ (i = Len(a) + 1 \/ i = Len(a) + 2)
        BY <4>2 DEF m, n
      <4> QED
        BY <2>5, <2>8, <4>3
    <3> QED
      BY <2>3, <3>1, <3>2
  <2>12. \A i \in 1 .. Len(u) : u[i] \notin HasWhite
    BY <2>11 DEF HasWhite, White
  <2>13. ~Uses(t, HasWhite)
    <3> SUFFICES ASSUME NEW i \in DOMAIN t PROVE t[i] \notin HasWhite
      BY DEF Uses
    <3>1. i = 1 \/ (i - 1 \in 1 .. Len(u) /\ i - 1 + 1 = i)
      BY <2>8, <2>9
    <3> QED
      BY <2>9, <2>12, <3>1 DEF HasWhite, White
  <2>14. Through(u, {"https", "file"}) = u
    <3>1. \A i \in 1 .. Len(u) - 1 : u[i] \notin {"https", "file"}
      BY <2>8, <2>11
    <3> QED
      BY <2>8, <3>1, ThroughIs
  <2>15. Before(u, {"slash", "shebang"}) = a
    <3>1. \A i \in 1 .. Len(a) : u[i] \notin {"slash", "shebang"}
      BY <2>2, <2>8
    <3>2. Len(a) \in 0 .. Len(u) /\ (Len(a) < Len(u) => u[Len(a) + 1] \in {"slash", "shebang"})
      BY <2>3, <2>5, <2>8
    <3>3. Before(u, {"slash", "shebang"}) = SubSeq(u, 1, Len(a))
      BY <2>8, <3>1, <3>2, BeforeIs
    <3>4. SubSeq(u, 1, Len(a)) = a
      BY <2>3, <2>8, <3>2, SubSeqProperties, SeqEqual
    <3> QED
      BY <3>3, <3>4
  <2>16. NameOf(a) = <<name>>
    BY <2>1, NameOfAuthority
  <2>17. name = "dotted" => Uses(Before(<<name>>, HasColon), {"dotted"})
    <3> SUFFICES ASSUME name = "dotted"
                 PROVE  Uses(Before(<<"dotted">>, HasColon), {"dotted"})
      OBVIOUS
    <3> DEFINE s == <<"dotted">>
    <3>1. s \in Seq(Lexemes) /\ Len(s) = 1 /\ s[1] = "dotted"
      BY <2>4
    <3> HIDE DEF s
    <3>2. Before(s, HasColon) = SubSeq(s, 1, 1)
      BY <3>1, BeforeIs DEF HasColon
    <3>3. 1 \in DOMAIN SubSeq(s, 1, 1) /\ SubSeq(s, 1, 1)[1] = "dotted"
      BY <3>1
    <3> QED
      BY <3>2, <3>3 DEF Uses, s
  <2>18. a # <<>>
    BY <2>3
  <2> QED
    BY <2>9, <2>10, <2>13, <2>14, <2>15, <2>16, <2>17, <2>18 DEF IsSingleUrl
<1>3. CASE t # <<"mailto", "user", "dotted">>
  <2>1. \E user \in Options("user"), name \in {"dotted", "localhost"},
           port \in Options("port"), path \in Paths : t = Url(user, name, port, path)
    BY <1>3 DEF WellFormedUrls
  <2> QED
    BY <1>2, <2>1
<1> QED
  BY <1>1, <1>3

(* A text that the tests for code let pass has a mark of code. *)
Marks == {"shebang", "fence", "let", "git", "arrow", "open", "close", "semi",
          "equals", "tag", "slash", "https", "file", "mailto"}

LEMMA CodeHasMark ==
    ASSUME NEW t \in Seq(Lexemes) \ {<<>>}, LooksLikeCode(t)
    PROVE  Uses(t, Marks)
<1>1. DOMAIN t = 1 .. Len(t) /\ 1 \in DOMAIN t
  OBVIOUS
<1>2. ASSUME NEW i \in DOMAIN t, t[i] \in Marks PROVE Uses(t, Marks)
  BY <1>2 DEF Uses
<1>3. CASE t[1] = "shebang" \/ Uses(t, {"fence"})
  BY <1>1, <1>2, <1>3 DEF Uses, Marks
<1>4. CASE Hits(t) >= 1 \/ Hits(t) >= 2
  <2>1. {s \in INDICATORS : Has(t, s)} # {}
    <3>1. {s \in INDICATORS : Has(t, s)} = {} => Hits(t) = 0
      BY FS_EmptySet DEF Hits
    <3> QED
      BY <1>4, <3>1
  <2>2. PICK s \in INDICATORS : Has(t, s)
    BY <2>1
  <2>3. s[1] \in Marks /\ Len(s) \in {1, 2}
    BY DEF INDICATORS, Marks
  <2>4. PICK i \in DOMAIN t : i + Len(s) - 1 <= Len(t) /\ SubSeq(t, i, i + Len(s) - 1) = s
    BY <2>2 DEF Has
  <2>5. SubSeq(t, i, i + Len(s) - 1)[1] = t[i]
    <3> DEFINE n == i + Len(s) - 1
    <3>1. i \in 1 .. Len(t) /\ n \in i .. Len(t)
      BY <1>1, <2>3, <2>4
    <3> HIDE DEF n
    <3>2. SubSeq(t, i, n)[1] = t[i]
      BY <3>1
    <3> QED
      BY <3>2 DEF n
  <2> QED
    BY <1>2, <2>3, <2>4, <2>5
<1>5. CASE IsPrefix(<<"git", "space">>, t)
  <2> DEFINE s == <<"git", "space">>
  <2>1. Len(s) = 2 /\ s[1] = "git" /\ SubSeq(s, 1, 2)[1] = "git"
    OBVIOUS
  <2>2. 2 <= Len(t) /\ SubSeq(s, 1, 2) = SubSeq(t, 1, 2)
    BY <1>5, <2>1 DEF IsPrefix
  <2>3. SubSeq(t, 1, 2)[1] = t[1]
    BY <2>2
  <2>4. t[1] = "git"
    BY <2>1, <2>2, <2>3
  <2> QED
    BY <1>1, <1>2, <2>4 DEF Marks
<1>6. ASSUME NEW ls \in SUBSET Marks, Count(t, ls) >= 2 PROVE Uses(t, Marks)
  <2>1. {i \in DOMAIN t : t[i] \in ls} = {} => Count(t, ls) = 0
    BY FS_EmptySet DEF Count
  <2>2. PICK i \in DOMAIN t : t[i] \in ls
    BY <1>6, <2>1
  <2> QED
    BY <1>2, <2>2
<1>7. CASE IsDense(t) /\ ~Uses(t, {"certificate"})
  <2>1. Sum(Symbols, t) \in Nat /\ Sum(Chars, t) \in Nat
    BY SumType, SymbolsAre
  <2>2. Sum(Symbols, t) > 0
    BY <1>7, <2>1 DEF IsDense
  <2>3. PICK i \in DOMAIN t : Symbols[t[i]] # 0
    BY <2>2, SumType, SymbolsAre
  <2>4. t[i] \in Lexemes /\ t[i] # "certificate"
    BY <1>7 DEF Uses
  <2> QED
    BY <1>2, <2>3, <2>4, SymbolsAre DEF Marks
<1>8. {"open", "close"} \subseteq Marks /\ {"semi"} \subseteq Marks
  BY DEF Marks
<1> QED
  BY <1>3, <1>4, <1>5, <1>6, <1>7, <1>8 DEF LooksLikeCode

LEMMA Documented ==
    ASSUME NEW t \in Seq(Lexemes) \ {<<>>}, t[1] \notin White
    PROVE  DocumentedAs(t, CategoryOf(t))
<1> DEFINE words == {t[i] : i \in WordStarts(t)}
           files == words = {"file"} /\ ~Uses(t, HasWhite \ White)
<1>1. t[1] \in words
  BY FirstWord
<1>2. ASSUME files PROVE CategoryOf(t) = "file"
  <2>1. ~Uses(t, {"certificate"})
    BY <1>2 DEF Uses, HasWhite, White
  <2>2. \A i \in WordStarts(t) : t[i] = "file"
    BY <1>2
  <2> QED
    BY <2>1, <2>2 DEF LooksLikeFileUrls, CategoryOf
<1>3. ASSUME CategoryOf(t) = "file" PROVE words \subseteq {"file", "slash"}
  BY <1>3 DEF CategoryOf, LooksLikeFileUrls, LooksLikeAbsolutePaths
<1>4. ASSUME t \in WellFormedUrls PROVE CategoryOf(t) = "url"
  <2>1. IsSingleUrl(t) /\ t[1] \in {"https", "mailto"}
    BY <1>4, UrlsAreUrls
  <2>2. ~LooksLikeFileUrls(t) /\ ~LooksLikeAbsolutePaths(t)
    BY <2>1, FirstWord DEF LooksLikeFileUrls, LooksLikeAbsolutePaths
  <2> QED
    BY <2>1, <2>2 DEF CategoryOf
<1>5. ASSUME CategoryOf(t) = "url"
      PROVE  t[1] \in {"https", "mailto"} /\ ~Uses(t, White)
  <2>1. IsSingleUrl(t)
    BY <1>5, Zenon DEF CategoryOf
  <2>2. ~Uses(t, HasWhite) /\ t[1] \in {"https", "mailto"}
    BY <2>1, Zenon DEF IsSingleUrl
  <2> QED
    BY <2>2 DEF Uses, HasWhite
<1>6. ASSUME t[1] = "shebang" \/ (Uses(t, {"fence"}) /\ Cardinality(WordStarts(t)) > 1),
             ~files
      PROVE  CategoryOf(t) = "code"
  <2>1. ~LooksLikeFileUrls(t)
    <3> SUFFICES ASSUME LooksLikeFileUrls(t) PROVE files
      BY <1>6
    <3>1. words = {"file"}
      BY <1>1 DEF LooksLikeFileUrls
    <3> QED
      BY <3>1 DEF LooksLikeFileUrls, Uses, HasWhite, White
  <2>2. ~LooksLikeAbsolutePaths(t)
    <3>1. CASE t[1] = "shebang"
      BY <3>1, FirstWord DEF LooksLikeAbsolutePaths
    <3>2. CASE Uses(t, {"fence"})
      <4>1. "fence" \in Lexemes \ (White \cup PathLexemes)
        BY DEF Lexemes, Chars, White, PathLexemes
      <4>2. Uses(t, Lexemes \ (White \cup PathLexemes))
        BY <3>2, <4>1 DEF Uses
      <4> QED
        BY <4>2 DEF LooksLikeAbsolutePaths
    <3> QED
      BY <1>6, <3>1, <3>2
  <2>3. ~IsSingleUrl(t)
    <3>1. CASE t[1] = "shebang"
      BY <3>1 DEF IsSingleUrl
    <3>2. CASE Cardinality(WordStarts(t)) > 1
      <4>1. Uses(t, White)
        BY <3>2, FirstWord
      <4>2. Uses(t, HasWhite)
        BY <4>1 DEF Uses, HasWhite
      <4> QED
        BY <4>2 DEF IsSingleUrl
    <3> QED
      BY <1>6, <3>1, <3>2
  <2>4. LooksLikeCode(t)
    BY <1>6 DEF LooksLikeCode
  <2> QED
    BY <2>1, <2>2, <2>3, <2>4 DEF CategoryOf
<1>7. ASSUME CategoryOf(t) = "code" PROVE Uses(t, Marks)
  <2>1. LooksLikeCode(t)
    BY <1>7, Zenon DEF CategoryOf
  <2> QED
    BY <2>1, CodeHasMark
<1> QED
  BY <1>2, <1>3, <1>4, <1>5, <1>6, <1>7, Zenon DEF DocumentedAs, Marks

(* A stored clip has the category its form is documented to have: the     *)
(* order of the cascade is the documented one, a URL of whatever path is a *)
(* URL, and nothing is code without a mark of code.                        *)
THEOREM CategoriesAreDocumented == Spec => []CategoryAsDocumented
<1>1. IInv => CategoryAsDocumented
  <2> SUFFICES ASSUME IInv, NEW r \in rows
               PROVE  DocumentedAs(Trim(r.text), r.category)
    BY DEF CategoryAsDocumented
  <2>1. /\ r.text \in Seq(Lexemes) \ {<<>>} /\ Last(r.text) \notin White
        /\ r.category = Categorize("text/plain", r.text)
    BY DEF IInv, TypeOK, RowsInv
  <2>2. TrimEnd(r.text) # <<>>
    BY <2>1, TrimEndKeeps
  <2>3. /\ Trim(r.text) \in Seq(Lexemes) \ {<<>>}
        /\ Trim(r.text)[1] \notin White
    BY <2>1, <2>2, TrimIs
  <2> QED
    BY <2>1, <2>3, CategoryOfTrimmed, Documented
<1> QED
  BY <1>1, Invariant, PTL

============================================================================
