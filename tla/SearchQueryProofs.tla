------------------------- MODULE SearchQueryProofs -------------------------
(***************************************************************************)
(* Proofs about SearchQuery with Retention's favourites and eviction, for  *)
(* any contents, queries, limits and bounds.                               *)
(***************************************************************************)
EXTENDS Retention, TLAPS

(* The answer is what the query gives on the rows as they are.             *)
AnswerHolds ==
    answer # NoAnswer =>
      LET q == answer.query
      IN  /\ answer.items \subseteq Candidates(q)
          /\ q.terms = {} => answer.order = NewestFirst
          /\ \E fetched \in SUBSET Candidates(q) :
               /\ First(fetched, Candidates(q), Fetched(q), answer.order)
               /\ First(answer.items, {i \in fetched : Passes(i, q)},
                        Clamp(q.limit), answer.order)

(* Until the clock is set back, the order of last_seen_at is the order of  *)
(* the captures, since each is later than all before it.                   *)
OrderKept ==
    ~setBack => after = NewestFirst /\ \A i \in Stored : seen[i] <= clock

IInv == TypeOK /\ AnswerHolds /\ OrderKept

LEMMA InitInv == Init => IInv
<1> SUFFICES ASSUME Init PROVE IInv
  OBVIOUS
<1> USE DEF Init
<1>1. Stored = {}
  BY DEF Stored
<1>2. TypeOK
  <2>1. after \subseteq Stored \X Stored /\ \A i \in Stored : i \in used /\ seen[i] # 0
    BY <1>1
  <2>2. answer \in Answers
    BY DEF Answers
  <2> QED
    BY <2>1, <2>2 DEF TypeOK
<1>3. AnswerHolds
  BY DEF AnswerHolds
<1>4. OrderKept
  BY <1>1 DEF OrderKept, NewestFirst
<1> QED
  BY <1>2, <1>3, <1>4 DEF IInv

(* What the three kinds of change to the rows have in common: row `i` is   *)
(* captured as content `c` at time `t`.                                    *)
LEMMA SeenKeepsOrder ==
    ASSUME IInv, NEW i \in Ids, NEW t \in Times, t # clock, clock' = t,
           setBack' = (setBack \/ t < clock),
           Stored' = Stored \cup {i}, SeenAt(i, t)
    PROVE  OrderKept' /\ after' \subseteq Stored' \X Stored'
<1>1. seen \in [Ids -> Times \cup {0}] /\ clock \in Times \cup {0} /\ setBack \in BOOLEAN
  BY DEF IInv, TypeOK
<1>2. seen'[i] = t /\ \A j \in Ids \ {i} : seen'[j] = seen[j]
  BY <1>1 DEF SeenAt
<1>3. after' = Forgotten(i) \cup {<<i, j>> : j \in Stored \ {i}}
  BY DEF SeenAt, NowLatest
<1>4. after \subseteq Stored \X Stored
  BY DEF IInv, TypeOK
<1>5. after' \subseteq Stored' \X Stored'
  BY <1>3, <1>4 DEF Forgotten
<1>6. ASSUME ~setBack' PROVE OrderKept'
  <2>1. ~setBack /\ ~(t < clock)
    BY <1>6, Zenon
  <2>2. clock < t
    BY <1>1, <2>1 DEF Times
  <2>3. after = NewestFirst /\ \A j \in Stored : seen[j] <= clock
    BY <2>1 DEF IInv, OrderKept
  <2>4. \A j \in Stored : seen[j] \in Nat /\ seen[j] < t
    BY <1>1, <2>2, <2>3, LimitAssumption DEF Times, Stored
  <2>5. \A j \in Stored' : seen'[j] <= clock'
    BY <1>1, <1>2, <2>4 DEF Stored, Times
  <2>6. ASSUME NEW j \in Stored', NEW k \in Stored'
        PROVE  <<j, k>> \in after' <=> Newer(j, k)'
    <3>1. <<j, k>> \in after' <=>
            \/ <<j, k>> \in after /\ j # i /\ k # i
            \/ j = i /\ k # i
      BY <1>3 DEF Forgotten
    <3>2. CASE j # i /\ k # i
      <4>1. j \in Stored /\ k \in Stored
        BY <3>2
      <4>2. <<j, k>> \in after <=> Newer(j, k)
        BY <2>3, <4>1 DEF NewestFirst
      <4>3. Newer(j, k)' <=> Newer(j, k)
        BY <1>2, <3>2 DEF Newer, Stored
      <4> QED
        BY <3>1, <3>2, <4>2, <4>3
    <3>3. CASE j = i /\ k # i
      BY <1>2, <2>4, <3>1, <3>3 DEF Newer, Stored, Times
    <3>4. CASE k = i /\ j # i
      BY <1>2, <2>4, <3>1, <3>4 DEF Newer, Stored, Times
    <3>5. CASE k = i /\ j = i
      BY <1>2, <3>1, <3>5 DEF Newer, Ids, Times
    <3> QED
      BY <3>2, <3>3, <3>4, <3>5
  <2>7. after' = NewestFirst'
    BY <1>5, <2>6 DEF NewestFirst
  <2> QED
    BY <2>5, <2>7 DEF OrderKept
<1> QED
  BY <1>5, <1>6 DEF OrderKept

LEMMA CaptureInv ==
    ASSUME IInv, NEW c \in Contents, NEW t \in Times, Capture(c, t)
    PROVE  IInv'
<1>1. /\ t # clock /\ clock' = t /\ setBack' = (setBack \/ t < clock)
      /\ answer' = NoAnswer
  BY DEF Capture
<1>2. PICK i \in Ids : /\ SeenAt(i, t)
                       /\ Stored' = Stored \cup {i}
                       /\ content' \in [Ids -> Contents \cup {NoClip}]
                       /\ used' \subseteq Ids
                       /\ used \subseteq used' /\ i \in used'
  <2>1. ASSUME NEW i \in Stored, SeenAt(i, t), UNCHANGED <<content, used>>
        PROVE  \E k \in Ids : /\ SeenAt(k, t)
                              /\ Stored' = Stored \cup {k}
                              /\ content' \in [Ids -> Contents \cup {NoClip}]
                              /\ used' \subseteq Ids
                              /\ used \subseteq used' /\ k \in used'
    <3>1. i \in Ids /\ i \in used
      BY DEF IInv, TypeOK, Stored
    <3>2. Stored' = Stored \cup {i}
      BY <2>1 DEF Stored
    <3> QED
      BY <2>1, <3>1, <3>2 DEF IInv, TypeOK
  <2>2. ASSUME NEW i \in Ids, NewId(i), content' = [content EXCEPT ![i] = c], SeenAt(i, t)
        PROVE  \E k \in Ids : /\ SeenAt(k, t)
                              /\ Stored' = Stored \cup {k}
                              /\ content' \in [Ids -> Contents \cup {NoClip}]
                              /\ used' \subseteq Ids
                              /\ used \subseteq used' /\ k \in used'
    <3>1. c # NoClip
      BY ContentAssumption
    <3>2. Stored' = Stored \cup {i}
      BY <2>2, <3>1 DEF Stored, IInv, TypeOK
    <3>3. content' \in [Ids -> Contents \cup {NoClip}]
      BY <2>2 DEF IInv, TypeOK
    <3>4. used' = used \cup {i}
      BY <2>2 DEF NewId
    <3> QED
      BY <2>2, <3>2, <3>3, <3>4 DEF IInv, TypeOK
  <2> QED
    BY <2>1, <2>2 DEF Capture
<1>3. OrderKept' /\ after' \subseteq Stored' \X Stored'
  BY <1>1, <1>2, SeenKeepsOrder
<1>4. seen' \in [Ids -> Times \cup {0}] /\ \A j \in Stored' : seen'[j] # 0
  BY <1>2 DEF SeenAt, IInv, TypeOK, Times, Stored
<1>5. \A j \in Stored' : j \in used'
  BY <1>2 DEF IInv, TypeOK
<1>6. setBack' \in BOOLEAN
  BY <1>1
<1>7. TypeOK'
  BY <1>1, <1>2, <1>3, <1>4, <1>5, <1>6 DEF TypeOK, Answers
<1>8. AnswerHolds'
  BY <1>1 DEF AnswerHolds
<1> QED
  BY <1>3, <1>7, <1>8 DEF IInv

LEMMA DeleteInv ==
    ASSUME IInv, NEW i \in Ids, Delete(i)
    PROVE  IInv'
<1>1. /\ answer' = NoAnswer /\ used' = used /\ clock' = clock
      /\ setBack' = setBack /\ after' = Forgotten(i)
  BY DEF Delete
<1>2. Stored' = Stored \ {i}
  BY DEF Delete, Stored, IInv, TypeOK
<1>3. \A j \in Stored' : seen'[j] = seen[j]
  BY <1>2 DEF Delete, IInv, TypeOK, Stored
<1>4. TypeOK'
  <2>1. content' \in [Ids -> Contents \cup {NoClip}] /\ seen' \in [Ids -> Times \cup {0}]
    BY DEF Delete, IInv, TypeOK
  <2>2. after' \subseteq Stored' \X Stored'
    BY <1>1, <1>2 DEF Forgotten, IInv, TypeOK
  <2> QED
    BY <1>1, <1>2, <1>3, <2>1, <2>2 DEF IInv, TypeOK, Answers
<1>5. OrderKept'
  <2> SUFFICES ASSUME ~setBack
               PROVE  after' = NewestFirst' /\ \A j \in Stored' : seen'[j] <= clock'
    BY <1>1 DEF OrderKept
  <2>1. after = NewestFirst /\ \A j \in Stored : seen[j] <= clock
    BY DEF IInv, OrderKept
  <2>2. \A j, k \in Stored' : Newer(j, k)' <=> Newer(j, k)
    BY <1>3 DEF Newer
  <2>3. after' = NewestFirst'
    BY <1>1, <1>2, <2>1, <2>2 DEF Forgotten, NewestFirst
  <2> QED
    BY <1>1, <1>2, <1>3, <2>1, <2>3
<1>6. AnswerHolds'
  BY <1>1 DEF AnswerHolds
<1> QED
  BY <1>4, <1>5, <1>6 DEF IInv

LEMMA ClearInv ==
    ASSUME IInv, Clear
    PROVE  IInv'
<1>1. Stored' = {} /\ after' = {} /\ answer' = NoAnswer
  BY DEF Clear, Stored
<1>2. TypeOK'
  BY <1>1 DEF Clear, IInv, TypeOK, Answers
<1>3. OrderKept'
  BY <1>1 DEF OrderKept, NewestFirst
<1>4. AnswerHolds'
  BY <1>1 DEF AnswerHolds
<1> QED
  BY <1>2, <1>3, <1>4 DEF IInv

LEMMA QueryInv ==
    ASSUME IInv, NEW q \in Asked, Query(q)
    PROVE  IInv'
<1>1. UNCHANGED <<rows, clock, setBack, after>>
  BY DEF Query
<1>2. PICK order \in IF q.terms = {} THEN {NewestFirst} ELSE StrictOrders(Candidates(q)) :
        \E fetched \in SUBSET Candidates(q) : \E items \in SUBSET fetched :
          /\ First(fetched, Candidates(q), Fetched(q), order)
          /\ First(items, {i \in fetched : Passes(i, q)}, Clamp(q.limit), order)
          /\ answer' = [query |-> q, items |-> items, order |-> order]
  BY DEF Query
<1>3. PICK fetched \in SUBSET Candidates(q) : \E items \in SUBSET fetched :
        /\ First(fetched, Candidates(q), Fetched(q), order)
        /\ First(items, {i \in fetched : Passes(i, q)}, Clamp(q.limit), order)
        /\ answer' = [query |-> q, items |-> items, order |-> order]
  BY <1>2
<1>4. PICK items \in SUBSET fetched :
        /\ First(fetched, Candidates(q), Fetched(q), order)
        /\ First(items, {i \in fetched : Passes(i, q)}, Clamp(q.limit), order)
        /\ answer' = [query |-> q, items |-> items, order |-> order]
  BY <1>3
<1>5. Stored' = Stored /\ NewestFirst' = NewestFirst /\ Candidates(q)' = Candidates(q)
  BY <1>1 DEF rows, Stored, NewestFirst, Newer, Candidates
<1>6. items \subseteq Ids /\ order \subseteq Ids \X Ids
  <2>1. Stored \subseteq Ids /\ Candidates(q) \subseteq Stored
    BY DEF Stored, Candidates
  <2>2. order \subseteq Stored \X Stored
    BY <1>2, <2>1 DEF NewestFirst, StrictOrders
  <2> QED
    BY <1>4, <2>1, <2>2
<1>7. TypeOK'
  BY <1>1, <1>4, <1>5, <1>6 DEF rows, IInv, TypeOK, Answers
<1>8. OrderKept'
  BY <1>1, <1>5 DEF rows, IInv, OrderKept
<1>9. AnswerHolds'
  <2>1. q.terms = {} => order = NewestFirst
    BY <1>2
  <2>2. {i \in fetched : Passes(i, q)'} = {i \in fetched : Passes(i, q)}
    BY <1>1 DEF rows, Passes
  <2>3. answer'.query = q /\ answer'.items = items /\ answer'.order = order
    BY <1>4
  <2>4. items \subseteq Candidates(q)
    BY <1>4
  <2>5. \E f \in SUBSET Candidates(q) :
          /\ First(f, Candidates(q), Fetched(q), order)
          /\ First(items, {i \in f : Passes(i, q)'}, Clamp(q.limit), order)
    <3> WITNESS fetched \in SUBSET Candidates(q)
    <3> QED
      BY <1>4, <2>2
  <2>6. PICK f \in SUBSET Candidates(q) :
          /\ First(f, Candidates(q), Fetched(q), order)
          /\ First(items, {i \in f : Passes(i, q)'}, Clamp(q.limit), order)
    BY <2>5
  <2> QED
    BY <1>5, <2>1, <2>3, <2>4, <2>6 DEF AnswerHolds, First
<1> QED
  BY <1>7, <1>8, <1>9 DEF IInv

LEMMA NextInv == IInv /\ [Next]_vars => IInv'
<1> SUFFICES ASSUME IInv, [Next]_vars PROVE IInv'
  OBVIOUS
<1>1. CASE UNCHANGED vars
  <2>1. TypeOK'
    BY <1>1 DEF vars, rows, IInv, TypeOK, Stored
  <2>2. OrderKept'
    BY <1>1 DEF vars, rows, IInv, OrderKept, NewestFirst, Newer, Stored
  <2>3. AnswerHolds'
    <3> SUFFICES ASSUME answer # NoAnswer
                 PROVE  AnswerHolds'
      BY <1>1 DEF vars, AnswerHolds
    <3>1. answer' = answer /\ content' = content /\ seen' = seen
      BY <1>1 DEF vars, rows
    <3>2. NewestFirst' = NewestFirst
      BY <3>1 DEF NewestFirst, Newer, Stored
    <3>3. Candidates(answer.query)' = Candidates(answer.query)
      BY <3>1 DEF Candidates, Stored
    <3>4. \A S : {i \in S : Passes(i, answer.query)}' = {i \in S : Passes(i, answer.query)}
      BY <3>1 DEF Passes
    <3> QED
      BY <3>1, <3>2, <3>3, <3>4 DEF IInv, AnswerHolds, First
  <2> QED
    BY <2>1, <2>2, <2>3 DEF IInv
<1> QED
  BY <1>1, CaptureInv, DeleteInv, ClearInv, QueryInv DEF Next

(* Eviction is a deletion of several rows. *)
LEMMA EvictInv ==
    ASSUME IInv, NEW cutoff, NEW max, Evict(cutoff, max)
    PROVE  IInv'
<1>1. /\ answer' = NoAnswer /\ used' = used /\ clock' = clock /\ setBack' = setBack
  BY DEF Evict
<1>2. PICK gone :
        /\ content' = [i \in Ids |-> IF i \in gone THEN NoClip ELSE content[i]]
        /\ seen' = [i \in Ids |-> IF i \in gone THEN 0 ELSE seen[i]]
        /\ after' = {p \in after : p[1] \notin gone /\ p[2] \notin gone}
  <2> DEFINE aged == AgedOut(cutoff)
             others == Stored \ (favorite \cup aged)
  <2>1. PICK kept \in SUBSET others :
          LET gone == aged \cup (others \ kept) IN
            /\ content' = [i \in Ids |-> IF i \in gone THEN NoClip ELSE content[i]]
            /\ seen' = [i \in Ids |-> IF i \in gone THEN 0 ELSE seen[i]]
            /\ after' = {p \in after : p[1] \notin gone /\ p[2] \notin gone}
    BY DEF Evict
  <2> WITNESS aged \cup (others \ kept)
  <2> QED
    BY <2>1
<1>3. Stored' = Stored \ gone
  BY <1>2 DEF Stored, IInv, TypeOK
<1>4. \A j \in Stored' : seen'[j] = seen[j]
  BY <1>2, <1>3 DEF Stored
<1>5. TypeOK'
  <2>1. content' \in [Ids -> Contents \cup {NoClip}] /\ seen' \in [Ids -> Times \cup {0}]
    BY <1>2 DEF IInv, TypeOK
  <2>2. after' \subseteq Stored' \X Stored'
    BY <1>2, <1>3 DEF IInv, TypeOK
  <2> QED
    BY <1>1, <1>3, <1>4, <2>1, <2>2 DEF IInv, TypeOK, Answers
<1>6. OrderKept'
  <2> SUFFICES ASSUME ~setBack
               PROVE  after' = NewestFirst' /\ \A j \in Stored' : seen'[j] <= clock'
    BY <1>1 DEF OrderKept
  <2>1. after = NewestFirst /\ \A j \in Stored : seen[j] <= clock
    BY DEF IInv, OrderKept
  <2>2. \A j, k \in Stored' : Newer(j, k)' <=> Newer(j, k)
    BY <1>4 DEF Newer
  <2>3. after' = NewestFirst'
    BY <1>2, <1>3, <2>1, <2>2 DEF NewestFirst
  <2> QED
    BY <1>1, <1>3, <1>4, <2>1, <2>3
<1>7. AnswerHolds'
  BY <1>1 DEF AnswerHolds
<1> QED
  BY <1>5, <1>6, <1>7 DEF IInv

(* So far as the rows go, marking a favourite and reading an answer change *)
(* nothing.                                                                *)
LEMMA ForgetInv ==
    ASSUME IInv, answer' = NoAnswer, UNCHANGED <<rows, clock, setBack, after>>
    PROVE  IInv'
<1>1. TypeOK'
  BY DEF rows, IInv, TypeOK, Stored, Answers
<1>2. OrderKept'
  BY DEF rows, IInv, OrderKept, NewestFirst, Newer, Stored
<1>3. AnswerHolds'
  BY DEF AnswerHolds
<1> QED
  BY <1>1, <1>2, <1>3 DEF IInv

LEMMA RNextInv == IInv /\ [RNext]_rvars => IInv'
<1> SUFFICES ASSUME IInv, [RNext]_rvars PROVE IInv'
  OBVIOUS
<1>1. CASE UNCHANGED rvars
  BY <1>1, NextInv DEF rvars
<1>2. CASE Read
  BY <1>2, ForgetInv DEF Read
<1>3. ASSUME NEW i \in Ids, NEW is \in BOOLEAN, SetFavorite(i, is) PROVE IInv'
  BY <1>3, ForgetInv DEF SetFavorite
<1>4. CASE Change
  BY <1>3, <1>4, CaptureInv, DeleteInv, ClearInv, EvictInv DEF Change
<1> QED
  BY <1>1, <1>2, <1>4, QueryInv DEF RNext

LEMMA Invariant == RSpec => []IInv
BY InitInv, RNextInv, PTL DEF RSpec, RInit

(* Types, and that a row has a time and an id that is not handed out again. *)
THEOREM TypeCorrect == RSpec => []TypeOK
<1>1. IInv => TypeOK
  BY DEF IInv
<1> QED
  BY <1>1, Invariant, PTL

----------------------------------------------------------------------------

LEMMA LimitBounds ==
    ASSUME NEW T, NEW S, NEW n \in Int, NEW order, First(T, S, n, order)
    PROVE  Cardinality(T) <= n /\ (Cardinality(T) < n => T = S)
BY DEF First

(* In the daemon's own form, a bound is compared as the instant it names.  *)
LEMMA FilterIsMeant ==
    ASSUME NEW q \in Asked, InDaemonForm(q)
    PROVE  Wanted(q) = {i \in Candidates(q) : Passes(i, q)}
BY DEF Wanted, Passes, InDaemonForm, TextAtLeast

LEMMA ClampInt == ASSUME NEW q \in Asked PROVE Clamp(q.limit) \in Int
<1>1. q.limit \in Nat
  BY AskedAssumption DEF Queries
<1> QED
  BY <1>1, LimitAssumption DEF Clamp

LEMMA AnswerParts ==
    ASSUME IInv, answer # NoAnswer
    PROVE  /\ answer.query \in Asked
           /\ \E fetched \in SUBSET Candidates(answer.query) :
                /\ First(fetched, Candidates(answer.query), Fetched(answer.query), answer.order)
                /\ First(answer.items, {i \in fetched : Passes(i, answer.query)},
                         Clamp(answer.query.limit), answer.order)
           /\ answer.query.terms = {} => answer.order = NewestFirst
<1>1. answer \in [query : Asked, items : SUBSET Ids, order : SUBSET (Ids \X Ids)]
  BY DEF IInv, TypeOK, Answers
<1> QED
  BY <1>1 DEF IInv, AnswerHolds

(* An answer short of its limit is complete, whatever the filters drop: an *)
(* unfiltered fetch takes as many rows as the limit asks, a filtered one   *)
(* takes them all, up to the cap.                                          *)
THEOREM ShortAnswersAreComplete == RSpec => []ShortMeansAll
<1>1. IInv => ShortMeansAll
  <2> SUFFICES ASSUME IInv, answer # NoAnswer, InDaemonForm(answer.query),
                      Cardinality(answer.items) < Clamp(answer.query.limit),
                      Cardinality(Candidates(answer.query)) <= FetchCap
               PROVE  answer.items = Wanted(answer.query)
    BY DEF ShortMeansAll, InFull
  <2> DEFINE q == answer.query
             items == answer.items
             order == answer.order
             Limit == Clamp(q.limit)
  <2>1. q \in Asked
    BY AnswerParts
  <2>2. PICK fetched \in SUBSET Candidates(q) :
          /\ First(fetched, Candidates(q), Fetched(q), order)
          /\ First(items, {i \in fetched : Passes(i, q)}, Limit, order)
    BY AnswerParts
  <2>3. Limit \in Int
    BY <2>1, ClampInt
  <2>4. items = {i \in fetched : Passes(i, q)}
    BY <2>2, <2>3, LimitBounds
  <2>5. fetched = Candidates(q)
    <3>1. CASE Filtered(q)
      BY <2>2, <3>1 DEF Fetched, First
    <3>2. CASE ~Filtered(q)
      <4>1. items = fetched
        BY <2>4, <3>2 DEF Filtered, Passes
      <4>2. First(fetched, Candidates(q), Limit, order)
        BY <2>2, <3>2 DEF Fetched
      <4> QED
        BY <2>3, <4>1, <4>2, LimitBounds
    <3> QED
      BY <3>1, <3>2
  <2>6. Wanted(q) = {i \in Candidates(q) : Passes(i, q)}
    BY <2>1, FilterIsMeant
  <2> QED
    BY <2>4, <2>5, <2>6
<1> QED
  BY <1>1, Invariant, PTL

(* Cutting, filtering and cutting again leaves out nothing that comes      *)
(* before something that is kept.                                          *)
THEOREM NothingBetterIsLeftOut == RSpec => []NothingBetterLeftOut
<1>1. IInv => NothingBetterLeftOut
  <2> SUFFICES ASSUME IInv, answer # NoAnswer, InDaemonForm(answer.query)
               PROVE  /\ answer.items \subseteq Wanted(answer.query)
                      /\ Cardinality(answer.items) <= Clamp(answer.query.limit)
                      /\ \A i \in answer.items, j \in Wanted(answer.query) :
                           (IF answer.query.terms = {} THEN seen[j] > seen[i]
                            ELSE <<j, i>> \in answer.order)
                             => j \in answer.items
    BY DEF NothingBetterLeftOut
  <2> DEFINE q == answer.query
             items == answer.items
             order == answer.order
  <2>1. q \in Asked
    BY AnswerParts
  <2>2. PICK fetched \in SUBSET Candidates(q) :
          /\ First(fetched, Candidates(q), Fetched(q), order)
          /\ First(items, {i \in fetched : Passes(i, q)}, Clamp(q.limit), order)
    BY AnswerParts
  <2>3. Wanted(q) = {i \in Candidates(q) : Passes(i, q)}
    BY <2>1, FilterIsMeant
  <2>4. items \subseteq Wanted(q)
    BY <2>2, <2>3 DEF First
  <2>5. Cardinality(items) <= Clamp(q.limit)
    BY <2>1, <2>2, ClampInt, LimitBounds
  <2>6. ASSUME NEW i \in items, NEW j \in Wanted(q),
               IF q.terms = {} THEN seen[j] > seen[i] ELSE <<j, i>> \in order
        PROVE  j \in items
    <3>1. i \in fetched /\ i \in Candidates(q) /\ j \in Candidates(q) /\ Passes(j, q)
      BY <2>2, <2>3, <2>4 DEF First
    <3>2. <<j, i>> \in order
      <4>1. CASE q.terms = {}
        <5>1. order = NewestFirst
          BY <4>1, AnswerParts
        <5>2. i \in Stored /\ j \in Stored
          BY <3>1 DEF Candidates
        <5> QED
          BY <2>6, <4>1, <5>1, <5>2 DEF NewestFirst, Newer
      <4>2. CASE q.terms # {}
        BY <2>6, <4>2
      <4> QED
        BY <4>1, <4>2
    <3>3. j \in fetched
      BY <2>2, <3>1, <3>2 DEF First
    <3> QED
      BY <2>2, <3>1, <3>2, <3>3 DEF First
  <2> QED
    BY <2>4, <2>5, <2>6
<1> QED
  BY <1>1, Invariant, PTL

(* Recent is the last captures, unless the wall clock was set back.        *)
THEOREM RecentIsLastCaptured == RSpec => []RecentIsNewest
<1>1. IInv => RecentIsNewest
  <2> SUFFICES ASSUME IInv, answer # NoAnswer, ~setBack,
                      answer.query.terms = {}, ~Filtered(answer.query)
               PROVE  First(answer.items, Stored, Clamp(answer.query.limit), after)
    BY DEF RecentIsNewest
  <2> DEFINE q == answer.query
             items == answer.items
             Limit == Clamp(q.limit)
  <2>1. q \in Asked /\ answer.order = NewestFirst
    BY AnswerParts
  <2>2. PICK fetched \in SUBSET Candidates(q) :
          /\ First(fetched, Candidates(q), Fetched(q), NewestFirst)
          /\ First(items, {i \in fetched : Passes(i, q)}, Limit, NewestFirst)
    BY <2>1, AnswerParts
  <2>3. Candidates(q) = Stored
    BY DEF Candidates
  <2>4. First(fetched, Stored, Limit, NewestFirst)
    BY <2>2, <2>3 DEF Fetched
  <2>5. {i \in fetched : Passes(i, q)} = fetched
    BY DEF Passes, Filtered
  <2>6. Cardinality(fetched) <= Limit
    BY <2>1, <2>4, ClampInt, LimitBounds
  <2>7. items = fetched
    BY <2>2, <2>5, <2>6 DEF First
  <2>8. after = NewestFirst
    BY DEF IInv, OrderKept
  <2> QED
    BY <2>4, <2>7, <2>8
<1> QED
  BY <1>1, Invariant, PTL

----------------------------------------------------------------------------
(* Eviction. *)

(* What is gone after a step of evict, and what was kept. *)
LEMMA Evicted ==
    ASSUME IInv, NEW cutoff \in Times \cup {NoFilter}, NEW max \in Limits \cup {NoFilter},
           Evict(cutoff, max)
    PROVE  \E kept \in SUBSET (Stored \ (favorite \cup AgedOut(cutoff))) :
             /\ \/ kept = Stored \ (favorite \cup AgedOut(cutoff))
                \/ Kept(kept, Stored \ (favorite \cup AgedOut(cutoff)), max)
             /\ Stored' = (favorite \cap Stored) \cup kept
<1> DEFINE aged == AgedOut(cutoff)
           others == Stored \ (favorite \cup aged)
<1>1. PICK kept \in SUBSET others :
        /\ kept = others \/ Kept(kept, others, max)
        /\ content' = [i \in Ids |-> IF i \in aged \cup (others \ kept) THEN NoClip ELSE content[i]]
  BY DEF Evict
<1>2. Stored' = Stored \ (aged \cup (others \ kept))
  BY <1>1 DEF Stored, IInv, TypeOK
<1>3. aged \cap favorite = {}
  BY DEF AgedOut
<1>4. Stored' = (favorite \cap Stored) \cup kept
  BY <1>2, <1>3
<1> WITNESS kept \in SUBSET (Stored \ (favorite \cup AgedOut(cutoff)))
<1> QED
  BY <1>1, <1>4

(* Favourites are rows, and only a deletion ends them. *)
LEMMA FavoriteStep ==
    ASSUME IInv, RTypeOK, [RNext]_rvars
    PROVE  /\ RTypeOK'
           /\ \A i \in favorite : i \in Stored' \/ Delete(i) \/ Clear
<1> USE DEF RTypeOK
<1>1. ASSUME Stored \subseteq Stored', UNCHANGED favorite
      PROVE  favorite' \subseteq Stored' /\ favorite \subseteq Stored'
  BY <1>1
<1>2. ASSUME UNCHANGED content PROVE Stored' = Stored
  BY <1>2 DEF Stored
<1>3. CASE UNCHANGED rvars
  BY <1>1, <1>2, <1>3 DEF rvars, vars, rows
<1>4. CASE Read
  BY <1>1, <1>2, <1>4 DEF Read, rows
<1>5. ASSUME NEW c \in Contents, NEW t \in Times, Capture(c, t) PROVE Stored \subseteq Stored'
  <2>1. CASE UNCHANGED content
    BY <1>2, <2>1
  <2>2. ASSUME NEW i \in Ids, content' = [content EXCEPT ![i] = c]
        PROVE  Stored \subseteq Stored'
    BY <2>2, ContentAssumption DEF Stored, IInv, TypeOK
  <2> QED
    BY <1>5, <2>1, <2>2 DEF Capture
<1>6. ASSUME NEW i \in Ids, Delete(i), favorite' = favorite \ {i}
      PROVE  favorite' \subseteq Stored' /\ \A j \in favorite : j \in Stored' \/ j = i
  <2>1. Stored' = Stored \ {i}
    BY <1>6 DEF Delete, Stored, IInv, TypeOK
  <2> QED
    BY <1>6, <2>1
<1>7. ASSUME NEW i \in Ids, NEW is \in BOOLEAN, SetFavorite(i, is)
      PROVE  favorite' \subseteq Stored' /\ favorite \subseteq Stored'
  BY <1>2, <1>7 DEF SetFavorite, rows
<1>8. ASSUME NEW cutoff \in Times \cup {NoFilter}, NEW max \in Limits \cup {NoFilter},
             Evict(cutoff, max)
      PROVE  favorite' \subseteq Stored' /\ favorite \subseteq Stored'
  <2>1. UNCHANGED favorite
    BY <1>8 DEF Evict
  <2> QED
    BY <1>8, <2>1, Evicted
<1>9. CASE Change
  BY <1>1, <1>5, <1>6, <1>7, <1>8, <1>9 DEF Change
<1>10. ASSUME NEW q \in Asked, Query(q), UNCHANGED favorite
       PROVE  favorite' \subseteq Stored' /\ favorite \subseteq Stored'
  BY <1>1, <1>2, <1>10 DEF Query, rows
<1> QED
  BY <1>3, <1>4, <1>9, <1>10, <1>1, <1>2 DEF RNext

(* Favourites survive every eviction, whatever its bounds. *)
THEOREM FavoritesSurvive == RSpec => FavoritesStay
<1>1. Init /\ favorite = {} => RTypeOK
  BY DEF RTypeOK
<1>2. IInv /\ RTypeOK /\ [RNext]_rvars => RTypeOK'
  BY FavoriteStep
<1>3. IInv /\ RTypeOK /\ [RNext]_rvars
        => [\A i \in favorite : i \in Stored' \/ Delete(i) \/ Clear]_rvars
  BY FavoriteStep
<1> QED
  BY <1>1, <1>2, <1>3, Invariant, PTL DEF RSpec, RInit, FavoritesStay

(* An eviction removes only clips seen before every clip it leaves, other  *)
(* than favourites, wherever it is cut off.                                *)
THEOREM EvictionTakesOldest == RSpec => OldestGoFirst
<1> DEFINE Older(S) == \A i \in Stored \ S :
             Delete(i) \/ Clear \/ \A j \in S \ favorite : Newer(j, i)
<1>1. ASSUME IInv, [RNext]_rvars PROVE Older(Stored')
  <2>1. ASSUME UNCHANGED content PROVE Older(Stored')
    BY <2>1 DEF Stored
  <2>2. ASSUME NEW c \in Contents, NEW t \in Times, Capture(c, t) PROVE Older(Stored')
    <3>1. ASSUME NEW i \in Ids, content' = [content EXCEPT ![i] = c]
          PROVE  Stored \subseteq Stored'
      BY <1>1, <3>1, ContentAssumption DEF Stored, IInv, TypeOK
    <3> QED
      BY <2>1, <2>2, <3>1 DEF Capture
  <2>3. ASSUME NEW i \in Ids, Delete(i) PROVE Older(Stored')
    <3>1. Stored \ Stored' \subseteq {i}
      BY <1>1, <2>3 DEF Delete, Stored, IInv, TypeOK
    <3> QED
      BY <2>3, <3>1
  <2>4. ASSUME NEW cutoff \in Times \cup {NoFilter}, NEW max \in Limits \cup {NoFilter},
               Evict(cutoff, max)
        PROVE  Older(Stored')
    <3> DEFINE others == Stored \ (favorite \cup AgedOut(cutoff))
    <3>1. PICK kept \in SUBSET others :
            /\ kept = others \/ Kept(kept, others, max)
            /\ Stored' = (favorite \cap Stored) \cup kept
      BY <1>1, <2>4, Evicted
    <3>2. ASSUME NEW i \in Stored \ Stored', NEW j \in Stored' \ favorite
          PROVE  Newer(j, i)
      <4>1. /\ j \in kept /\ j \in Stored /\ j \notin AgedOut(cutoff)
            /\ i \in Stored /\ i \notin favorite /\ i \notin kept /\ i # j
        BY <3>1, <3>2
      <4>2. seen[i] \in Int /\ seen[j] \in Int /\ i \in Int /\ j \in Int
        BY <1>1, <4>1 DEF IInv, TypeOK, Stored, Ids, Times
      <4>3. CASE i \in AgedOut(cutoff)
        <5>1. cutoff # NoFilter /\ seen[i] < cutoff /\ ~(seen[j] < cutoff) /\ cutoff \in Int
          BY <4>1, <4>3 DEF AgedOut, Times
        <5> QED
          BY <4>2, <5>1 DEF Newer
      <4>4. CASE i \notin AgedOut(cutoff)
        <5>1. i \in others /\ Kept(kept, others, max)
          BY <3>1, <4>1, <4>4
        <5>2. <<i, j>> \notin NewestFirst
          BY <4>1, <5>1 DEF Kept, First
        <5>3. ~Newer(i, j)
          BY <4>1, <5>2 DEF NewestFirst
        <5> QED
          BY <4>1, <4>2, <5>3 DEF Newer
      <4> QED
        BY <4>3, <4>4
    <3> QED
      BY <3>2
  <2>5. CASE UNCHANGED rvars
    BY <2>1, <2>5 DEF rvars, vars, rows
  <2>6. CASE Read
    BY <2>1, <2>6 DEF Read, rows
  <2>7. ASSUME NEW i \in Ids, NEW is \in BOOLEAN, SetFavorite(i, is) PROVE Older(Stored')
    BY <2>1, <2>7 DEF SetFavorite, rows
  <2>8. CASE Clear
    BY <2>8
  <2>9. ASSUME NEW q \in Asked, Query(q) PROVE Older(Stored')
    BY <2>1, <2>9 DEF Query, rows
  <2>10. CASE Change
    BY <2>2, <2>3, <2>4, <2>7, <2>8, <2>10 DEF Change
  <2> QED
    BY <1>1, <2>5, <2>6, <2>9, <2>10 DEF RNext
<1>2. IInv /\ [RNext]_rvars
        => [\A i \in Stored \ Stored' :
              Delete(i) \/ Clear \/ \A j \in Stored' \ favorite : Newer(j, i)]_rvars
  BY <1>1
<1> QED
  BY <1>2, Invariant, PTL DEF RSpec, OldestGoFirst

============================================================================
