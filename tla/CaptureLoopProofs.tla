------------------------- MODULE CaptureLoopProofs -------------------------
(***************************************************************************)
(* Proofs about CaptureLoop, for any texts, any secrets among them and any *)
(* number of clients.                                                      *)
(***************************************************************************)
EXTENDS CaptureLoop, TLAPS

LEMMA TypeInit == Init => TypeOK
<1> SUFFICES ASSUME Init PROVE TypeOK
  OBVIOUS
<1>1. paused \in BOOLEAN /\ cfgPaused \in BOOLEAN /\ rowPaused \in BOOLEAN
  BY FileAssumption, Zenon DEF Init
<1>2. handler \in [Clients -> {"idle", "config", "row"}]
  BY DEF Init
<1>3. wanted \in [Clients -> BOOLEAN]
  BY DEF Init
<1> QED
  BY <1>1, <1>2, <1>3 DEF Init, TypeOK

LEMMA TypeNext == TypeOK /\ [Next]_vars => TypeOK'
<1> SUFFICES ASSUME TypeOK, [Next]_vars PROVE TypeOK'
  OBVIOUS
<1> USE TextAssumption, FileAssumption
    DEF TypeOK, tables, flags, thread, auxiliary
<1>1. ASSUME NEW text \in Texts \cup {NoText}, Copy(text) PROVE TypeOK'
  BY <1>1 DEF Copy
<1>2. CASE Poll \/ ReadFails \/ Stop
  BY <1>2 DEF Poll, ReadFails, Stop
<1>3. CASE Read
  BY <1>3 DEF Read, TakeUp
<1>4. CASE Store \/ StoreFails
  <2>1. late' \in Nat
    BY <1>4 DEF Store, Stored, StoreFails, CountLate
  <2>2. owed' \in BOOLEAN
    BY <1>4, Zenon DEF Store, Stored, StoreFails
  <2>3. paused' = paused /\ cfgPaused' = cfgPaused /\ rowPaused' = rowPaused
    BY <1>4, Zenon DEF Store, Stored, StoreFails
  <2>4. shutdown' = shutdown
    BY <1>4, Zenon DEF Store, Stored, StoreFails
  <2>5. history' \subseteq Texts \ Secrets
    BY <1>4 DEF Store, Stored, StoreFails
  <2>6. /\ cap' = "top" /\ seen' = seen /\ lastHash' \in {lastHash, seen}
        /\ UNCHANGED <<clipboard, handler, wanted, gone, copied>>
    BY <1>4 DEF Store, Stored, StoreFails
  <2> QED
    BY <2>1, <2>2, <2>3, <2>4, <2>5, <2>6
<1>5. ASSUME NEW u \in Clients, NEW value \in BOOLEAN, SetFlag(u, value)
      PROVE  TypeOK'
  BY <1>5 DEF SetFlag
<1>6. ASSUME NEW u \in Clients, SetConfig(u) \/ SetRow(u) PROVE TypeOK'
  BY <1>6 DEF SetConfig, SetRow
<1>7. ASSUME NEW removed \in SUBSET Texts, Remove(removed) PROVE TypeOK'
  BY <1>7 DEF Remove
<1>8. CASE Clear \/ \E text \in Texts : Delete(text)
  BY <1>7, <1>8 DEF Clear, Delete
<1>9. CASE Signal
  BY <1>9 DEF Signal
<1>10. CASE Crash
  <2>1. history' \subseteq Texts \ Secrets
    BY <1>10 DEF Crash
  <2> QED
    BY <1>10, <2>1 DEF Crash
<1>11. CASE Restart
  BY <1>11 DEF Restart
<1>12. CASE UNCHANGED vars
  BY <1>12 DEF vars
<1> QED
  BY <1>1, <1>2, <1>3, <1>4, <1>5, <1>6, <1>8, <1>9, <1>10, <1>11, <1>12
     DEF Next, CaptureStep, HandlerStep

(* Types, and that no secret is ever in the history or about to be.        *)
THEOREM TypeCorrect == Spec => []TypeOK
BY TypeInit, TypeNext, PTL DEF Spec

----------------------------------------------------------------------------
(* At most one store after the pause flag is raised. *)

(* While the flag is up, either nothing was stored yet or the poll that    *)
(* was under way when it was raised is over; no other poll passes it.      *)
PauseInv ==
    /\ late \in {0, 1}
    /\ paused /\ late = 1 => cap \notin {"read", "store"}

LEMMA PauseNext == TypeOK /\ PauseInv /\ [Next]_vars => PauseInv'
<1> SUFFICES ASSUME TypeOK, PauseInv, [Next]_vars PROVE PauseInv'
  OBVIOUS
<1> USE DEF PauseInv, tables, flags, thread, auxiliary
<1>1. CASE CaptureStep
  BY <1>1, FileAssumption
     DEF CaptureStep, Poll, Read, TakeUp, ReadFails, Store, Stored, StoreFails,
         CountLate, Stop, TypeOK
<1>2. CASE HandlerStep
  BY <1>2 DEF HandlerStep, SetFlag, SetConfig, SetRow, Delete, Clear, Remove, TypeOK
<1>3. CASE \E text \in Texts \cup {NoText} : Copy(text)
  BY <1>3 DEF Copy
<1>4. CASE Signal \/ Crash \/ Restart
  BY <1>4 DEF Signal, Crash, Restart
<1>5. CASE UNCHANGED vars
  BY <1>5 DEF vars
<1> QED
  BY <1>1, <1>2, <1>3, <1>4, <1>5 DEF Next

(* Whatever clients set and unset the flag, and whenever they do, at most  *)
(* one text is stored between a raising of the flag and its lowering.      *)
THEOREM PauseStopsCapture == Spec => []AtMostOneAfterPause
<1>1. Init => PauseInv
  BY DEF Init, PauseInv
<1>2. PauseInv => AtMostOneAfterPause
  BY DEF PauseInv, AtMostOneAfterPause
<1> QED
  BY <1>1, <1>2, TypeInit, TypeNext, PauseNext, PTL DEF Spec

----------------------------------------------------------------------------
(* Deleted clips stay deleted. *)

(* What is gone is settled.  When nothing is owed to the text on the       *)
(* clipboard, last_hash names it, so that no poll will take it up; and a   *)
(* poll only stores while something is owed.                               *)
GoneInv ==
    /\ NoResurrection
    /\ \A t \in gone : Settled(t)
    /\ ~owed => clipboard \in {NoText, lastHash}
    /\ cap = "store" => owed

LEMMA GoneNext == TypeOK /\ GoneInv /\ [Next]_vars => GoneInv'
<1> SUFFICES ASSUME TypeOK, GoneInv, [Next]_vars PROVE GoneInv'
  OBVIOUS
<1> USE DEF GoneInv, NoResurrection, Settled, tables, flags, thread, auxiliary
<1>1. ASSUME NEW text \in Texts \cup {NoText}, Copy(text) PROVE GoneInv'
  BY <1>1 DEF Copy
<1>2. CASE Poll \/ ReadFails \/ Stop
  BY <1>2 DEF Poll, ReadFails, Stop
<1>3. CASE Read
  BY <1>3, TextAssumption DEF Read, TakeUp, TypeOK
<1>4. CASE Store \/ StoreFails
  BY <1>4 DEF Store, Stored, StoreFails
<1>5. CASE \/ \E u \in Clients, value \in BOOLEAN : SetFlag(u, value)
           \/ \E u \in Clients : SetConfig(u) \/ SetRow(u)
  BY <1>5 DEF SetFlag, SetConfig, SetRow
<1>6. ASSUME NEW removed \in SUBSET Texts, Remove(removed) PROVE GoneInv'
  BY <1>6 DEF Remove
<1>7. CASE Clear \/ \E text \in Texts : Delete(text)
  BY <1>6, <1>7 DEF Clear, Delete, TypeOK
<1>8. CASE Signal
  BY <1>8 DEF Signal
<1>9. CASE Crash
  BY <1>9 DEF Crash
<1>10. CASE Restart
  BY <1>10 DEF Restart
<1>11. CASE UNCHANGED vars
  BY <1>11 DEF vars
<1> QED
  BY <1>1, <1>2, <1>3, <1>4, <1>5, <1>7, <1>8, <1>9, <1>10, <1>11
     DEF Next, CaptureStep, HandlerStep

(* A deleted or cleared clip never comes back by itself, in any            *)
(* interleaving of polls, copies, deletions, failures and restarts.        *)
THEOREM DeletedStaysDeleted == Spec => []NoResurrection
<1>1. Init => GoneInv
  BY DEF Init, GoneInv, NoResurrection
<1>2. GoneInv => NoResurrection
  BY DEF GoneInv
<1> QED
  BY <1>1, <1>2, TypeInit, TypeNext, GoneNext, PTL DEF Spec

----------------------------------------------------------------------------
(* No text is given up. *)

(* Of the steps of the daemon only a store moves last_hash to a text that  *)
(* is not a secret, and then to the text it stored; reading the clipboard  *)
(* moves it to a secret, and a new daemon has none.                        *)
LEMMA LastHashMoves ==
    ASSUME TypeOK, [Next]_vars, NEW t \in Texts \ Secrets,
           lastHash # t, lastHash' = t
    PROVE  t \in history'
<1>1. CASE Read
  BY <1>1 DEF Read, TakeUp
<1>2. CASE Store
  BY <1>2 DEF Store, Stored
<1>3. CASE Restart
  BY <1>3, TextAssumption DEF Restart
<1>4. CASE UNCHANGED lastHash
  BY <1>4
<1> QED
  BY <1>1, <1>2, <1>3, <1>4
     DEF Next, CaptureStep, HandlerStep, Copy, Poll, ReadFails, StoreFails, Stop,
         SetFlag, SetConfig, SetRow, Delete, Clear, Remove, Signal, Crash, vars, thread

(* A text is given up only when it is in the history, in the same step,    *)
(* whatever failed before and whatever the clients do meanwhile: a poll    *)
(* that did not store it leaves it to the next.                            *)
THEOREM NothingGivenUp == Spec => SkippedOnlyWhenStored
<1>1. TypeOK /\ [Next]_vars =>
        [\A t \in Texts \ Secrets :
           (lastHash # t /\ lastHash' = t) => t \in history']_vars
  BY LastHashMoves
<1> QED
  BY <1>1, TypeInit, TypeNext, PTL DEF Spec, SkippedOnlyWhenStored

============================================================================
