------------------------ MODULE InstanceLifeProofs ------------------------
(***************************************************************************)
(* Proofs about InstanceLife, for any number of processes and inodes.      *)
(***************************************************************************)
EXTENDS InstanceLife, TLAPS

LEMMA TypeInit == Init => TypeOK
BY DEF Init, TypeOK, Phases

LEMMA TypeNext == TypeOK /\ [Next]_vars => TypeOK'
<1> SUFFICES ASSUME TypeOK, [Next]_vars PROVE TypeOK'
  OBVIOUS
<1> USE NoneAssumption DEF TypeOK, Phases, Go
<1>1. ASSUME NEW p \in Procs, Start(p) PROVE TypeOK'
  <2>1. CASE Open(p)
    BY <2>1 DEF Open
  <2>2. CASE TryLock(p) \/ Refused(p)
    BY <2>2 DEF TryLock, Refused
  <2>3. CASE SpawnCapture(p)
    BY <2>3 DEF SpawnCapture
  <2>4. CASE RemoveStaleSocket(p) \/ Bind(p)
    BY <2>4 DEF RemoveStaleSocket, Bind
  <2> QED
    BY <1>1, <2>1, <2>2, <2>3, <2>4 DEF Start
<1>2. ASSUME NEW p \in Procs, Connect(p) \/ Disconnect(p) PROVE TypeOK'
  BY <1>2 DEF Connect, Disconnect
<1>3. ASSUME NEW p \in Procs, Gone(p) PROVE TypeOK'
  BY <1>3 DEF Gone
<1>4. ASSUME NEW p \in Procs, End(p) PROVE TypeOK'
  <2>1. CASE StartFails(p) \/ Shutdown(p)
    BY <2>1 DEF StartFails, Shutdown
  <2>2. CASE JoinCapture(p)
    BY <2>2 DEF JoinCapture
  <2>3. CASE Unlink(p) \/ Close(p)
    BY <2>3 DEF Unlink, Close
  <2>4. CASE Exit(p)
    BY <1>3, <2>4 DEF Exit
  <2>5. CASE BindRefused(p) \/ BindFails(p)
    BY <2>5 DEF BindRefused, BindFails
  <2> QED
    BY <1>4, <2>1, <2>2, <2>3, <2>4, <2>5 DEF End
<1>5. ASSUME NEW p \in Procs, Crash(p) PROVE TypeOK'
  BY <1>3, <1>5 DEF Crash
<1>6. CASE UNCHANGED vars
  BY <1>6 DEF vars
<1> QED
  BY <1>1, <1>2, <1>4, <1>5, <1>6 DEF Next

(* Types, and that the lock file is open exactly from open() to close().   *)
THEOREM TypeCorrect == Spec => []TypeOK
BY TypeInit, TypeNext, PTL DEF Spec

----------------------------------------------------------------------------
(* The lock is on an inode, and is exclusive there. *)

HasLock(p) == phase[p] \notin {"off", "opened", "closed"}

ExclusiveInv ==
    \A p, q \in Procs : HasLock(p) /\ HasLock(q) /\ fd[p] = fd[q] => p = q

(* A step leaves a process that has the lock with the file it had; the one *)
(* that gets the lock is TryLock, which found nobody else on the inode.    *)
LEMMA LockKept ==
    ASSUME TypeOK, [Next]_vars, NEW p \in Procs, HasLock(p)'
    PROVE  /\ fd'[p] = fd[p]
           /\ HasLock(p) \/ TryLock(p)
<1> USE DEF TypeOK, HasLock, Go, Phases
<1>1. ASSUME NEW q \in Procs, Start(q)
      PROVE  fd'[p] = fd[p] /\ (HasLock(p) \/ TryLock(p))
  <2>1. CASE Open(q) \/ Refused(q)
    BY <2>1 DEF Open, Refused
  <2>2. CASE TryLock(q)
    BY <2>2 DEF TryLock
  <2>3. CASE SpawnCapture(q) \/ RemoveStaleSocket(q) \/ Bind(q)
    BY <2>3 DEF SpawnCapture, RemoveStaleSocket, Bind
  <2> QED
    BY <1>1, <2>1, <2>2, <2>3 DEF Start
<1>2. ASSUME NEW q \in Procs, Connect(q) \/ Disconnect(q)
      PROVE  fd'[p] = fd[p] /\ HasLock(p)
  BY <1>2 DEF Connect, Disconnect
<1>3. ASSUME NEW q \in Procs, Gone(q) PROVE fd'[p] = fd[p] /\ HasLock(p)
  BY <1>3 DEF Gone
<1>4. ASSUME NEW q \in Procs, End(q) PROVE fd'[p] = fd[p] /\ HasLock(p)
  <2>1. CASE StartFails(q) \/ Shutdown(q) \/ JoinCapture(q)
    BY <2>1 DEF StartFails, Shutdown, JoinCapture
  <2>2. CASE Unlink(q) \/ Close(q)
    BY <2>2 DEF Unlink, Close
  <2>3. CASE BindRefused(q) \/ BindFails(q)
    BY <2>3 DEF BindRefused, BindFails
  <2> QED
    BY <1>3, <1>4, <2>1, <2>2, <2>3 DEF End, Exit
<1>5. CASE UNCHANGED vars
  BY <1>5 DEF vars
<1> QED
  BY <1>1, <1>2, <1>3, <1>4, <1>5 DEF Next, Crash

LEMMA ExclusiveNext == TypeOK /\ ExclusiveInv /\ [Next]_vars => ExclusiveInv'
<1> SUFFICES ASSUME TypeOK, ExclusiveInv, [Next]_vars,
                    NEW p \in Procs, NEW q \in Procs,
                    HasLock(p)', HasLock(q)', fd'[p] = fd'[q], p # q
             PROVE  FALSE
  BY DEF ExclusiveInv
<1>1. fd'[p] = fd[p] /\ (HasLock(p) \/ TryLock(p))
  BY LockKept
<1>2. fd'[q] = fd[q] /\ (HasLock(q) \/ TryLock(q))
  BY LockKept
<1>3. CASE TryLock(p)
  <2>1. HasLock(q)
    BY <1>3, HasLock(q)' DEF TryLock, Go, HasLock, TypeOK
  <2> QED
    BY <1>1, <1>2, <1>3, <2>1 DEF TryLock, Locked, HasLock
<1>4. CASE TryLock(q)
  <2>1. HasLock(p)
    BY <1>4, HasLock(p)' DEF TryLock, Go, HasLock, TypeOK
  <2> QED
    BY <1>1, <1>2, <1>4, <2>1 DEF TryLock, Locked, HasLock
<1> QED
  BY <1>1, <1>2, <1>3, <1>4 DEF ExclusiveInv

(* Two daemons never hold the lock on one file, however their starts,      *)
(* shutdowns and crashes overlap.                                          *)
THEOREM FileLockExclusive == Spec => []OneDaemonPerFile
<1>1. Init => ExclusiveInv
  BY DEF Init, ExclusiveInv, HasLock
<1>2. ExclusiveInv => OneDaemonPerFile
  BY DEF ExclusiveInv, OneDaemonPerFile, HoldsInstance, HasLock
<1> QED
  BY <1>1, <1>2, TypeInit, TypeNext, ExclusiveNext, PTL DEF Spec

----------------------------------------------------------------------------
(* While daemons only end by dying, nobody unlinks the lock file, so every *)
(* process has the same file open: one file is one daemon.  It is alone    *)
(* between removing the stale socket and binding its own.                  *)

DyingInv ==
    /\ \A p \in Procs : phase[p] \in {"off", "opened", "locked", "starting",
                                      "binding", "serving"}
    /\ \A p \in Procs : phase[p] # "off" => fd[p] = lockPath
    /\ \A p \in Procs : phase[p] = "binding" => sockPath = None
    /\ \A p \in Procs : phase[p] = "serving" => sockPath = p
    /\ \A p \in Procs : MayWrite(p) => phase[p] \in {"starting", "binding", "serving"}

LEMMA OneLockHolder ==
    ASSUME TypeOK, ExclusiveInv, DyingInv,
           NEW p \in Procs, NEW q \in Procs, HasLock(p), HasLock(q)
    PROVE  p = q
BY DEF DyingInv, ExclusiveInv, HasLock

(* An end other than by dying is remembered. *)
LEMMA EndedStays == ASSUME TypeOK, [Next]_vars, ended PROVE ended'
BY DEF TypeOK, Next, Start, End, vars, Open, TryLock, Refused, SpawnCapture,
       RemoveStaleSocket, Bind, Connect, Disconnect, StartFails, BindRefused,
       BindFails, Shutdown, JoinCapture, Unlink, Close, Exit, Crash, Gone

LEMMA DyingNext ==
    TypeOK /\ ExclusiveInv /\ (~ended => DyingInv) /\ [Next]_vars
        => (~ended' => DyingInv')
<1> SUFFICES ASSUME TypeOK, ExclusiveInv, DyingInv, [Next]_vars, ~ended'
             PROVE  DyingInv'
  BY EndedStays
<1> USE NoneAssumption DEF TypeOK, Go
<1>1. ASSUME NEW p \in Procs, Start(p) PROVE DyingInv'
  <2>1. CASE Open(p)
    BY <2>1 DEF Open, DyingInv, MayWrite
  <2>2. CASE TryLock(p) \/ Refused(p)
    BY <2>2 DEF TryLock, Refused, DyingInv, MayWrite
  <2>3. CASE SpawnCapture(p)
    BY <2>3 DEF SpawnCapture, DyingInv, MayWrite
  <2>4. CASE RemoveStaleSocket(p)
    <3>1. \A q \in Procs : phase[q] = "serving" => q = p
      BY <2>4, OneLockHolder DEF RemoveStaleSocket, HasLock
    <3> QED
      BY <2>4, <3>1 DEF RemoveStaleSocket, DyingInv, MayWrite
  <2>5. CASE Bind(p)
    <3>1. \A q \in Procs : phase[q] \in {"binding", "serving"} => q = p
      BY <2>5, OneLockHolder DEF Bind, HasLock
    <3> QED
      BY <2>5, <3>1 DEF Bind, DyingInv, MayWrite
  <2> QED
    BY <1>1, <2>1, <2>2, <2>3, <2>4, <2>5 DEF Start
<1>2. ASSUME NEW p \in Procs, Connect(p) \/ Disconnect(p) PROVE DyingInv'
  BY <1>2 DEF Connect, Disconnect, DyingInv, MayWrite
<1>3. ASSUME NEW p \in Procs, Gone(p) PROVE DyingInv'
  BY <1>3 DEF Gone, DyingInv, MayWrite
<1>4. ASSUME NEW p \in Procs, End(p) PROVE DyingInv'
  <2>1. \/ JoinCapture(p) \/ Unlink(p) \/ Close(p) \/ Exit(p)
    BY <1>4 DEF End, StartFails, BindRefused, BindFails, Shutdown
  <2> QED
    BY <2>1 DEF JoinCapture, Unlink, Close, Exit, DyingInv
<1>5. CASE UNCHANGED vars
  BY <1>5 DEF vars, DyingInv, MayWrite
<1> QED
  BY <1>1, <1>2, <1>3, <1>4, <1>5 DEF Next, Crash

LEMMA DyingInvariant == Spec => [](TypeOK /\ ExclusiveInv /\ (~ended => DyingInv))
<1>1. Init => ExclusiveInv /\ DyingInv
  BY DEF Init, ExclusiveInv, DyingInv, HasLock, MayWrite
<1> QED
  BY <1>1, TypeInit, TypeNext, ExclusiveNext, DyingNext, PTL DEF Spec

(* However many daemons are started and killed, at most one at a time gets *)
(* past acquire(), until one ends by a signal or an error.                 *)
THEOREM OneDaemonAtATime == Spec => []SingleUntilEnd
<1>1. TypeOK /\ ExclusiveInv /\ (~ended => DyingInv) => SingleUntilEnd
  BY OneLockHolder DEF SingleUntilEnd, SingleDaemon, HoldsInstance, HasLock
<1> QED
  BY <1>1, DyingInvariant, PTL

(* Until then only the daemon that holds the lock writes to the database.  *)
THEOREM OneWriter == Spec => []LockCoversWritesUntilEnd
<1>1. (~ended => DyingInv) => LockCoversWritesUntilEnd
  BY DEF DyingInv, LockCoversWritesUntilEnd, LockCoversWrites, HoldsInstance
<1> QED
  BY <1>1, DyingInvariant, PTL

(* Until then the daemon that serves is the one the socket path leads to.  *)
THEOREM DaemonReachable == Spec => []ServingIsReachable
<1>1. (~ended => DyingInv) => ServingIsReachable
  BY DEF DyingInv, ServingIsReachable
<1> QED
  BY <1>1, DyingInvariant, PTL

(* The files a killed daemon leaves behind never keep the next from        *)
(* starting: it is refused only while another daemon holds the lock.       *)
THEOREM LeftoversDoNotBlock == Spec => OnlyTheLivingBlock
<1>1. ASSUME TypeOK, ~ended => DyingInv, ~ended,
             NEW p \in Procs, Refused(p) \/ BindRefused(p)
      PROVE  \E q \in Procs \ {p} : HoldsInstance(q)
  <2>1. ~BindRefused(p)
    BY <1>1 DEF BindRefused, Go, DyingInv
  <2>2. PICK q \in Procs : /\ fd[q] = fd[p]
                           /\ phase[q] \notin {"off", "opened", "closed"}
    BY <1>1, <2>1 DEF Refused, Locked
  <2>3. q # p /\ HoldsInstance(q)
    BY <1>1, <2>1, <2>2 DEF Refused, Go, DyingInv, HoldsInstance
  <2> QED
    BY <2>3
<1>2. TypeOK /\ (~ended => DyingInv) =>
        [~ended => \A p \in Procs :
           (Refused(p) \/ BindRefused(p)) => \E q \in Procs \ {p} : HoldsInstance(q)]_vars
  BY <1>1
<1> QED
  BY <1>2, DyingInvariant, PTL DEF OnlyTheLivingBlock

============================================================================
