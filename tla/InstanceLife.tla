--------------------------- MODULE InstanceLife ---------------------------
(***************************************************************************)
(* The life of a daemon process, from src/lib.rs run(): the single-        *)
(* instance lock (src/lock.rs), the capture thread, the IPC socket         *)
(* (src/server.rs), the connection tasks, the shutdown; and several        *)
(* processes started and ended at any time over the same data directory.   *)
(*                                                                         *)
(* The lock is an flock on an open file, not on a name: the lock path      *)
(* leads to an inode, a process holds the inode it opened, and the kernel  *)
(* lets go of it when the process closes it or dies.  A socket path leads  *)
(* to the process that bound it, alive or not.                             *)
(***************************************************************************)
EXTENDS Naturals, FiniteSets

CONSTANTS
    Procs,      \* daemon processes
    Inodes,     \* inodes the lock path may lead to
    None        \* no inode, no process

ASSUME NoneAssumption == None \notin Procs /\ None \notin Inodes

VARIABLES
    phase,      \* per process: how far run() is
    fd,         \* per process: the inode its lock file is open on
    lockPath,   \* the inode the lock path leads to
    sockPath,   \* the process whose listener the socket path leads to
    capture,    \* per process: is its capture thread running?
    conns,      \* per process: are there connection tasks?
    ended       \* history variable: did a daemon end other than by dying?

vars == <<phase, fd, lockPath, sockPath, capture, conns, ended>>

Phases == {"off", "opened", "locked", "starting", "binding", "serving",
           "joining", "releasing", "unlinked", "closed"}

Init ==
    /\ phase = [p \in Procs |-> "off"]
    /\ fd = [p \in Procs |-> None]
    /\ lockPath = None
    /\ sockPath = None
    /\ capture = [p \in Procs |-> FALSE]
    /\ conns = [p \in Procs |-> FALSE]
    /\ ended = FALSE

(* run() moves on. *)
Go(p, here, there) ==
    phase[p] = here /\ phase' = [phase EXCEPT ![p] = there]

(* The `_instance` value is alive: run() believes it holds the lock. *)
HoldsInstance(p) ==
    phase[p] \in {"locked", "starting", "binding", "serving", "joining", "releasing"}

(* The kernel's view: whoever locked the inode and has it open still. *)
Locked(i) ==
    \E p \in Procs : fd[p] = i /\ phase[p] \notin {"off", "opened", "closed"}

Alive(p) == phase[p] # "off"

(* It may write to the database: the capture thread between spawn and its  *)
(* end, a connection task whenever a request arrives.                      *)
MayWrite(p) == capture[p] \/ conns[p]

----------------------------------------------------------------------------
(* SingleInstance::acquire. *)

OpenFreshFile(p) ==
    /\ Go(p, "off", "opened")
    /\ \E i \in Inodes :
        /\ i # lockPath /\ \A q \in Procs : fd[q] # i
        /\ lockPath' = i
        /\ fd' = [fd EXCEPT ![p] = i]
    /\ UNCHANGED <<sockPath, capture, conns, ended>>

OpenAfterCapture(p) ==
    /\ Go(p, "off", "opened")
    /\ \E i \in Inodes :
        /\ \/ lockPath # None /\ i = lockPath
           \/ lockPath = None /\ \A q \in Procs : fd[q] # i
        /\ lockPath' = i
        /\ fd' = [fd EXCEPT ![p] = i]
    /\ capture' = [capture EXCEPT ![p] = TRUE]
    /\ UNCHANGED <<sockPath, conns, ended>>

(* open(create): the file at the path, or a new one. *)
Open(p) ==
    /\ Go(p, "off", "opened")
    /\ \E i \in Inodes :
        /\ \/ lockPath # None /\ i = lockPath
           \/ lockPath = None /\ \A q \in Procs : fd[q] # i
        /\ lockPath' = i
        /\ fd' = [fd EXCEPT ![p] = i]
    /\ UNCHANGED <<sockPath, capture, conns, ended>>

TryLockShared(p) ==
    /\ Go(p, "opened", "locked")
    /\ UNCHANGED <<fd, lockPath, sockPath, capture, conns, ended>>

(* flock(LOCK_EX | LOCK_NB) *)
TryLock(p) ==
    /\ Go(p, "opened", "locked")
    /\ ~Locked(fd[p])
    /\ UNCHANGED <<fd, lockPath, sockPath, capture, conns, ended>>

(* EWOULDBLOCK: another instance is already running; the process ends. *)
Refused(p) ==
    /\ Go(p, "opened", "off")
    /\ Locked(fd[p])
    /\ fd' = [fd EXCEPT ![p] = None]
    /\ UNCHANGED <<lockPath, sockPath, capture, conns, ended>>

----------------------------------------------------------------------------
(* run(), after the lock. *)

(* The database, the config or the key cannot be opened: run() returns. *)
StartFails(p) ==
    /\ Go(p, "locked", "releasing")
    /\ ended' = TRUE
    /\ UNCHANGED <<fd, lockPath, sockPath, capture, conns>>

SpawnCapture(p) ==
    /\ Go(p, "locked", "starting")
    /\ capture' = [capture EXCEPT ![p] = TRUE]
    /\ UNCHANGED <<fd, lockPath, sockPath, conns, ended>>

KeepSocket(p) ==
    /\ Go(p, "starting", "binding")
    /\ UNCHANGED <<fd, lockPath, sockPath, capture, conns, ended>>

(* Server::bind: remove a leftover socket file, whoever's it is. *)
RemoveStaleSocket(p) ==
    /\ Go(p, "starting", "binding")
    /\ sockPath' = None
    /\ UNCHANGED <<fd, lockPath, capture, conns, ended>>

Bind(p) ==
    /\ Go(p, "binding", "serving")
    /\ sockPath = None
    /\ sockPath' = p
    /\ UNCHANGED <<fd, lockPath, capture, conns, ended>>

(* Binding fails and run() returns while the capture thread runs: because  *)
(* another socket is there (EADDRINUSE) ...                                *)
BindRefused(p) ==
    /\ Go(p, "binding", "releasing")
    /\ sockPath # None
    /\ ended' = TRUE
    /\ UNCHANGED <<fd, lockPath, sockPath, capture, conns>>

(* ... or because the stale file cannot be removed, or the new one cannot  *)
(* be created, or its mode cannot be set.                                  *)
BindFails(p) ==
    /\ \/ Go(p, "starting", "releasing") /\ UNCHANGED sockPath
       \/ Go(p, "binding", "releasing") /\ UNCHANGED sockPath
       \/ Go(p, "binding", "releasing") /\ sockPath = None /\ sockPath' = p
    /\ ended' = TRUE
    /\ UNCHANGED <<fd, lockPath, capture, conns>>

(* A client finds the daemon through the socket path. *)
Connect(p) ==
    /\ phase[p] = "serving" /\ sockPath = p
    /\ conns' = [conns EXCEPT ![p] = TRUE]
    /\ UNCHANGED <<phase, fd, lockPath, sockPath, capture, ended>>

(* The clients hang up. *)
Disconnect(p) ==
    /\ conns[p]
    /\ conns' = [conns EXCEPT ![p] = FALSE]
    /\ UNCHANGED <<phase, fd, lockPath, sockPath, capture, ended>>

----------------------------------------------------------------------------
(* The end. *)

(* SIGINT or SIGTERM: the accept loop breaks and removes the socket file;  *)
(* connection tasks are left running.                                      *)
Shutdown(p) ==
    /\ Go(p, "serving", "joining")
    /\ sockPath' = None
    /\ ended' = TRUE
    /\ UNCHANGED <<fd, lockPath, capture, conns>>

(* capture_handle.join() *)
JoinCapture(p) ==
    /\ Go(p, "joining", "releasing")
    /\ capture' = [capture EXCEPT ![p] = FALSE]
    /\ UNCHANGED <<fd, lockPath, sockPath, conns, ended>>

(* Drop for SingleInstance: the lock file is unlinked by name ... *)
Unlink(p) ==
    /\ Go(p, "releasing", "unlinked")
    /\ lockPath' = None
    /\ UNCHANGED <<fd, sockPath, capture, conns, ended>>

(* ... and then closed, which releases the lock. *)
Close(p) ==
    /\ Go(p, "unlinked", "closed")
    /\ fd' = [fd EXCEPT ![p] = None]
    /\ UNCHANGED <<lockPath, sockPath, capture, conns, ended>>

Gone(p) ==
    /\ phase' = [phase EXCEPT ![p] = "off"]
    /\ fd' = [fd EXCEPT ![p] = None]
    /\ capture' = [capture EXCEPT ![p] = FALSE]
    /\ conns' = [conns EXCEPT ![p] = FALSE]
    /\ UNCHANGED <<lockPath, sockPath, ended>>

(* The runtime, dropped after run() returned, ends the connection tasks. *)
ExitAfterClients(p) == phase[p] = "closed" /\ ~conns[p] /\ Gone(p)

Exit(p) == phase[p] = "closed" /\ Gone(p)

(* The process dies, leaving both files where they are. *)
Crash(p) == Alive(p) /\ Gone(p)

Start(p) == Open(p) \/ TryLock(p) \/ Refused(p) \/ SpawnCapture(p)
              \/ RemoveStaleSocket(p) \/ Bind(p)

End(p) == StartFails(p) \/ BindRefused(p) \/ BindFails(p) \/ Shutdown(p)
            \/ JoinCapture(p) \/ Unlink(p) \/ Close(p) \/ Exit(p)

Next ==
    \E p \in Procs : Start(p) \/ Connect(p) \/ Disconnect(p) \/ End(p) \/ Crash(p)

Spec == Init /\ [][Next]_vars

(* A process that began to end goes on; nothing says that it is ever       *)
(* signalled, that it dies, or that its clients hang up.                   *)
FairSpec ==
    Spec /\ \A p \in Procs :
                WF_vars(JoinCapture(p) \/ Unlink(p) \/ Close(p) \/ Exit(p))

----------------------------------------------------------------------------
(* Properties. *)

(* Types; and a process has the lock file open from open() to close().     *)
TypeOK ==
    /\ phase \in [Procs -> Phases]
    /\ fd \in [Procs -> Inodes \cup {None}]
    /\ \A p \in Procs : fd[p] = None <=> phase[p] \in {"off", "closed"}
    /\ lockPath \in Inodes \cup {None}
    /\ sockPath \in Procs \cup {None}
    /\ capture \in [Procs -> BOOLEAN]
    /\ conns \in [Procs -> BOOLEAN]
    /\ ended \in BOOLEAN

(* At most one daemon is between acquiring the lock and dropping it: what  *)
(* acquire() promises.                                                     *)
SingleDaemon ==
    \A p, q \in Procs : HoldsInstance(p) /\ HoldsInstance(q) => p = q

(* However many daemons are started and killed, at any step, there is one  *)
(* at a time, as long as none of them ended by a signal or an error.       *)
SingleUntilEnd == ~ended => SingleDaemon

(* Two daemons never hold the same lock file, however starts, shutdowns    *)
(* and crashes overlap: a daemon keeps its lock until it drops it.         *)
OneDaemonPerFile ==
    \A p, q \in Procs :
        HoldsInstance(p) /\ HoldsInstance(q) /\ fd[p] = fd[q] => p = q

(* A process touches the database only while it holds the lock: with       *)
(* SingleDaemon, the daemon is the only writer.                            *)
LockCoversWrites ==
    \A p \in Procs : MayWrite(p) => HoldsInstance(p)

(* It does so as long as no daemon ended otherwise than by dying: a killed *)
(* daemon's threads are gone before the next one gets the lock.            *)
LockCoversWritesUntilEnd == ~ended => LockCoversWrites

(* A daemon that serves can be reached by the socket path: nobody removes  *)
(* the socket of a live daemon, or binds over it, while daemons only die.  *)
ServingIsReachable ==
    ~ended => \A p \in Procs : phase[p] = "serving" => sockPath = p

(* Whatever files killed daemons left behind, the lock or the socket is    *)
(* refused only because another daemon is running at that moment.          *)
OnlyTheLivingBlock ==
    [][~ended => \A p \in Procs :
         (Refused(p) \/ BindRefused(p)) => \E q \in Procs \ {p} : HoldsInstance(q)]_vars

(* A daemon told to end does end, even if clients stay connected.          *)
ShutdownCompletes ==
    \A p \in Procs : phase[p] = "joining" ~> phase[p] = "off"

============================================================================
