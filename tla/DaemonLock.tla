----------------------------- MODULE DaemonLock -----------------------------
(***************************************************************************)
(* The lock of daemon_lock.py that decides which process owns the shared   *)
(* browser (POSIX): taken once, not counted, given up only by closing, and *)
(* handed to a supervisor that inherits a duplicate of the descriptor and  *)
(* adopts it.                                                              *)
(*                                                                         *)
(* One program counter per process separates the system calls of           *)
(* acquire_locked_fd, of adopt and of the probe daemon_is_running.  Two    *)
(* descriptors of one process on one open file description are two         *)
(* variables that name it; it stays open until both are closed.            *)
(***************************************************************************)
EXTENDS FileLock

CONSTANT Attempts  \* the rounds of acquire_locked_fd

ASSUME DaemonLockAssumption ==
  /\ "daemon" \in File
  /\ Attempts \in Nat \ {0}

VARIABLES
  proc,         \* unborn, live, forked (hook not yet run), failed to adopt,
                \* another program launched by one of them, or dead
  fd,           \* _fd of the process's DaemonLock
  ownerPid,     \* _owner_pid
  inheritable,  \* whether _fd would pass to a launched program
  copy,         \* the duplicate inheritable_copy returned
  pc,           \* where the process is in acquire, adopt or the probe
  tryFd,        \* the descriptor that call works on
  tries         \* the rounds of acquire_locked_fd so far

holdVars == <<fd, ownerPid, inheritable>>
callVars == <<pc, tryFd, tries>>
vars == <<ofd, at, proc, holdVars, copy, callVars>>

Pc == {"idle", "open", "lock", "granted", "refused",
       "stat", "adopt", "adopted", "probe", "probed"}

TypeOK ==
  /\ FileLockTypeOK
  /\ proc \in [Proc -> {"unborn", "live", "forked", "failed", "other", "dead"}]
  /\ fd \in [Proc -> Ofd \union {None}]
  /\ ownerPid \in [Proc -> Proc \union {None}]
  /\ inheritable \in [Proc -> BOOLEAN]
  /\ copy \in [Proc -> Ofd \union {None}]
  /\ pc \in [Proc -> Pc]
  /\ tryFd \in [Proc -> Ofd \union {None}]
  /\ tries \in [Proc -> 0..Attempts]

Init ==
  /\ FileLockInit
  /\ proc \in [Proc -> {"unborn", "live"}]
  /\ fd = [p \in Proc |-> None]
  /\ ownerPid = [p \in Proc |-> None]
  /\ inheritable = [p \in Proc |-> FALSE]
  /\ copy = [p \in Proc |-> None]
  /\ pc = [p \in Proc |-> "idle"]
  /\ tryFd = [p \in Proc |-> None]
  /\ tries = [p \in Proc |-> 0]

\* held: a descriptor inherited across a fork does not count.
Held(p) == fd[p] # None /\ ownerPid[p] = p

Ready(p) == proc[p] = "live" /\ pc[p] = "idle"

At(p, label) == proc[p] = "live" /\ pc[p] = label

Call(p, label, o, n) ==
  /\ pc' = [pc EXCEPT ![p] = label]
  /\ tryFd' = [tryFd EXCEPT ![p] = o]
  /\ tries' = [tries EXCEPT ![p] = n]

Take(p, o) ==
  /\ fd' = [fd EXCEPT ![p] = o]
  /\ ownerPid' = [ownerPid EXCEPT ![p] = p]
  /\ inheritable' = [inheritable EXCEPT ![p] = FALSE]

\* The table once p has closed _fd; a duplicate keeps the lock.
WithFdClosed(p) == IF copy[p] = fd[p] THEN ofd ELSE WithClosed(p, {fd[p]})

-----------------------------------------------------------------------------
\* try_acquire through acquire_locked_fd; with the lock in hand it raises.
Open(p) ==
  /\ At(p, "idle") \/ At(p, "open")
  /\ fd[p] = None
  /\ \E o \in Ofd :
       /\ OpenFile(p, "daemon", o)
       /\ Call(p, "lock", o, IF pc[p] = "idle" THEN 1 ELSE tries[p] + 1)
  /\ UNCHANGED <<at, proc, holdVars, copy>>

AskLock(p) ==
  /\ At(p, "lock")
  /\ \/ Grantable(tryFd[p], "ex") /\ Lock(tryFd[p], "ex")
        /\ Call(p, "granted", tryFd[p], tries[p])
     \/ ~ Grantable(tryFd[p], "ex") /\ UNCHANGED ofd
        /\ Call(p, "refused", tryFd[p], tries[p])
  /\ UNCHANGED <<at, proc, holdVars, copy>>

\* The path moved on, whatever the kernel answered: another round.
Retry(p) ==
  /\ At(p, "granted") \/ At(p, "refused")
  /\ ~ IsStillAt(tryFd[p]) /\ tries[p] < Attempts
  /\ ofd' = WithReleased(p, tryFd[p])
  /\ Call(p, "open", None, tries[p])
  /\ UNCHANGED <<at, proc, holdVars, copy>>

\* False, or ProfileLeaseUnavailableError after the last round.
NotElected(p) ==
  /\ \/ At(p, "refused") /\ IsStillAt(tryFd[p])
     \/ /\ At(p, "granted") \/ At(p, "refused")
        /\ ~ IsStillAt(tryFd[p]) /\ tries[p] = Attempts
  /\ ofd' = WithReleased(p, tryFd[p])
  /\ Call(p, "idle", None, 0)
  /\ UNCHANGED <<at, proc, holdVars, copy>>

Elected(p) ==
  /\ At(p, "granted") /\ IsStillAt(tryFd[p])
  /\ Take(p, tryFd[p])
  /\ Call(p, "idle", None, 0)
  /\ UNCHANGED <<ofd, at, proc, copy>>

\* Fault: release unlocks before it closes.
ReleaseUnlocks(p) ==
  /\ Ready(p) /\ fd[p] # None
  /\ ofd' = [WithFdClosed(p) EXCEPT ![fd[p]].mode = "none"]
  /\ fd' = [fd EXCEPT ![p] = None]
  /\ ownerPid' = [ownerPid EXCEPT ![p] = None]
  /\ inheritable' = [inheritable EXCEPT ![p] = FALSE]
  /\ UNCHANGED <<at, proc, copy, callVars>>

\* release: the descriptor is closed, never unlocked.
Release(p) ==
  /\ Ready(p) /\ fd[p] # None
  /\ ofd' = WithFdClosed(p)
  /\ fd' = [fd EXCEPT ![p] = None]
  /\ ownerPid' = [ownerPid EXCEPT ![p] = None]
  /\ inheritable' = [inheritable EXCEPT ![p] = FALSE]
  /\ UNCHANGED <<at, proc, copy, callVars>>

-----------------------------------------------------------------------------
\* Handing over.  inheritable_copy: a dup of the descriptor (a failure to mark
\* it inheritable closes it again and leaves no trace).
InheritableCopy(p) ==
  /\ Ready(p) /\ fd[p] # None /\ copy[p] = None
  /\ copy' = [copy EXCEPT ![p] = fd[p]]
  /\ UNCHANGED <<ofd, at, proc, holdVars, callVars>>

\* The elector starts a supervisor that inherits the duplicate ...
Launch(p, s) ==
  /\ Ready(p) /\ copy[p] # None
  /\ proc[s] = "unborn"
  /\ ofd' = [ofd EXCEPT ![copy[p]].open = @ \union {s}]
  /\ proc' = [proc EXCEPT ![s] = "live"]
  /\ Call(s, "stat", copy[p], 0)
  /\ UNCHANGED <<at, holdVars, copy>>

\* ... or one that is given a descriptor of the file which holds no lock.
LaunchUnlocked(s) ==
  /\ proc[s] = "unborn"
  /\ \E o \in Ofd : OpenFile(s, "daemon", o) /\ Call(s, "stat", o, 0)
  /\ proc' = [proc EXCEPT ![s] = "live"]
  /\ UNCHANGED <<at, holdVars, copy>>

CloseCopy(p) ==
  /\ Ready(p) /\ copy[p] # None
  /\ ofd' = IF copy[p] = fd[p] THEN ofd ELSE WithClosed(p, {copy[p]})
  /\ copy' = [copy EXCEPT ![p] = None]
  /\ UNCHANGED <<at, proc, holdVars, callVars>>

\* adopt raises: the descriptor stays open until the process exits.
AdoptRefused(s) ==
  /\ proc' = [proc EXCEPT ![s] = "failed"]
  /\ UNCHANGED <<ofd, callVars>>

\* adopt, system call by system call: the file is the lock's own ...
AdoptStat(s) ==
  /\ At(s, "stat")
  /\ \/ IsStillAt(tryFd[s]) /\ Call(s, "adopt", tryFd[s], 0) /\ UNCHANGED <<ofd, proc>>
     \/ ~ IsStillAt(tryFd[s]) /\ AdoptRefused(s)
  /\ UNCHANGED <<at, holdVars, copy>>

\* Fault: adopt takes the caller's word that the descriptor is locked.
AdoptUnlocked(s) ==
  /\ At(s, "adopt")
  /\ Call(s, "adopted", tryFd[s], 0) /\ UNCHANGED <<ofd, proc>>
  /\ UNCHANGED <<at, holdVars, copy>>

\* ... it is asked for the lock, which a descriptor that has it is granted ...
AdoptLock(s) ==
  /\ At(s, "adopt")
  /\ \/ Grantable(tryFd[s], "ex") /\ Lock(tryFd[s], "ex")
        /\ Call(s, "adopted", tryFd[s], 0) /\ UNCHANGED proc
     \/ ~ Grantable(tryFd[s], "ex") /\ AdoptRefused(s)
  /\ UNCHANGED <<at, holdVars, copy>>

\* Fault: the adopted descriptor is left inheritable.
AdoptedInheritable(s) ==
  /\ At(s, "adopted") /\ IsStillAt(tryFd[s])
  /\ fd' = [fd EXCEPT ![s] = tryFd[s]]
  /\ ownerPid' = [ownerPid EXCEPT ![s] = s]
  /\ inheritable' = [inheritable EXCEPT ![s] = TRUE]
  /\ Call(s, "idle", None, 0)
  /\ UNCHANGED <<ofd, at, proc, copy>>

\* ... the path still names it, and it is made non-inheritable.
Adopted(s) ==
  /\ At(s, "adopted") /\ IsStillAt(tryFd[s])
  /\ Take(s, tryFd[s])
  /\ Call(s, "idle", None, 0)
  /\ UNCHANGED <<ofd, at, proc, copy>>

\* The file was replaced meanwhile, or set_inheritable failed and the
\* descriptor was closed.
NotAdopted(s) ==
  /\ At(s, "adopted")
  /\ \/ ~ IsStillAt(tryFd[s]) /\ AdoptRefused(s)
     \/ /\ IsStillAt(tryFd[s])
        /\ ofd' = WithClosed(s, {tryFd[s]})
        /\ proc' = [proc EXCEPT ![s] = "failed"]
        /\ Call(s, "idle", None, 0)
  /\ UNCHANGED <<at, holdVars, copy>>

-----------------------------------------------------------------------------
\* daemon_is_running: a shared lock is asked for, and let go by closing.
Probe(p) ==
  /\ Ready(p)
  /\ \E o \in Ofd : OpenFile(p, "daemon", o) /\ Call(p, "probe", o, 0)
  /\ UNCHANGED <<at, proc, holdVars, copy>>

ProbeAsks(p) ==
  /\ At(p, "probe")
  /\ ofd' = IF Grantable(tryFd[p], "sh") THEN [ofd EXCEPT ![tryFd[p]].mode = "sh"] ELSE ofd
  /\ Call(p, "probed", tryFd[p], 0)
  /\ UNCHANGED <<at, proc, holdVars, copy>>

\* What it answers: nobody holds the lock when the shared one was granted.
AnswersFree(p) == At(p, "probed") /\ ofd[tryFd[p]].mode = "sh"

ProbeEnds(p) ==
  /\ At(p, "probed")
  /\ ofd' = WithClosed(p, {tryFd[p]})
  /\ Call(p, "idle", None, 0)
  /\ UNCHANGED <<at, proc, holdVars, copy>>

-----------------------------------------------------------------------------
\* A fork duplicates every descriptor; the at-fork hook has not run yet.
Fork(p, child) ==
  /\ Ready(p) /\ proc[child] = "unborn"
  /\ ofd' = WithForked(p, child)
  /\ proc' = [proc EXCEPT ![child] = "forked"]
  /\ fd' = [fd EXCEPT ![child] = fd[p]]
  /\ ownerPid' = [ownerPid EXCEPT ![child] = ownerPid[p]]
  /\ inheritable' = [inheritable EXCEPT ![child] = inheritable[p]]
  /\ copy' = [copy EXCEPT ![child] = copy[p]]
  /\ UNCHANGED <<at, callVars>>

Discarded(child) ==
  /\ proc' = [proc EXCEPT ![child] = "live"]
  /\ fd' = [fd EXCEPT ![child] = None]
  /\ ownerPid' = [ownerPid EXCEPT ![child] = None]
  /\ inheritable' = [inheritable EXCEPT ![child] = FALSE]
  /\ UNCHANGED <<at, copy, callVars>>

\* Fault: the at-fork hook unlocks what the child inherited.
ForkHookUnlocks(child) ==
  /\ proc[child] = "forked"
  /\ ofd' = IF fd[child] = None THEN ofd
            ELSE [WithFdClosed(child) EXCEPT ![fd[child]].mode = "none"]
  /\ Discarded(child)

\* _discard_inherited_locks: _fd is closed, not unlocked; a duplicate made by
\* inheritable_copy is the caller's and not in the registry.
ForkHook(child) ==
  /\ proc[child] = "forked"
  /\ ofd' = WithFdClosed(child)
  /\ Discarded(child)

\* The owner launches some other program, the browser say, which inherits
\* what is inheritable: never while a duplicate is outstanding, which is
\* inheritable for one launch.
Spawn(p, b) ==
  /\ Ready(p) /\ fd[p] # None /\ copy[p] = None
  /\ proc[b] = "unborn"
  /\ ofd' = IF inheritable[p] THEN [ofd EXCEPT ![fd[p]].open = @ \union {b}] ELSE ofd
  /\ proc' = [proc EXCEPT ![b] = "other"]
  /\ UNCHANGED <<at, holdVars, copy, callVars>>

\* A process ends at any point; the kernel closes its descriptors.
Die(p) ==
  /\ proc[p] \notin {"unborn", "dead"}
  /\ ofd' = WithClosed(p, Ofd)
  /\ proc' = [proc EXCEPT ![p] = "dead"]
  /\ fd' = [fd EXCEPT ![p] = None]
  /\ ownerPid' = [ownerPid EXCEPT ![p] = None]
  /\ inheritable' = [inheritable EXCEPT ![p] = FALSE]
  /\ copy' = [copy EXCEPT ![p] = None]
  /\ Call(p, "idle", None, 0)
  /\ UNCHANGED at

\* Somebody outside the program replaces daemon.lock.
ReplaceFile ==
  /\ Replace("daemon")
  /\ UNCHANGED <<ofd, proc, holdVars, copy, callVars>>

Acquire(p) ==
  Open(p) \/ AskLock(p) \/ Retry(p) \/ NotElected(p) \/ Elected(p) \/ Release(p)

Adopt(s) ==
  LaunchUnlocked(s) \/ AdoptStat(s) \/ AdoptLock(s) \/ Adopted(s) \/ NotAdopted(s)

Observe(p) == Probe(p) \/ ProbeAsks(p) \/ ProbeEnds(p)

HandOver(p) == InheritableCopy(p) \/ CloseCopy(p) \/ \E s \in Proc : Launch(p, s)

Lifecycle(p) ==
  ForkHook(p) \/ Die(p) \/ \E q \in Proc : Fork(p, q) \/ Spawn(p, q)

Next ==
  \/ \E p \in Proc : Acquire(p) \/ Adopt(p) \/ HandOver(p) \/ Observe(p) \/ Lifecycle(p)
  \/ ReplaceFile

Spec == Init /\ [][Next]_vars

-----------------------------------------------------------------------------
\* A process that believes it owns the daemon is covered by the kernel's
\* exclusive lock whatever others that share the descriptor do with theirs:
\* releasing, failing to adopt, running the at-fork hook, dying (release and
\* _discard_if_forked close and never unlock).
OwnerKeepsLock ==
  \A p \in Proc : Held(p) => ofd[fd[p]].mode = "ex" /\ p \in ofd[fd[p]].open

\* Processes that own the daemon through the file the path names own it by
\* one and the same lock: an elector and the supervisor it handed over to,
\* never two electors (try_acquire, adopt), even if the file is replaced.
OneDaemon ==
  \A p, q \in Proc :
    /\ Held(p) /\ IsStillAt(fd[p])
    /\ Held(q) /\ IsStillAt(fd[q])
    => fd[p] = fd[q]

\* daemon.lock is never kept locked by a bystander: a lock on it is the fd of
\* an owner, a duplicate made for a hand-over, the descriptor of a call in
\* progress or of a supervisor that failed, or a fork child's that is about to
\* run the hook (the at-fork hook; set_inheritable(False) in adopt).
NoOrphanLock ==
  \A o \in Ofd : ofd[o].mode # "none" =>
    \E p \in ofd[o].open :
      (Held(p) /\ fd[p] = o) \/ o \in {copy[p], tryFd[p]} \/ proc[p] = "forked"

\* daemon_is_running answers "free" only while nobody owns the lock through
\* the file it looked at.
FreeMeansFree ==
  \A p, q \in Proc : AnswersFree(p) /\ Held(q) => ~ SameFile(tryFd[p], fd[q])

\* p is in the line through o, a descriptor of the file at the path: it takes
\* itself for the owner, or it has made a duplicate or is adopting, and o has
\* the lock.
InLine(p, o) ==
  /\ \/ Held(p) /\ o = fd[p]
     \/ o = copy[p] /\ ofd[o].mode = "ex"
     \/ pc[p] \in {"stat", "adopt", "adopted"} /\ o = tryFd[p] /\ ofd[o].mode = "ex"
  /\ IsStillAt(o)

Line == {p \in Proc : \E o \in Ofd : InLine(p, o)}
LineLock == {o \in Ofd : \E p \in Proc : InLine(p, o)}
Started == {p \in Proc : proc[p] # "unborn"}

\* The lock with its hand-over implements DaemonOwnership.  While somebody owns
\* the daemon, is handed it or is adopting it, no process that is already there
\* becomes an owner: the line is joined only by a process a member starts with
\* its descriptor (inheritable_copy, fork), and through that same descriptor
\* (adopt), so there are never two owners, whatever is released, dies or is
\* closed between the system calls.
Succession == INSTANCE DaemonOwnership
  WITH LockId <- Ofd, line <- Line, lock <- LineLock, started <- Started

SuccessionSpec == Succession!Spec
=============================================================================
