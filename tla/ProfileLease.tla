---------------------------- MODULE ProfileLease ----------------------------
(***************************************************************************)
(* The cross-process profile lease of profile_lease.py: class ProfileLease *)
(* and the acquire_locked_fd protocol under it, one program counter per    *)
(* process for the system calls other processes can come between.          *)
(*                                                                         *)
(* Within a process the callers (the tool middleware, a login, an import)  *)
(* share one kernel lock by reference counting.  A caller that uses        *)
(* acquire() polls, announcing itself by a shared lock on profile.handoff; *)
(* the owner probes that file exclusively (handoff_requested).             *)
(***************************************************************************)
EXTENDS FileLock

CONSTANTS
  Caller,      \* the callers that hold references within a process
  Attempts,    \* the rounds of acquire_locked_fd
  ReplaceHeld  \* whether profile.lock may be replaced while the lease is held

ASSUME ProfileLeaseAssumption ==
  /\ File = {"lease", "handoff"}
  /\ None \notin Caller
  /\ Attempts \in Nat \ {0}
  /\ ReplaceHeld \in BOOLEAN

VARIABLES
  proc,      \* each process: unborn, live, forked (hook not yet run) or dead
  fd,        \* _fd of the process's ProfileLease
  ownerPid,  \* _owner_pid
  refs,      \* _refs
  using,     \* the callers that were granted the lease and have not released
  waiter,    \* the caller inside acquire()'s polling loop
  annFd,     \* _fd of its _Announcement
  pc,        \* where in acquire_locked_fd the process is
  op,        \* what that call is for
  who,       \* the caller that makes it
  tryFd,     \* its descriptor
  tries      \* its rounds so far

leaseVars == <<fd, ownerPid, refs, using>>
waitVars == <<waiter, annFd>>
callVars == <<pc, op, who, tryFd, tries>>
vars == <<ofd, at, proc, leaseVars, waitVars, callVars>>

Op == {"try", "wait", "poll", "announce", "probe"}

Pc == {"idle", "open", "lock", "granted", "refused", "leave"}

TypeOK ==
  /\ FileLockTypeOK
  /\ proc \in [Proc -> {"unborn", "live", "forked", "dead"}]
  /\ fd \in [Proc -> Ofd \union {None}]
  /\ ownerPid \in [Proc -> Proc \union {None}]
  /\ refs \in [Proc -> Nat]
  /\ using \in [Proc -> SUBSET Caller]
  /\ waiter \in [Proc -> Caller \union {None}]
  /\ annFd \in [Proc -> Ofd \union {None}]
  /\ pc \in [Proc -> Pc]
  /\ op \in [Proc -> Op]
  /\ who \in [Proc -> Caller \union {None}]
  /\ tryFd \in [Proc -> Ofd \union {None}]
  /\ tries \in [Proc -> 0..Attempts]

Init ==
  /\ FileLockInit
  /\ proc \in [Proc -> {"unborn", "live"}]
  /\ fd = [p \in Proc |-> None]
  /\ ownerPid = [p \in Proc |-> None]
  /\ refs = [p \in Proc |-> 0]
  /\ using = [p \in Proc |-> {}]
  /\ waiter = [p \in Proc |-> None]
  /\ annFd = [p \in Proc |-> None]
  /\ pc = [p \in Proc |-> "idle"]
  /\ op = [p \in Proc |-> "try"]
  /\ who = [p \in Proc |-> None]
  /\ tryFd = [p \in Proc |-> None]
  /\ tries = [p \in Proc |-> 0]

\* held: this process took the lock itself; a forked copy does not count.
Held(p) == fd[p] # None /\ ownerPid[p] = p

Ready(p) == proc[p] = "live" /\ pc[p] = "idle"

FileOf(what) == IF what \in {"announce", "probe"} THEN "handoff" ELSE "lease"

\* Fault: the lease is locked shared (LOCK_SH for LOCK_EX).
SharedLease(what) == IF what = "probe" THEN "ex" ELSE "sh"

\* Fault: handoff_requested probes with a shared lock.
SharedProbe(what) == IF what \in {"announce", "probe"} THEN "sh" ELSE "ex"

ModeOf(what) == IF what = "announce" THEN "sh" ELSE "ex"

GoTo(p, label) == pc' = [pc EXCEPT ![p] = label]

\* acquire_locked_fd starts, on behalf of caller c ...
StartCall(p, what, c) ==
  /\ GoTo(p, "open")
  /\ op' = [op EXCEPT ![p] = what]
  /\ who' = [who EXCEPT ![p] = c]
  /\ tryFd' = [tryFd EXCEPT ![p] = None]
  /\ tries' = [tries EXCEPT ![p] = 0]

\* ... and ends; the process goes on at label.
EndCall(p, label) ==
  /\ GoTo(p, label)
  /\ op' = [op EXCEPT ![p] = "try"]
  /\ who' = [who EXCEPT ![p] = None]
  /\ tryFd' = [tryFd EXCEPT ![p] = None]
  /\ tries' = [tries EXCEPT ![p] = 0]

-----------------------------------------------------------------------------
\* Fault: the second reference of a process is not counted.
ReenterUncounted(p, c) ==
  /\ Ready(p)
  /\ fd[p] # None
  /\ c \notin using[p] /\ waiter[p] # c
  /\ using' = [using EXCEPT ![p] = @ \union {c}]
  /\ UNCHANGED <<ofd, at, proc, fd, ownerPid, refs, waitVars, callVars>>

\* try_acquire when the process already has the lock: one more reference.
Reenter(p, c) ==
  /\ Ready(p)
  /\ fd[p] # None
  /\ c \notin using[p] /\ waiter[p] # c
  /\ refs' = [refs EXCEPT ![p] = @ + 1]
  /\ using' = [using EXCEPT ![p] = @ \union {c}]
  /\ UNCHANGED <<ofd, at, proc, fd, ownerPid, waitVars, callVars>>

\* try_acquire, or the first attempt of acquire(), without the lock.
StartAcquire(p, c, what) ==
  /\ Ready(p)
  /\ fd[p] = None
  /\ waiter[p] # c
  /\ what = "wait" => waiter[p] = None
  /\ StartCall(p, what, c)
  /\ UNCHANGED <<ofd, at, proc, leaseVars, waitVars>>

\* One round of acquire()'s polling loop.
Poll(p) ==
  /\ Ready(p)
  /\ waiter[p] # None
  /\ IF fd[p] = None
     THEN /\ StartCall(p, "poll", waiter[p])
          /\ UNCHANGED leaseVars
     ELSE /\ refs' = [refs EXCEPT ![p] = @ + 1]
          /\ using' = [using EXCEPT ![p] = @ \union {waiter[p]}]
          /\ EndCall(p, "leave")
          /\ UNCHANGED <<fd, ownerPid>>
  /\ UNCHANGED <<ofd, at, proc, waitVars>>

\* handoff_requested; release_if_idle calls it when no tool call waits here.
StartProbe(p) ==
  /\ Ready(p)
  /\ waiter[p] = None
  /\ StartCall(p, "probe", None)
  /\ UNCHANGED <<ofd, at, proc, leaseVars, waitVars>>

\* release: the last reference unlocks and closes.
Release(p, c) ==
  /\ Ready(p)
  /\ c \in using[p]
  /\ using' = [using EXCEPT ![p] = @ \ {c}]
  /\ IF refs[p] > 1
     THEN /\ refs' = [refs EXCEPT ![p] = @ - 1]
          /\ UNCHANGED <<ofd, fd, ownerPid>>
     ELSE /\ ofd' = WithReleased(p, fd[p])
          /\ fd' = [fd EXCEPT ![p] = None]
          /\ refs' = [refs EXCEPT ![p] = 0]
          /\ ownerPid' = [ownerPid EXCEPT ![p] = None]
  /\ UNCHANGED <<at, proc, waitVars, callVars>>

\* The end of acquire(): the announcement is withdrawn, whether the deadline
\* has passed or the lease has just been obtained.
WithdrawnOfd(p) == IF annFd[p] = None THEN ofd ELSE WithReleased(p, annFd[p])

Leave(p) ==
  /\ proc[p] = "live"
  /\ waiter[p] # None
  /\ pc[p] \in {"idle", "leave"}
  /\ ofd' = WithdrawnOfd(p)
  /\ waiter' = [waiter EXCEPT ![p] = None]
  /\ annFd' = [annFd EXCEPT ![p] = None]
  /\ EndCall(p, "idle")
  /\ UNCHANGED <<at, proc, leaseVars>>

-----------------------------------------------------------------------------
\* acquire_locked_fd, the system calls of one round.
Open(p) ==
  /\ proc[p] = "live" /\ pc[p] = "open"
  /\ \E o \in Ofd :
       /\ OpenFile(p, FileOf(op[p]), o)
       /\ tryFd' = [tryFd EXCEPT ![p] = o]
  /\ GoTo(p, "lock")
  /\ tries' = [tries EXCEPT ![p] = @ + 1]
  /\ UNCHANGED <<at, proc, leaseVars, waitVars, op, who>>

TryLock(p) ==
  /\ proc[p] = "live" /\ pc[p] = "lock"
  /\ LET o == tryFd[p]
         mode == ModeOf(op[p])
     IN IF Grantable(o, mode)
        THEN Lock(o, mode) /\ GoTo(p, "granted")
        ELSE GoTo(p, "refused") /\ UNCHANGED ofd
  /\ UNCHANGED <<at, proc, leaseVars, waitVars, op, who, tryFd, tries>>

\* The path moved on: give this descriptor up and start another round.
Retry(p) ==
  /\ proc[p] = "live" /\ pc[p] \in {"granted", "refused"}
  /\ ~ IsStillAt(tryFd[p])
  /\ tries[p] < Attempts
  /\ ofd' = WithReleased(p, tryFd[p])
  /\ GoTo(p, "open")
  /\ tryFd' = [tryFd EXCEPT ![p] = None]
  /\ UNCHANGED <<at, proc, leaseVars, waitVars, op, who, tries>>

\* Refused by the file the path still names: the lock is held by somebody.
Busy(p) == pc[p] = "refused" /\ IsStillAt(tryFd[p])

\* The last round also met a replaced path: ProfileLeaseUnavailableError.
Unavailable(p) ==
  /\ pc[p] \in {"granted", "refused"}
  /\ ~ IsStillAt(tryFd[p])
  /\ tries[p] = Attempts

Succeeds(p) == pc[p] = "granted" /\ IsStillAt(tryFd[p])

\* try_acquire got its descriptor: the process owns the lease.
Acquired(p) ==
  /\ proc[p] = "live" /\ op[p] \in {"try", "wait", "poll"}
  /\ Succeeds(p)
  /\ fd' = [fd EXCEPT ![p] = tryFd[p]]
  /\ refs' = [refs EXCEPT ![p] = 1]
  /\ ownerPid' = [ownerPid EXCEPT ![p] = p]
  /\ using' = [using EXCEPT ![p] = {who[p]}]
  /\ EndCall(p, IF op[p] = "poll" THEN "leave" ELSE "idle")
  /\ UNCHANGED <<ofd, at, proc, waitVars>>

\* A plain try_acquire that failed, by contention or by an error; an error
\* inside acquire() also ends its loop and withdraws the announcement.
NotAcquired(p) ==
  /\ proc[p] = "live"
  /\ \/ op[p] = "try" /\ (Busy(p) \/ Unavailable(p))
     \/ op[p] = "wait" /\ Unavailable(p)
  /\ ofd' = WithReleased(p, tryFd[p])
  /\ EndCall(p, "idle")
  /\ UNCHANGED <<at, proc, leaseVars, waitVars>>

\* acquire() found the lease busy: it announces itself and goes on polling.
StartWaiting(p) ==
  /\ proc[p] = "live" /\ op[p] = "wait" /\ Busy(p)
  /\ ofd' = WithReleased(p, tryFd[p])
  /\ StartCall(p, "announce", who[p])
  /\ UNCHANGED <<at, proc, leaseVars, waitVars>>

\* _Announcement.__enter__: without the lock it waits all the same, quietly.
Announced(p) ==
  /\ proc[p] = "live" /\ op[p] = "announce"
  /\ waiter' = [waiter EXCEPT ![p] = who[p]]
  /\ \/ /\ Succeeds(p)
        /\ annFd' = [annFd EXCEPT ![p] = tryFd[p]]
        /\ UNCHANGED ofd
     \/ /\ Busy(p) \/ Unavailable(p)
        /\ ofd' = WithReleased(p, tryFd[p])
        /\ UNCHANGED annFd
  /\ EndCall(p, "idle")
  /\ UNCHANGED <<at, proc, leaseVars>>

PollFailed(p) ==
  /\ proc[p] = "live" /\ op[p] = "poll"
  /\ Busy(p) \/ Unavailable(p)
  /\ ofd' = WithReleased(p, tryFd[p])
  /\ EndCall(p, IF Busy(p) THEN "idle" ELSE "leave")
  /\ UNCHANGED <<at, proc, leaseVars, waitVars>>

\* handoff_requested returns: nobody waits when the exclusive lock was
\* granted (or nothing could be learnt), somebody does when it was refused.
ProbeEnds(p) ==
  /\ proc[p] = "live" /\ op[p] = "probe"
  /\ ofd' = WithReleased(p, tryFd[p])
  /\ EndCall(p, "idle")
  /\ UNCHANGED <<at, proc, leaseVars, waitVars>>

NobodyWaits(p) == (Succeeds(p) \/ Unavailable(p)) /\ ProbeEnds(p)

SomebodyWaits(p) == Busy(p) /\ ProbeEnds(p)

-----------------------------------------------------------------------------
\* A fork duplicates every descriptor; the at-fork hook has not run yet.
Fork(p, child) ==
  /\ Ready(p)
  /\ proc[child] = "unborn"
  /\ ofd' = WithForked(p, child)
  /\ proc' = [proc EXCEPT ![child] = "forked"]
  /\ fd' = [fd EXCEPT ![child] = fd[p]]
  /\ ownerPid' = [ownerPid EXCEPT ![child] = ownerPid[p]]
  /\ refs' = [refs EXCEPT ![child] = refs[p]]
  /\ UNCHANGED <<at, using, waitVars, callVars>>

\* Fault: the at-fork hook releases the lease instead of closing it.
ForkHookUnlocks(child) ==
  /\ proc[child] = "forked"
  /\ ofd' = IF fd[child] = None THEN ofd ELSE WithReleased(child, fd[child])
  /\ proc' = [proc EXCEPT ![child] = "live"]
  /\ fd' = [fd EXCEPT ![child] = None]
  /\ ownerPid' = [ownerPid EXCEPT ![child] = None]
  /\ refs' = [refs EXCEPT ![child] = 0]
  /\ UNCHANGED <<at, using, waitVars, callVars>>

\* Fault: the at-fork hook forgets the inherited descriptor without closing it.
ForkHookForgets(child) ==
  /\ proc[child] = "forked"
  /\ proc' = [proc EXCEPT ![child] = "live"]
  /\ fd' = [fd EXCEPT ![child] = None]
  /\ ownerPid' = [ownerPid EXCEPT ![child] = None]
  /\ refs' = [refs EXCEPT ![child] = 0]
  /\ UNCHANGED <<ofd, at, using, waitVars, callVars>>

\* _discard_inherited_leases: close what was inherited, never unlock it.
ForkHook(child) ==
  /\ proc[child] = "forked"
  /\ ofd' = WithClosed(child, {fd[child]})
  /\ proc' = [proc EXCEPT ![child] = "live"]
  /\ fd' = [fd EXCEPT ![child] = None]
  /\ ownerPid' = [ownerPid EXCEPT ![child] = None]
  /\ refs' = [refs EXCEPT ![child] = 0]
  /\ UNCHANGED <<at, using, waitVars, callVars>>

\* A process ends, by exit or by a kill, at any point; the kernel closes its
\* descriptors.
Die(p) ==
  /\ proc[p] \in {"live", "forked"}
  /\ ofd' = WithClosed(p, Ofd)
  /\ proc' = [proc EXCEPT ![p] = "dead"]
  /\ fd' = [fd EXCEPT ![p] = None]
  /\ ownerPid' = [ownerPid EXCEPT ![p] = None]
  /\ refs' = [refs EXCEPT ![p] = 0]
  /\ using' = [using EXCEPT ![p] = {}]
  /\ waiter' = [waiter EXCEPT ![p] = None]
  /\ annFd' = [annFd EXCEPT ![p] = None]
  /\ EndCall(p, "idle")
  /\ UNCHANGED at

\* Neither lock file is ever unlinked by the program; somebody else may.
ReplaceFile(f) ==
  /\ f = "lease" => ReplaceHeld \/ \A p \in Proc : ~ Held(p)
  /\ Replace(f)
  /\ UNCHANGED <<ofd, proc, leaseVars, waitVars, callVars>>

AcquireStep(p) ==
  \/ Open(p) \/ TryLock(p) \/ Retry(p)
  \/ Acquired(p) \/ NotAcquired(p) \/ StartWaiting(p) \/ Announced(p)
  \/ PollFailed(p) \/ NobodyWaits(p) \/ SomebodyWaits(p)

CallerStep(p) ==
  \/ \E c \in Caller : Reenter(p, c) \/ Release(p, c)
                       \/ \E what \in {"try", "wait"} : StartAcquire(p, c, what)
  \/ Poll(p) \/ StartProbe(p) \/ Leave(p)

Lifecycle(p) == ForkHook(p) \/ Die(p) \/ \E child \in Proc : Fork(p, child)

Next ==
  \/ \E p \in Proc : AcquireStep(p) \/ CallerStep(p) \/ Lifecycle(p)
  \/ \E f \in File : ReplaceFile(f)

Spec == Init /\ [][Next]_vars

-----------------------------------------------------------------------------
\* Two processes never own the profile together: the reason the lease exists
\* (profile_lease.py, ProfileLease), as long as nobody replaces profile.lock
\* under a process that already owns it.
MutualExclusion ==
  ~ ReplaceHeld => \A p, q \in Proc : Held(p) /\ Held(q) => p = q

\* Even when profile.lock is replaced at any moment, at most one process owns
\* it through the file the path names: what acquire_locked_fd's identity check
\* after the lock is for.
LiveExclusion ==
  \A p, q \in Proc :
    /\ Held(p) /\ IsStillAt(fd[p])
    /\ Held(q) /\ IsStillAt(fd[q])
    => p = q

\* A caller that was granted the lease and has not released it is covered by
\* the kernel's exclusive lock, whatever the other callers of the process, its
\* forked children and the processes that died did meanwhile (try_acquire,
\* release and _reset_if_forked keep one reference per caller).
CallersCovered ==
  \A p \in Proc : using[p] # {} =>
    /\ Held(p) /\ ofd[fd[p]].mode = "ex" /\ p \in ofd[fd[p]].open
    /\ refs[p] = Cardinality(using[p])

\* No lock on profile.lock outlives its purpose: there is always a process
\* that owns the lease through it, is in the middle of acquire_locked_fd with
\* it, or has just been forked and has yet to run the at-fork hook.
NoOrphanLock ==
  \A o \in Ofd : ofd[o].file = "lease" /\ ofd[o].mode = "ex" =>
    \E p \in ofd[o].open :
      (Held(p) /\ fd[p] = o) \/ tryFd[p] = o \/ proc[p] = "forked"

\* An owner that is told nobody waits is told so while no process has an
\* announcement on the handoff file the path names (handoff_requested against
\* _Announcement): an announced waiter cannot be overlooked.
AnnouncedWaiterSeen ==
  [][\A p \in Proc : NobodyWaits(p) /\ Succeeds(p) =>
       \A q \in Proc : annFd[q] # None => ~ IsStillAt(annFd[q])]_vars

\* The lease implements exclusive ownership of the profile.
Ownership == INSTANCE ProfileOwnership WITH owners <- {p \in Proc : Held(p)}

OwnershipSpec == Ownership!Spec

=============================================================================
