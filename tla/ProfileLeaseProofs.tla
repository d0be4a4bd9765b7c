------------------------- MODULE ProfileLeaseProofs -------------------------
(***************************************************************************)
(* Proofs about ProfileLease for any processes, callers, descriptors and   *)
(* number of replacements: exclusive ownership, that no lock is orphaned,  *)
(* and that the lease implements ProfileOwnership.                         *)
(***************************************************************************)
EXTENDS ProfileLease, FileLockProofs, FiniteSetTheorems

Busying(p) == pc[p] \in {"open", "lock", "granted", "refused"}

\* Calls in progress have a round left, and those on behalf of a caller name it.
CallShape ==
  \A p \in Proc :
    /\ pc[p] = "open" => tries[p] < Attempts
    /\ Busying(p) /\ op[p] # "probe" => who[p] \in Caller

\* A process that owns the lease is live and holds an exclusive lock, on an
\* OFD it opened itself, of a profile.lock; nobody replaced that file under it
\* unless ReplaceHeld lets them.
OwnerInv(p) ==
  /\ Held(p) =>
       /\ proc[p] = "live"
       /\ fd[p] \in Ofd
       /\ ofd[fd[p]].by = p /\ ofd[fd[p]].file = "lease"
       /\ ofd[fd[p]].mode = "ex" /\ p \in ofd[fd[p]].open
       /\ ~ ReplaceHeld => IsStillAt(fd[p])
  /\ proc[p] = "live" => IF fd[p] = None THEN ownerPid[p] = None ELSE ownerPid[p] = p
  /\ proc[p] \in {"unborn", "dead"} => fd[p] = None /\ ownerPid[p] = None

\* A descriptor inside acquire_locked_fd is the process's own; a lease is
\* only asked for by a process that has none, a handoff lock only by one that
\* has no announcement.
CallInv(p) ==
  /\ pc[p] # "idle" => proc[p] = "live"
  /\ pc[p] \in {"lock", "granted", "refused"} =>
       /\ tryFd[p] \in Ofd
       /\ ofd[tryFd[p]].by = p /\ p \in ofd[tryFd[p]].open
       /\ ofd[tryFd[p]].file = FileOf(op[p])
  /\ pc[p] = "granted" => ofd[tryFd[p]].mode = ModeOf(op[p])
  /\ Busying(p) /\ op[p] \in {"try", "wait", "poll", "announce"} => fd[p] = None
  /\ Busying(p) /\ op[p] \in {"wait", "announce", "probe"} => waiter[p] = None

\* An announcement is the process's own shared lock on a profile.handoff.
AnnouncementInv(p) ==
  /\ waiter[p] = None => annFd[p] = None
  /\ waiter[p] # None => proc[p] = "live"
  /\ annFd[p] # None =>
       /\ annFd[p] \in Ofd
       /\ ofd[annFd[p]].by = p /\ p \in ofd[annFd[p]].open
       /\ ofd[annFd[p]].file = "handoff" /\ ofd[annFd[p]].mode = "sh"

\* The reference count is the number of callers that use the lease.
CountInv(p) ==
  /\ IsFiniteSet(using[p])
  /\ proc[p] # "live" => using[p] = {}
  /\ proc[p] = "live" => refs[p] = Cardinality(using[p])
  /\ proc[p] = "live" => (fd[p] = None <=> using[p] = {})

\* The caller that waits is not yet one of those that use the lease.
WaiterInv(p) ==
  /\ pc[p] # "leave" => waiter[p] \notin using[p]
  /\ Busying(p) /\ op[p] = "try" => who[p] # waiter[p]

ProcInv(p) ==
  OwnerInv(p) /\ CallInv(p) /\ AnnouncementInv(p) /\ CountInv(p) /\ WaiterInv(p)

IInv == TypeOK /\ CallShape /\ NoConflict /\ \A p \in Proc : ProcInv(p)

-----------------------------------------------------------------------------
\* ProfileLease's state is well typed: every step of acquire_locked_fd, of the
\* callers and of a process's life keeps each variable in its set; with the
\* range of tries, acquire_locked_fd never makes more than Attempts rounds.
THEOREM Typing == Spec => [](TypeOK /\ CallShape)
<1> USE FileLockAssumption, ProfileLeaseAssumption DEF Busying
<1>1. Init => TypeOK /\ CallShape
  BY DEF Init, TypeOK, CallShape, FileLockInit, FileLockTypeOK, OfdRecord, Closed, Mode, Pc, Op
<1>2. TypeOK /\ CallShape /\ [Next]_vars => (TypeOK /\ CallShape)'
  <2> SUFFICES ASSUME TypeOK, CallShape, [Next]_vars PROVE TypeOK' /\ CallShape'
    OBVIOUS
  <2>0. /\ ofd \in [Ofd -> OfdRecord]
        /\ \A what \in Op : FileOf(what) \in File /\ ModeOf(what) \in Mode
    BY DEF TypeOK, FileLockTypeOK, FileOf, ModeOf, Mode, Op
  <2> USE DEF FileLockTypeOK, leaseVars, waitVars, callVars, GoTo, EndCall, StartCall, Pc, Op
  <2>1. CASE UNCHANGED vars
    BY <2>1 DEF vars, TypeOK, CallShape
  <2>2. ASSUME NEW f \in File, ReplaceFile(f) PROVE TypeOK' /\ CallShape'
    BY <2>2 DEF ReplaceFile, Replace, TypeOK, CallShape
  <2>3. ASSUME NEW p \in Proc, AcquireStep(p) PROVE TypeOK' /\ CallShape'
    <3>1. CASE Open(p)
      <4>1. ofd' \in [Ofd -> OfdRecord]
        BY <3>1, <2>0, OpenTyping DEF Open, TypeOK
      <4>2. QED
        BY <3>1, <4>1 DEF Open, TypeOK, CallShape
    <3>2. CASE TryLock(p)
      <4>1. ofd' \in [Ofd -> OfdRecord]
        BY <3>2, <2>0, LockTyping DEF TryLock, TypeOK
      <4>2. QED
        BY <3>2, <4>1 DEF TryLock, TypeOK, CallShape
    <3>3. CASE Retry(p)
      <4>1. ofd' \in [Ofd -> OfdRecord]
        BY <3>3, <2>0, ReleasedTyping DEF Retry
      <4>2. QED
        BY <3>3, <4>1 DEF Retry, TypeOK, CallShape
    <3>4. CASE Acquired(p)
      BY <3>4 DEF Acquired, Succeeds, TypeOK, CallShape
    <3>5. CASE NotAcquired(p)
      <4>1. ofd' \in [Ofd -> OfdRecord]
        BY <3>5, <2>0, ReleasedTyping DEF NotAcquired
      <4>2. QED
        BY <3>5, <4>1 DEF NotAcquired, TypeOK, CallShape
    <3>6. CASE StartWaiting(p)
      <4>1. ofd' \in [Ofd -> OfdRecord]
        BY <3>6, <2>0, ReleasedTyping DEF StartWaiting, Busy
      <4>2. QED
        BY <3>6, <4>1 DEF StartWaiting, Busy, TypeOK, CallShape
    <3>7. CASE Announced(p)
      <4>1. ofd' \in [Ofd -> OfdRecord]
        BY <3>7, <2>0, ReleasedTyping DEF Announced, Busy, Succeeds, Unavailable
      <4>2. QED
        BY <3>7, <4>1 DEF Announced, Busy, Succeeds, Unavailable, TypeOK, CallShape
    <3>8. CASE PollFailed(p)
      <4>1. ofd' \in [Ofd -> OfdRecord]
        BY <3>8, <2>0, ReleasedTyping DEF PollFailed
      <4>2. QED
        BY <3>8, <4>1 DEF PollFailed, TypeOK, CallShape
    <3>9. CASE NobodyWaits(p)
      <4>1. ofd' \in [Ofd -> OfdRecord]
        BY <3>9, <2>0, ReleasedTyping DEF NobodyWaits, ProbeEnds
      <4>2. QED
        BY <3>9, <4>1 DEF NobodyWaits, ProbeEnds, TypeOK, CallShape
    <3>10. CASE SomebodyWaits(p)
      <4>1. ofd' \in [Ofd -> OfdRecord]
        BY <3>10, <2>0, ReleasedTyping DEF SomebodyWaits, ProbeEnds
      <4>2. QED
        BY <3>10, <4>1 DEF SomebodyWaits, ProbeEnds, TypeOK, CallShape
    <3>11. QED
      BY <2>3, <3>1, <3>2, <3>3, <3>4, <3>5, <3>6, <3>7, <3>8, <3>9, <3>10 DEF AcquireStep
  <2>4. ASSUME NEW p \in Proc, CallerStep(p) PROVE TypeOK' /\ CallShape'
    <3>1. ASSUME NEW c \in Caller, Reenter(p, c) PROVE TypeOK' /\ CallShape'
      BY <3>1 DEF Reenter, TypeOK, CallShape
    <3>2. ASSUME NEW c \in Caller, Release(p, c) PROVE TypeOK' /\ CallShape'
      <4>1. ofd' \in [Ofd -> OfdRecord]
        BY <3>2, <2>0, ReleasedTyping DEF Release
      <4>2. refs' \in [Proc -> Nat]
        BY <3>2 DEF Release, TypeOK
      <4>3. QED
        BY <3>2, <4>1, <4>2 DEF Release, TypeOK, CallShape
    <3>3. ASSUME NEW c \in Caller, NEW what \in {"try", "wait"}, StartAcquire(p, c, what)
          PROVE  TypeOK' /\ CallShape'
      BY <3>3 DEF StartAcquire, TypeOK, CallShape
    <3>4. CASE Poll(p)
      BY SMTT(30), <3>4 DEF Poll, TypeOK, CallShape
    <3>5. CASE StartProbe(p)
      BY <3>5 DEF StartProbe, TypeOK, CallShape
    <3>6. CASE Leave(p)
      <4>1. ofd' \in [Ofd -> OfdRecord]
        BY <3>6, <2>0, ReleasedTyping DEF Leave, WithdrawnOfd
      <4>2. QED
        BY <3>6, <4>1 DEF Leave, TypeOK, CallShape
    <3>7. QED
      BY <2>4, <3>1, <3>2, <3>3, <3>4, <3>5, <3>6 DEF CallerStep
  <2>5. ASSUME NEW p \in Proc, Lifecycle(p) PROVE TypeOK' /\ CallShape'
    <3>1. CASE ForkHook(p)
      <4>1. ofd' \in [Ofd -> OfdRecord]
        BY <3>1, <2>0, ClosedTyping DEF ForkHook
      <4>2. QED
        BY <3>1, <4>1 DEF ForkHook, TypeOK, CallShape
    <3>2. CASE Die(p)
      <4>1. ofd' \in [Ofd -> OfdRecord]
        BY <3>2, <2>0, ClosedTyping DEF Die
      <4>2. QED
        BY <3>2, <4>1 DEF Die, TypeOK, CallShape
    <3>3. ASSUME NEW child \in Proc, Fork(p, child) PROVE TypeOK' /\ CallShape'
      <4>1. ofd' \in [Ofd -> OfdRecord]
        BY <3>3, <2>0, ForkedTyping DEF Fork
      <4>2. QED
        BY <3>3, <4>1 DEF Fork, TypeOK, CallShape
    <3>4. QED
      BY <2>5, <3>1, <3>2, <3>3 DEF Lifecycle
  <2>6. QED
    BY <2>1, <2>2, <2>3, <2>4, <2>5 DEF Next
<1>3. QED
  BY <1>1, <1>2, PTL DEF Spec

-----------------------------------------------------------------------------
\* The new table t keeps the OFDs that q opened and still has open.
Keeps(t, q) ==
  \A o \in Ofd : ofd[o].by = q /\ q \in ofd[o].open => SameLock(t, o) /\ q \in t[o].open

\* Closing descriptors of p weakens locks and leaves the other processes' OFDs.
LEMMA ClosedKeeps ==
  ASSUME ofd \in [Ofd -> OfdRecord], NEW p \in Proc, NEW S
  PROVE  /\ Weaker(WithClosed(p, S))
         /\ \A q \in Proc \ {p} : Keeps(WithClosed(p, S), q)
<1> DEFINE t == WithClosed(p, S)
<1>1. ASSUME NEW o \in Ofd PROVE t[o].mode = "none" \/ SameLock(t, o)
  BY DEF WithClosed, SameLock, Closed, OfdRecord
<1>2. ASSUME NEW q \in Proc \ {p}, NEW o \in Ofd, q \in ofd[o].open
      PROVE  SameLock(t, o) /\ q \in t[o].open
  BY <1>2 DEF WithClosed, SameLock, Closed, OfdRecord
<1>3. QED
  BY <1>1, <1>2 DEF Weaker, Keeps

\* Unlocking and closing o leaves every OFD that o is not (_release_locked_fd).
LEMMA ReleasedKeeps ==
  ASSUME ofd \in [Ofd -> OfdRecord], NEW p \in Proc, NEW o
  PROVE  /\ Weaker(WithReleased(p, o))
         /\ \A other \in Ofd \ {o} : WithReleased(p, o)[other] = ofd[other]
         /\ \A q \in Proc : (o \in Ofd => ofd[o].by # q) => Keeps(WithReleased(p, o), q)
<1> DEFINE t == WithReleased(p, o)
<1>1. ASSUME NEW other \in Ofd \ {o} PROVE t[other] = ofd[other]
  BY DEF WithReleased, WithClosed
<1>2. o \in Ofd => t[o].mode = "none"
  <2>1. WithClosed(p, {o}) \in [Ofd -> OfdRecord]
    BY ClosedTyping
  <2>2. QED
    BY <2>1 DEF WithReleased, OfdRecord
<1>3. QED
  BY <1>1, <1>2 DEF Weaker, Keeps, SameLock

\* A fork leaves every lock as it was and closes nothing.
LEMMA ForkedKeeps ==
  ASSUME ofd \in [Ofd -> OfdRecord], NEW p \in Proc, NEW child \in Proc
  PROVE  /\ Weaker(WithForked(p, child))
         /\ \A q \in Proc : Keeps(WithForked(p, child), q)
<1> DEFINE t == WithForked(p, child)
<1>1. ASSUME NEW o \in Ofd PROVE SameLock(t, o) /\ ofd[o].open \subseteq t[o].open
  BY DEF WithForked, SameLock, OfdRecord
<1>2. QED
  BY <1>1 DEF Weaker, Keeps

\* A process keeps its invariant while its own state and OFDs stay.
LEMMA Frame ==
  ASSUME TypeOK, NEW q \in Proc, ProcInv(q), Keeps(ofd', q), at' = at,
         proc'[q] = proc[q], fd'[q] = fd[q], ownerPid'[q] = ownerPid[q],
         refs'[q] = refs[q], using'[q] = using[q], waiter'[q] = waiter[q],
         annFd'[q] = annFd[q], pc'[q] = pc[q], op'[q] = op[q], tryFd'[q] = tryFd[q],
         who'[q] = who[q]
  PROVE  ProcInv(q)'
<1>1. OwnerInv(q)'
  BY DEF ProcInv, OwnerInv, Held, Keeps, SameLock, IsStillAt
<1>2. CallInv(q)'
  BY DEF ProcInv, CallInv, Busying, Keeps, SameLock
<1>3. AnnouncementInv(q)'
  BY DEF ProcInv, AnnouncementInv, Keeps, SameLock, TypeOK
<1>4. CountInv(q)'
  BY DEF ProcInv, CountInv
<1>5. WaiterInv(q)'
  BY DEF ProcInv, WaiterInv, Busying
<1>6. QED
  BY <1>1, <1>2, <1>3, <1>4, <1>5 DEF ProcInv

-----------------------------------------------------------------------------
\* The inductive step, one lemma per group of actions: first those that give
\* back the descriptor of acquire_locked_fd.
LEMMA GivenBack ==
  ASSUME IInv, NEW p \in Proc, proc[p] = "live", pc[p] \in {"granted", "refused"},
         ofd' = WithReleased(p, tryFd[p])
  PROVE  /\ NoConflict'
         /\ \A q \in Proc \ {p} : Keeps(ofd', q)
         /\ \A o \in Ofd \ {tryFd[p]} : ofd'[o] = ofd[o]
<1>1. tryFd[p] \in Ofd /\ ofd[tryFd[p]].by = p
  BY DEF IInv, ProcInv, CallInv
<1>2. ofd \in [Ofd -> OfdRecord]
  BY DEF IInv, TypeOK, FileLockTypeOK
<1>3. QED
  BY <1>1, <1>2, ReleasedKeeps, WeakerNoConflict DEF IInv

\* A failed, retried or finished acquire_locked_fd preserves the invariant: what
\* it closes is neither the lease nor an announcement of any process.
LEMMA GiveBackSteps ==
  ASSUME IInv, NEW p \in Proc,
         \/ Retry(p) \/ NotAcquired(p) \/ StartWaiting(p) \/ PollFailed(p)
         \/ NobodyWaits(p) \/ SomebodyWaits(p) \/ (Announced(p) /\ ~ Succeeds(p))
  PROVE  NoConflict' /\ \A q \in Proc : ProcInv(q)'
<1>1. proc[p] = "live" /\ pc[p] \in {"granted", "refused"} /\ ofd' = WithReleased(p, tryFd[p])
  BY DEF Retry, NotAcquired, StartWaiting, PollFailed, NobodyWaits, SomebodyWaits, ProbeEnds,
         Announced, Busy, Unavailable, Succeeds
<1>2. /\ NoConflict'
      /\ \A q \in Proc \ {p} : Keeps(ofd', q)
      /\ \A o \in Ofd \ {tryFd[p]} : ofd'[o] = ofd[o]
  BY <1>1, GivenBack
<1>3. /\ UNCHANGED <<at, proc, leaseVars>>
      /\ \A q \in Proc \ {p} :
           waiter'[q] = waiter[q] /\ annFd'[q] = annFd[q] /\ pc'[q] = pc[q]
           /\ op'[q] = op[q] /\ tryFd'[q] = tryFd[q] /\ who'[q] = who[q]
      /\ annFd'[p] = annFd[p]
      /\ pc'[p] \in {"idle", "open", "leave"}
  BY DEF IInv, TypeOK, Retry, NotAcquired, StartWaiting, PollFailed, NobodyWaits, SomebodyWaits,
         ProbeEnds, Announced, leaseVars, waitVars, callVars, GoTo, EndCall, StartCall
<1>4. ASSUME NEW q \in Proc \ {p} PROVE ProcInv(q)'
  BY <1>2, <1>3, <1>4, Frame DEF IInv, leaseVars
<1>5. ProcInv(p)'
  <2>0. ProcInv(p) /\ TypeOK /\ CallShape
    BY DEF IInv
  <2>1. Held(p) => fd[p] \in Ofd /\ ofd'[fd[p]] = ofd[fd[p]]
    <3>1. ASSUME Held(p) PROVE fd[p] \in Ofd /\ fd[p] # tryFd[p]
      <4>1. fd[p] # None /\ fd[p] \in Ofd /\ ofd[fd[p]].file = "lease"
        BY <2>0, <3>1 DEF ProcInv, OwnerInv, Held
      <4>2. op[p] \notin {"try", "wait", "poll"} /\ ofd[tryFd[p]].file = FileOf(op[p])
        BY <2>0, <1>1, <4>1 DEF ProcInv, CallInv, Busying
      <4>3. op[p] \in {"announce", "probe"}
        BY <2>0, <4>2 DEF TypeOK, Op
      <4>4. QED
        BY <4>1, <4>2, <4>3 DEF FileOf
    <3>2. QED
      BY <3>1, <1>2
  <2>2. annFd[p] # None => annFd[p] \in Ofd /\ ofd'[annFd[p]] = ofd[annFd[p]]
    <3>1. ASSUME annFd[p] # None PROVE annFd[p] \in Ofd /\ annFd[p] # tryFd[p]
      <4>1. waiter[p] # None /\ annFd[p] \in Ofd /\ ofd[annFd[p]].file = "handoff"
        BY <2>0, <3>1 DEF ProcInv, AnnouncementInv
      <4>2. op[p] \notin {"announce", "probe"} /\ ofd[tryFd[p]].file = FileOf(op[p])
        BY <2>0, <1>1, <4>1 DEF ProcInv, CallInv, Busying
      <4>3. QED
        BY <4>1, <4>2 DEF FileOf
    <3>2. QED
      BY <3>1, <1>2
  <2>3. OwnerInv(p)'
    BY <2>0, <2>1, <1>3 DEF ProcInv, OwnerInv, Held, IsStillAt, leaseVars
  <2>4. AnnouncementInv(p)'
    <3>1. waiter'[p] = None => waiter[p] = None
      BY <2>0, <1>1 DEF Retry, NotAcquired, StartWaiting, PollFailed, NobodyWaits, SomebodyWaits,
                  ProbeEnds, Announced, waitVars, TypeOK, CallInv, ProcInv, Busying
    <3>2. QED
      BY <2>0, <2>2, <3>1, <1>1, <1>3 DEF ProcInv, AnnouncementInv
  <2>5. CallInv(p)'
    <3>1. CASE Retry(p)
      BY <2>0, <3>1, <1>1 DEF Retry, ProcInv, CallInv, Busying, TypeOK, leaseVars, waitVars, GoTo
    <3>2. CASE StartWaiting(p)
      BY <2>0, <3>2, <1>1 DEF StartWaiting, ProcInv, CallInv, Busying, TypeOK, leaseVars,
                              waitVars, StartCall, GoTo
    <3>3. CASE pc'[p] \in {"idle", "leave"}
      BY <1>1, <1>3, <3>3 DEF CallInv, Busying
    <3>4. QED
      BY <3>1, <3>2, <3>3 DEF NotAcquired, PollFailed, NobodyWaits, SomebodyWaits, ProbeEnds,
         Announced, EndCall, GoTo, IInv, TypeOK
  <2>6. CountInv(p)'
    BY <2>0, <1>3 DEF ProcInv, CountInv, leaseVars
  <2>7. WaiterInv(p)'
    <3>1. waiter'[p] \notin using[p]
      <4>1. CASE Announced(p)
        BY <2>0, <4>1, <1>1 DEF Announced, ProcInv, CallInv, CountInv, Busying, TypeOK
      <4>2. CASE UNCHANGED waiter
        BY <2>0, <4>2, <1>1 DEF ProcInv, WaiterInv
      <4>3. QED
        BY <4>1, <4>2 DEF Retry, NotAcquired, StartWaiting, PollFailed, NobodyWaits,
           SomebodyWaits, ProbeEnds, waitVars
    <3>2. Busying(p)' /\ op'[p] = "try" => who'[p] # waiter'[p]
      BY <2>0 DEF Retry, NotAcquired, StartWaiting, PollFailed, NobodyWaits, SomebodyWaits,
         ProbeEnds, Announced, EndCall, StartCall, GoTo, waitVars, Busying, TypeOK, ProcInv,
         WaiterInv
    <3>3. QED
      BY <3>1, <3>2, <1>3 DEF WaiterInv, leaseVars
  <2>8. QED
    BY <2>3, <2>4, <2>5, <2>6, <2>7 DEF ProcInv
<1>6. QED
  BY <1>2, <1>4, <1>5

\* The steps that take something: a descriptor, a lock, the lease, an announcement.
LEMMA OpenStep ==
  ASSUME IInv, NEW p \in Proc, Open(p)
  PROVE  NoConflict' /\ \A q \in Proc : ProcInv(q)'
<1> USE FileLockAssumption DEF GoTo, leaseVars, waitVars
<1>0. PICK o \in Ofd : OpenFile(p, FileOf(op[p]), o) /\ tryFd' = [tryFd EXCEPT ![p] = o]
  BY DEF Open
<1>1. /\ ofd[o].open = {}
      /\ ofd'[o].mode = "none" /\ ofd'[o].by = p /\ ofd'[o].open = {p}
      /\ ofd'[o].file = FileOf(op[p])
      /\ \A other \in Ofd \ {o} : ofd'[other] = ofd[other]
  BY <1>0 DEF OpenFile, IsOpen, IInv, TypeOK, FileLockTypeOK
<1>2. Weaker(ofd') /\ \A q \in Proc : Keeps(ofd', q)
  BY <1>1 DEF Weaker, Keeps, SameLock
<1>3. NoConflict'
  BY <1>2, WeakerNoConflict DEF IInv
<1>4. ASSUME NEW q \in Proc \ {p} PROVE ProcInv(q)'
  BY <1>2, Frame DEF IInv, TypeOK, Open
<1>5. ProcInv(p)'
  <2>0. ProcInv(p) /\ TypeOK /\ CallShape
    BY DEF IInv
  <2>1. OwnerInv(p)'
    BY <2>0, <1>2 DEF Open, ProcInv, OwnerInv, Held, IsStillAt, Keeps, SameLock
  <2>2. AnnouncementInv(p)'
    BY <2>0, <1>2 DEF Open, ProcInv, AnnouncementInv, Keeps, SameLock, TypeOK
  <2>3. CallInv(p)'
    BY <2>0, <1>0, <1>1 DEF Open, ProcInv, CallInv, Busying, TypeOK
  <2>4. CountInv(p)'
    BY <2>0 DEF Open, ProcInv, CountInv
  <2>5. WaiterInv(p)'
    BY <2>0 DEF Open, ProcInv, WaiterInv, Busying, TypeOK
  <2>6. QED
    BY <2>1, <2>2, <2>3, <2>4, <2>5 DEF ProcInv
<1>6. QED
  BY <1>3, <1>4, <1>5

\* flock's answer preserves the invariant: a grant conflicts with no lock there is.
LEMMA TryLockStep ==
  ASSUME IInv, NEW p \in Proc, TryLock(p)
  PROVE  NoConflict' /\ \A q \in Proc : ProcInv(q)'
<1> USE DEF GoTo, leaseVars, waitVars
<1> DEFINE o == tryFd[p]
           mode == ModeOf(op[p])
<1>0. /\ ProcInv(p) /\ TypeOK /\ ofd \in [Ofd -> OfdRecord]
      /\ o \in Ofd /\ ofd[o].by = p
      /\ ofd[o].file = FileOf(op[p])
  BY DEF IInv, TypeOK, FileLockTypeOK, ProcInv, CallInv, TryLock
<1>1. /\ \A other \in Ofd : /\ ofd'[other].file = ofd[other].file
                             /\ ofd'[other].gen = ofd[other].gen
                             /\ ofd'[other].by = ofd[other].by
                             /\ ofd'[other].open = ofd[other].open
      /\ \A other \in Ofd \ {o} : ofd'[other] = ofd[other]
      /\ pc'[p] = "granted" => ofd'[o].mode = mode /\ Grantable(o, mode)
      /\ ofd'[o].mode # ofd[o].mode => pc'[p] = "granted"
  <2>1. CASE Grantable(o, mode) /\ Lock(o, mode) /\ pc' = [pc EXCEPT ![p] = "granted"]
    BY <1>0, <2>1 DEF Lock, OfdRecord, TypeOK
  <2>2. CASE UNCHANGED ofd /\ pc' = [pc EXCEPT ![p] = "refused"]
    BY <1>0, <2>2 DEF TypeOK
  <2>3. QED
    BY <2>1, <2>2 DEF TryLock
<1> HIDE DEF o, mode
<1>2. NoConflict'
  <2> SUFFICES ASSUME NEW o1 \in Ofd, NEW o2 \in Ofd, o1 # o2, SameFile(o1, o2)'
               PROVE  ~ Conflict(ofd'[o1].mode, ofd'[o2].mode)
    BY DEF NoConflict
  <2>1. SameFile(o1, o2) /\ ~ Conflict(ofd[o1].mode, ofd[o2].mode)
    BY <1>1 DEF SameFile, IInv, NoConflict
  <2>2. CASE ofd'[o].mode = ofd[o].mode
    BY <2>1, <2>2, <1>0, <1>1
  <2>3. CASE ofd'[o].mode # ofd[o].mode
    <3>1. Grantable(o, mode) /\ ofd'[o].mode = mode
      BY <1>1, <2>3
    <3>2. CASE o1 = o
      BY <3>1, <3>2, <2>1, <1>1 DEF Grantable
    <3>3. CASE o2 = o
      BY <3>1, <3>3, <2>1, <1>1 DEF Grantable, SameFile, Conflict
    <3>4. CASE o1 # o /\ o2 # o
      BY <3>4, <2>1, <1>1
    <3>5. QED
      BY <3>2, <3>3, <3>4
  <2>4. QED
    BY <2>2, <2>3
<1>3. ASSUME NEW q \in Proc \ {p} PROVE ProcInv(q)'
  <2>1. Keeps(ofd', q)
    BY <1>0, <1>1 DEF Keeps, SameLock
  <2>2. QED
    BY <2>1, Frame DEF IInv, TypeOK, TryLock
<1>4. ProcInv(p)'
  <2>1. OwnerInv(p)'
    <3>1. Held(p) => fd[p] # o
      <4>1. SUFFICES ASSUME Held(p) PROVE fd[p] # o
        OBVIOUS
      <4>2. fd[p] # None /\ ofd[fd[p]].file = "lease"
        BY <4>1, <1>0 DEF ProcInv, OwnerInv, Held
      <4>3. op[p] \in {"announce", "probe"}
        BY <4>2, <1>0 DEF ProcInv, CallInv, Busying, TryLock, TypeOK, Op
      <4>4. QED
        BY <4>2, <4>3, <1>0 DEF FileOf
    <3>2. QED
      BY <3>1, <1>0, <1>1 DEF TryLock, ProcInv, OwnerInv, Held, IsStillAt
  <2>2. AnnouncementInv(p)'
    <3>1. annFd[p] # None => annFd[p] # o
      <4>1. SUFFICES ASSUME annFd[p] # None PROVE annFd[p] # o
        OBVIOUS
      <4>2. waiter[p] # None /\ ofd[annFd[p]].file = "handoff"
        BY <4>1, <1>0 DEF ProcInv, AnnouncementInv
      <4>3. op[p] \notin {"announce", "probe"}
        BY <4>2, <1>0 DEF ProcInv, CallInv, Busying, TryLock
      <4>4. QED
        BY <4>2, <4>3, <1>0 DEF FileOf
    <3>2. QED
      BY <3>1, <1>0, <1>1 DEF TryLock, ProcInv, AnnouncementInv, TypeOK
  <2>3. CallInv(p)'
    BY <1>0, <1>1 DEF TryLock, ProcInv, CallInv, Busying, TypeOK, o, mode
  <2>4. CountInv(p)'
    BY <1>0 DEF TryLock, ProcInv, CountInv
  <2>5. WaiterInv(p)'
    BY <1>0 DEF TryLock, ProcInv, WaiterInv, Busying, TypeOK
  <2>6. QED
    BY <2>1, <2>2, <2>3, <2>4, <2>5 DEF ProcInv
<1>5. QED
  BY <1>2, <1>3, <1>4

\* try_acquire's success preserves the invariant: its locked descriptor becomes
\* the lease, with one reference.
LEMMA AcquiredStep ==
  ASSUME IInv, NEW p \in Proc, Acquired(p)
  PROVE  NoConflict' /\ \A q \in Proc : ProcInv(q)'
<1> USE DEF GoTo, EndCall, waitVars
<1>0. ProcInv(p) /\ TypeOK /\ CallShape
  BY DEF IInv
<1>1. NoConflict' /\ \A q \in Proc : Keeps(ofd', q)
  BY DEF IInv, Acquired, NoConflict, SameFile, Keeps, SameLock
<1>2. ASSUME NEW q \in Proc \ {p} PROVE ProcInv(q)'
  BY <1>1, Frame DEF IInv, TypeOK, Acquired
<1>3. OwnerInv(p)'
  <2>1. /\ tryFd[p] \in Ofd /\ ofd[tryFd[p]].by = p /\ p \in ofd[tryFd[p]].open
        /\ ofd[tryFd[p]].file = FileOf(op[p]) /\ ofd[tryFd[p]].mode = ModeOf(op[p])
        /\ IsStillAt(tryFd[p])
    BY <1>0 DEF Acquired, Succeeds, ProcInv, CallInv
  <2>2. FileOf(op[p]) = "lease" /\ ModeOf(op[p]) = "ex"
    BY DEF Acquired, FileOf, ModeOf
  <2>3. UNCHANGED <<ofd, at, proc>> /\ fd'[p] = tryFd[p] /\ ownerPid'[p] = p /\ proc[p] = "live"
    BY <1>0 DEF Acquired, TypeOK
  <2>4. QED
    BY <2>1, <2>2, <2>3, FileLockAssumption DEF OwnerInv, Held, IsStillAt
<1>4. AnnouncementInv(p)'
  BY <1>0 DEF Acquired, ProcInv, AnnouncementInv
<1>5. CallInv(p)'
  BY <1>0 DEF Acquired, ProcInv, CallInv, Busying, TypeOK
<1>6. CountInv(p)'
  <2>1. using'[p] = {who[p]} /\ refs'[p] = 1 /\ fd'[p] # None /\ proc'[p] = "live"
    BY <1>0, FileLockAssumption DEF Acquired, Succeeds, TypeOK, ProcInv, CallInv
  <2>2. IsFiniteSet({who[p]}) /\ Cardinality({who[p]}) = 1
    BY FS_Singleton
  <2>3. QED
    BY <2>1, <2>2 DEF CountInv
<1>7. WaiterInv(p)'
  <2>1. using'[p] = {who[p]} /\ waiter' = waiter
    BY <1>0 DEF Acquired, TypeOK
  <2>2. op[p] # "poll" => who[p] # waiter[p]
    BY <1>0, ProfileLeaseAssumption DEF Acquired, Succeeds, ProcInv, WaiterInv, CallInv, Busying,
                                        CallShape
  <2>3. pc'[p] = IF op[p] = "poll" THEN "leave" ELSE "idle"
    BY <1>0 DEF Acquired, TypeOK
  <2>4. QED
    BY <2>1, <2>2, <2>3 DEF WaiterInv, Busying
<1>8. QED
  BY <1>1, <1>2, <1>3, <1>4, <1>5, <1>6, <1>7 DEF ProcInv

\* A waiter's shared lock becomes its announcement (_Announcement.__enter__).
LEMMA AnnouncedStep ==
  ASSUME IInv, NEW p \in Proc, Announced(p), Succeeds(p)
  PROVE  NoConflict' /\ \A q \in Proc : ProcInv(q)'
<1> USE DEF GoTo, EndCall, leaseVars
<1>0. ProcInv(p) /\ TypeOK /\ CallShape
  BY DEF IInv
<1>1. UNCHANGED ofd /\ annFd' = [annFd EXCEPT ![p] = tryFd[p]]
  BY DEF Announced, Succeeds, Busy, Unavailable
<1>2. NoConflict' /\ \A q \in Proc : Keeps(ofd', q)
  BY <1>1 DEF IInv, NoConflict, SameFile, Keeps, SameLock
<1>3. ASSUME NEW q \in Proc \ {p} PROVE ProcInv(q)'
  BY <1>1, <1>2, Frame DEF IInv, TypeOK, Announced
<1>4. OwnerInv(p)'
  BY <1>0, <1>1 DEF Announced, ProcInv, OwnerInv, Held, IsStillAt
<1>5. AnnouncementInv(p)'
  <2>1. who[p] # None
    BY <1>0, ProfileLeaseAssumption DEF Announced, Succeeds, CallShape, Busying
  <2>2. QED
    BY <1>0, <1>1, <2>1 DEF Announced, Succeeds, ProcInv, CallInv, AnnouncementInv, FileOf,
                            ModeOf, TypeOK
<1>6. CallInv(p)'
  BY <1>0, <1>1 DEF Announced, ProcInv, CallInv, Busying, TypeOK
<1>7. CountInv(p)'
  BY <1>0 DEF Announced, ProcInv, CountInv
<1>8. WaiterInv(p)'
  BY <1>0 DEF Announced, Succeeds, ProcInv, CallInv, CountInv, WaiterInv, Busying, TypeOK
<1>9. QED
  BY <1>2, <1>3, <1>4, <1>5, <1>6, <1>7, <1>8 DEF ProcInv

\* The callers' steps: a reference more, a reference less, a wait that starts or ends.
LEMMA CallStarts ==
  ASSUME IInv, NEW p \in Proc,
         \/ \E c \in Caller, what \in {"try", "wait"} : StartAcquire(p, c, what)
         \/ Poll(p) /\ fd[p] = None
         \/ StartProbe(p)
  PROVE  NoConflict' /\ \A q \in Proc : ProcInv(q)'
<1> USE DEF GoTo, StartCall, leaseVars, waitVars
<1>0. ProcInv(p) /\ TypeOK
  BY DEF IInv
<1>1. /\ UNCHANGED <<ofd, at, proc, fd, ownerPid, refs, using, waiter, annFd>>
      /\ pc' = [pc EXCEPT ![p] = "open"] /\ proc[p] = "live"
      /\ \A q \in Proc \ {p} : op'[q] = op[q] /\ tryFd'[q] = tryFd[q] /\ who'[q] = who[q]
      /\ fd[p] = None \/ op'[p] = "probe"
      /\ op'[p] = "try" => who'[p] # waiter[p]
      /\ op'[p] \in {"wait", "announce", "probe"} => waiter[p] = None
  BY <1>0 DEF StartAcquire, Poll, StartProbe, Ready, TypeOK
<1>2. NoConflict' /\ \A q \in Proc : Keeps(ofd', q)
  BY <1>1 DEF IInv, NoConflict, SameFile, Keeps, SameLock
<1>3. ASSUME NEW q \in Proc \ {p} PROVE ProcInv(q)'
  BY <1>1, <1>2, Frame DEF IInv, TypeOK
<1>4. OwnerInv(p)' /\ AnnouncementInv(p)' /\ CountInv(p)'
  BY <1>0, <1>1 DEF ProcInv, OwnerInv, Held, IsStillAt, AnnouncementInv, CountInv
<1>5. CallInv(p)'
  BY <1>0, <1>1 DEF ProcInv, CallInv, Busying, TypeOK
<1>6. WaiterInv(p)'
  BY <1>0, <1>1 DEF ProcInv, WaiterInv, Busying, TypeOK, StartAcquire, Poll, StartProbe, Ready
<1>7. QED
  BY <1>2, <1>3, <1>4, <1>5, <1>6 DEF ProcInv

\* Counting one more caller keeps the count the number of callers.
LEMMA OneMoreReference ==
  ASSUME IInv, NEW p \in Proc, NEW c \in Caller, proc[p] = "live", fd[p] # None,
         c \notin using[p],
         refs' = [refs EXCEPT ![p] = @ + 1], using' = [using EXCEPT ![p] = @ \union {c}],
         UNCHANGED <<proc, fd>>
  PROVE  CountInv(p)'
<1>1. ProcInv(p) /\ TypeOK
  BY DEF IInv
<1>2. IsFiniteSet(using[p]) /\ refs[p] = Cardinality(using[p])
  BY <1>1 DEF ProcInv, CountInv
<1>3. /\ IsFiniteSet(using[p] \union {c})
      /\ Cardinality(using[p] \union {c}) = Cardinality(using[p]) + 1
  BY <1>2, FS_AddElement
<1>4. refs'[p] = refs[p] + 1 /\ using'[p] = using[p] \union {c}
  BY <1>1 DEF TypeOK
<1>5. QED
  BY <1>2, <1>3, <1>4 DEF CountInv

\* A second reference within the process, by try_acquire or by acquire()'s poll.
LEMMA ReferenceSteps ==
  ASSUME IInv, NEW p \in Proc,
         (\E c \in Caller : Reenter(p, c)) \/ (Poll(p) /\ fd[p] # None)
  PROVE  NoConflict' /\ \A q \in Proc : ProcInv(q)'
<1> USE DEF GoTo, EndCall, waitVars, callVars
<1>0. ProcInv(p) /\ TypeOK
  BY DEF IInv
<1>1. /\ UNCHANGED <<ofd, at, proc, fd, ownerPid, waiter, annFd>>
      /\ proc[p] = "live"
      /\ pc'[p] \in {"idle", "leave"}
      /\ \A q \in Proc \ {p} :
           pc'[q] = pc[q] /\ op'[q] = op[q] /\ tryFd'[q] = tryFd[q] /\ who'[q] = who[q]
           /\ refs'[q] = refs[q] /\ using'[q] = using[q]
  BY <1>0 DEF Reenter, Poll, Ready, TypeOK
<1>2. NoConflict' /\ \A q \in Proc : Keeps(ofd', q)
  BY <1>1 DEF IInv, NoConflict, SameFile, Keeps, SameLock
<1>3. ASSUME NEW q \in Proc \ {p} PROVE ProcInv(q)'
  BY <1>1, <1>2, Frame DEF IInv, TypeOK
<1>4. OwnerInv(p)' /\ AnnouncementInv(p)' /\ CallInv(p)'
  BY <1>0, <1>1 DEF ProcInv, OwnerInv, Held, IsStillAt, AnnouncementInv, CallInv, Busying
<1>5. CountInv(p)'
  <2>1. CASE \E c \in Caller : Reenter(p, c)
    BY <2>1, OneMoreReference DEF Reenter, Ready
  <2>2. CASE Poll(p) /\ fd[p] # None
    <3>1. waiter[p] \in Caller
      BY <2>2, <1>0 DEF Poll, TypeOK
    <3>2. CASE waiter[p] \notin using[p]
      BY <2>2, <3>1, <3>2, OneMoreReference DEF Poll, Ready
    <3>3. QED
      BY <3>2, <2>2, <1>0 DEF ProcInv, WaiterInv, Poll, Ready
  <2>3. QED
    BY <2>1, <2>2
<1>6. WaiterInv(p)'
  <2>1. CASE \E c \in Caller : Reenter(p, c)
    BY <2>1, <1>0 DEF Reenter, Ready, ProcInv, WaiterInv, Busying, TypeOK
  <2>2. CASE Poll(p) /\ fd[p] # None
    BY <2>2, <1>0 DEF Poll, WaiterInv, Busying, TypeOK
  <2>3. QED
    BY <2>1, <2>2
<1>7. QED
  BY <1>2, <1>3, <1>4, <1>5, <1>6 DEF ProcInv

\* release preserves the invariant: only the last reference unlocks, and then no
\* caller uses the lease.
LEMMA ReleaseStep ==
  ASSUME IInv, NEW p \in Proc, NEW c \in Caller, Release(p, c)
  PROVE  NoConflict' /\ \A q \in Proc : ProcInv(q)'
<1> USE DEF waitVars, callVars
<1>0. /\ ProcInv(p) /\ TypeOK /\ ofd \in [Ofd -> OfdRecord]
      /\ proc[p] = "live" /\ pc[p] = "idle" /\ c \in using[p]
  BY DEF IInv, TypeOK, FileLockTypeOK, Release, Ready
<1>1. /\ fd[p] \in Ofd /\ Held(p) /\ ofd[fd[p]].by = p /\ ofd[fd[p]].file = "lease"
      /\ IsFiniteSet(using[p]) /\ refs[p] = Cardinality(using[p])
  BY <1>0 DEF ProcInv, OwnerInv, CountInv, Held
<1>2. /\ IsFiniteSet(using[p] \ {c})
      /\ Cardinality(using[p] \ {c}) = Cardinality(using[p]) - 1
  BY <1>0, <1>1, FS_RemoveElement
<1>3. /\ UNCHANGED <<at, proc, waiter, annFd, pc, op, who, tryFd>>
      /\ using' = [using EXCEPT ![p] = @ \ {c}]
      /\ \A q \in Proc \ {p} :
           /\ fd'[q] = fd[q] /\ ownerPid'[q] = ownerPid[q]
           /\ refs'[q] = refs[q] /\ using'[q] = using[q]
  BY <1>0 DEF Release, TypeOK
<1>4. WaiterInv(p)'
  BY <1>0, <1>3 DEF ProcInv, WaiterInv, Busying, TypeOK
<1>5. CallInv(p)'
  BY <1>0, <1>3 DEF CallInv, Busying
<1>6. CASE refs[p] > 1
  <2>1. UNCHANGED <<ofd, fd, ownerPid>> /\ refs' = [refs EXCEPT ![p] = @ - 1]
    BY <1>6 DEF Release
  <2>2. NoConflict' /\ \A q \in Proc : Keeps(ofd', q)
    BY <2>1 DEF IInv, NoConflict, SameFile, Keeps, SameLock
  <2>3. ASSUME NEW q \in Proc \ {p} PROVE ProcInv(q)'
    BY <1>3, <2>1, <2>2, Frame DEF IInv
  <2>4. OwnerInv(p)' /\ AnnouncementInv(p)'
    BY <1>0, <1>3, <2>1 DEF ProcInv, OwnerInv, Held, IsStillAt, AnnouncementInv
  <2>5. CountInv(p)'
    <3>1. using'[p] = using[p] \ {c} /\ refs'[p] = refs[p] - 1 /\ refs[p] \in Nat
      BY <1>0, <1>3, <2>1 DEF TypeOK
    <3>2. Cardinality({}) = 0
      BY FS_EmptySet
    <3>3. using'[p] # {}
      <4>1. Cardinality(using[p] \ {c}) # 0
        BY <3>1, <1>1, <1>2, <1>6
      <4>2. QED
        BY <3>1, <3>2, <4>1
    <3>4. fd'[p] # None /\ proc'[p] = "live"
      BY <1>0, <1>1, <1>3, <2>1 DEF Held
    <3>5. IsFiniteSet(using'[p]) /\ refs'[p] = Cardinality(using'[p])
      BY <3>1, <1>1, <1>2
    <3>6. QED
      BY <3>3, <3>4, <3>5 DEF CountInv
  <2>6. QED
    BY <2>2, <2>3, <2>4, <2>5, <1>4, <1>5 DEF ProcInv
<1>7. CASE ~ (refs[p] > 1)
  <2>1. /\ ofd' = WithReleased(p, fd[p]) /\ fd' = [fd EXCEPT ![p] = None]
        /\ refs' = [refs EXCEPT ![p] = 0] /\ ownerPid' = [ownerPid EXCEPT ![p] = None]
    BY <1>7 DEF Release
  <2>2. /\ NoConflict' /\ \A q \in Proc \ {p} : Keeps(ofd', q)
        /\ \A o \in Ofd \ {fd[p]} : ofd'[o] = ofd[o]
    BY <1>0, <1>1, <2>1, ReleasedKeeps, WeakerNoConflict DEF IInv
  <2>3. ASSUME NEW q \in Proc \ {p} PROVE ProcInv(q)'
    BY <1>3, <2>2, Frame DEF IInv
  <2>4. fd'[p] = None /\ refs'[p] = 0 /\ ownerPid'[p] = None
    BY <1>0, <2>1 DEF TypeOK
  <2>5. OwnerInv(p)'
    BY <2>4, <1>0, <1>3 DEF OwnerInv, Held
  <2>6. AnnouncementInv(p)'
    <3>1. annFd[p] # None => annFd[p] \in Ofd \ {fd[p]}
      BY <1>0, <1>1 DEF ProcInv, AnnouncementInv
    <3>2. QED
      BY <1>0, <1>3, <2>2, <3>1 DEF ProcInv, AnnouncementInv
  <2>7. CountInv(p)'
    <3>1. using'[p] = using[p] \ {c}
      BY <1>0, <1>3 DEF TypeOK
    <3>2. refs[p] # 0
      BY <1>0, <1>1, FS_EmptySet
    <3>3. Cardinality(using[p] \ {c}) = 0
      BY <3>2, <1>0, <1>1, <1>2, <1>7 DEF TypeOK
    <3>4. using[p] \ {c} = {}
      BY <3>3, <1>2, FS_EmptySet
    <3>5. QED
      BY <3>1, <3>4, <2>4, <1>2, FS_EmptySet DEF CountInv
  <2>8. QED
    BY <2>2, <2>3, <2>5, <2>6, <2>7, <1>4, <1>5 DEF ProcInv
<1>8. QED
  BY <1>6, <1>7

\* The end of acquire() closes the process's announcement and nothing else.
LEMMA LeaveStep ==
  ASSUME IInv, NEW p \in Proc, Leave(p)
  PROVE  NoConflict' /\ \A q \in Proc : ProcInv(q)'
<1> USE DEF leaseVars, GoTo, EndCall
<1>0. ProcInv(p) /\ TypeOK /\ ofd \in [Ofd -> OfdRecord]
  BY DEF IInv, TypeOK, FileLockTypeOK
<1>1. /\ NoConflict' /\ \A q \in Proc \ {p} : Keeps(ofd', q)
      /\ \A o \in Ofd : o # annFd[p] => ofd'[o] = ofd[o]
  <2>1. CASE annFd[p] = None
    BY <2>1 DEF Leave, WithdrawnOfd, IInv, NoConflict, SameFile, Keeps, SameLock
  <2>2. CASE annFd[p] # None
    <3>1. ofd' = WithReleased(p, annFd[p]) /\ annFd[p] \in Ofd /\ ofd[annFd[p]].by = p
      BY <1>0, <2>2 DEF Leave, WithdrawnOfd, ProcInv, AnnouncementInv
    <3>2. QED
      BY <1>0, <3>1, ReleasedKeeps, WeakerNoConflict DEF IInv
  <2>3. QED
    BY <2>1, <2>2
<1>2. ASSUME NEW q \in Proc \ {p} PROVE ProcInv(q)'
  BY <1>1, Frame DEF IInv, TypeOK, Leave
<1>3. OwnerInv(p)'
  <2>1. Held(p) => fd[p] \in Ofd /\ ofd'[fd[p]] = ofd[fd[p]]
    BY <1>0, <1>1, FileLockAssumption DEF ProcInv, OwnerInv, AnnouncementInv, Held
  <2>2. QED
    BY <1>0, <2>1 DEF Leave, ProcInv, OwnerInv, Held, IsStillAt
<1>4. CallInv(p)' /\ AnnouncementInv(p)' /\ CountInv(p)' /\ WaiterInv(p)'
  BY <1>0, ProfileLeaseAssumption DEF Leave, TypeOK, ProcInv, CallInv, AnnouncementInv, CountInv,
     WaiterInv, Busying
<1>5. QED
  BY <1>1, <1>2, <1>3, <1>4 DEF ProcInv

\* A process's life: a forked child has inherited state but owns nothing.
LEMMA ForkStep ==
  ASSUME IInv, NEW p \in Proc, NEW child \in Proc, Fork(p, child)
  PROVE  NoConflict' /\ \A q \in Proc : ProcInv(q)'
<1> USE DEF waitVars, callVars
<1>0. /\ ProcInv(p) /\ ProcInv(child) /\ TypeOK /\ ofd \in [Ofd -> OfdRecord]
      /\ proc[p] = "live" /\ proc[child] = "unborn" /\ p # child
  BY DEF IInv, TypeOK, FileLockTypeOK, Fork, Ready
<1>1. NoConflict' /\ \A q \in Proc : Keeps(ofd', q)
  BY <1>0, ForkedKeeps, WeakerNoConflict DEF IInv, Fork
<1>2. ASSUME NEW q \in Proc \ {child} PROVE ProcInv(q)'
  BY <1>1, Frame DEF IInv, TypeOK, Fork
<1>3. OwnerInv(child)'
  <2>1. ownerPid[p] \in {p, None}
    BY <1>0 DEF ProcInv, OwnerInv
  <2>2. proc'[child] = "forked" /\ ownerPid'[child] = ownerPid[p]
    BY <1>0 DEF Fork, TypeOK
  <2>3. QED
    BY <1>0, <2>1, <2>2, FileLockAssumption DEF OwnerInv, Held
<1>4. CallInv(child)' /\ AnnouncementInv(child)' /\ CountInv(child)' /\ WaiterInv(child)'
  BY <1>0 DEF Fork, TypeOK, ProcInv, CallInv, AnnouncementInv, CountInv, WaiterInv, Busying
<1>5. QED
  BY <1>1, <1>2, <1>3, <1>4 DEF ProcInv

\* _discard_inherited_leases: the child closes what it inherited; the parent's
\* lock stays.
LEMMA ForkHookStep ==
  ASSUME IInv, NEW child \in Proc, ForkHook(child)
  PROVE  NoConflict' /\ \A q \in Proc : ProcInv(q)'
<1> USE DEF waitVars, callVars
<1>0. ProcInv(child) /\ TypeOK /\ ofd \in [Ofd -> OfdRecord] /\ proc[child] = "forked"
  BY DEF IInv, TypeOK, FileLockTypeOK, ForkHook
<1>1. NoConflict' /\ \A q \in Proc \ {child} : Keeps(ofd', q)
  BY <1>0, ClosedKeeps, WeakerNoConflict DEF IInv, ForkHook
<1>2. ASSUME NEW q \in Proc \ {child} PROVE ProcInv(q)'
  BY <1>1, Frame DEF IInv, TypeOK, ForkHook
<1>3. OwnerInv(child)'
  BY <1>0 DEF ForkHook, TypeOK, OwnerInv, Held
<1>4. CallInv(child)' /\ AnnouncementInv(child)' /\ WaiterInv(child)'
  BY <1>0 DEF ForkHook, TypeOK, ProcInv, CallInv, AnnouncementInv, WaiterInv, Busying
<1>5. CountInv(child)'
  BY <1>0, FS_EmptySet DEF ForkHook, TypeOK, ProcInv, CountInv
<1>6. QED
  BY <1>1, <1>2, <1>3, <1>4, <1>5 DEF ProcInv

\* The kernel closes a dead process's descriptors: others keep what they opened.
LEMMA DieStep ==
  ASSUME IInv, NEW p \in Proc, Die(p)
  PROVE  NoConflict' /\ \A q \in Proc : ProcInv(q)'
<1> USE DEF EndCall, GoTo
<1>0. ProcInv(p) /\ TypeOK /\ ofd \in [Ofd -> OfdRecord]
  BY DEF IInv, TypeOK, FileLockTypeOK
<1>1. NoConflict' /\ \A q \in Proc \ {p} : Keeps(ofd', q)
  BY <1>0, ClosedKeeps, WeakerNoConflict DEF IInv, Die
<1>2. ASSUME NEW q \in Proc \ {p} PROVE ProcInv(q)'
  BY <1>1, Frame DEF IInv, TypeOK, Die
<1>3. OwnerInv(p)' /\ CallInv(p)' /\ AnnouncementInv(p)' /\ WaiterInv(p)'
  BY <1>0 DEF Die, TypeOK, OwnerInv, Held, CallInv, AnnouncementInv, WaiterInv, Busying
<1>4. CountInv(p)'
  BY <1>0, FS_EmptySet DEF Die, TypeOK, CountInv
<1>5. QED
  BY <1>1, <1>2, <1>3, <1>4 DEF ProcInv

\* A replaced lock file changes no lock; under an owner it needs ReplaceHeld.
LEMMA ReplaceStep ==
  ASSUME IInv, NEW f \in File, ReplaceFile(f)
  PROVE  NoConflict' /\ \A q \in Proc : ProcInv(q)'
<1> USE DEF ReplaceFile, Replace, leaseVars, waitVars, callVars
<1>1. NoConflict'
  BY DEF IInv, NoConflict, SameFile
<1>2. ASSUME NEW q \in Proc PROVE ProcInv(q)'
  <2>0. ProcInv(q) /\ at \in [File -> Nat]
    BY DEF IInv, TypeOK, FileLockTypeOK
  <2>1. OwnerInv(q)'
    <3>1. ~ ReplaceHeld /\ Held(q) => at'["lease"] = at["lease"]
      BY <2>0, ProfileLeaseAssumption
    <3>2. QED
      BY <2>0, <3>1 DEF ProcInv, OwnerInv, Held, IsStillAt
  <2>2. CallInv(q)' /\ AnnouncementInv(q)' /\ CountInv(q)' /\ WaiterInv(q)'
    BY <2>0 DEF ProcInv, CallInv, AnnouncementInv, CountInv, WaiterInv, Busying
  <2>3. QED
    BY <2>1, <2>2 DEF ProcInv
<1>3. QED
  BY <1>1, <1>2

-----------------------------------------------------------------------------
\* ProfileLease's inductive invariant holds in every reachable state: whatever the
\* callers, acquire_locked_fd, forks, deaths and replaced files do, each
\* process's descriptors, reference count and announcement stay its own.
THEOREM Inductive == Spec => []IInv
<1>1. Init => IInv
  <2> SUFFICES ASSUME Init PROVE IInv
    OBVIOUS
  <2>1. TypeOK /\ CallShape
    BY FileLockAssumption, ProfileLeaseAssumption
       DEF Init, TypeOK, CallShape, Busying, FileLockInit, FileLockTypeOK, OfdRecord, Closed, Mode,
           Pc, Op
  <2>2. NoConflict
    BY DEF Init, FileLockInit, Closed, NoConflict, Conflict
  <2>3. ASSUME NEW p \in Proc PROVE ProcInv(p)
    BY FS_EmptySet DEF Init, ProcInv, OwnerInv, CallInv, AnnouncementInv, CountInv, WaiterInv,
                       Held, Busying
  <2>4. QED
    BY <2>1, <2>2, <2>3 DEF IInv
<1>2. IInv /\ (TypeOK /\ CallShape)' /\ [Next]_vars => IInv'
  <2> SUFFICES ASSUME IInv, (TypeOK /\ CallShape)', [Next]_vars
               PROVE  NoConflict' /\ \A q \in Proc : ProcInv(q)'
    BY DEF IInv
  <2>1. CASE UNCHANGED vars
    BY <2>1 DEF vars, leaseVars, waitVars, callVars, IInv, NoConflict, SameFile, ProcInv, OwnerInv,
                CallInv, AnnouncementInv, CountInv, WaiterInv, Held, Busying, IsStillAt
  <2>2. ASSUME NEW f \in File, ReplaceFile(f)
        PROVE  NoConflict' /\ \A q \in Proc : ProcInv(q)'
    BY <2>2, ReplaceStep
  <2>3. ASSUME NEW p \in Proc, AcquireStep(p)
        PROVE  NoConflict' /\ \A q \in Proc : ProcInv(q)'
    BY <2>3, OpenStep, TryLockStep, AcquiredStep, AnnouncedStep, GiveBackSteps DEF AcquireStep
  <2>4. ASSUME NEW p \in Proc, CallerStep(p)
        PROVE  NoConflict' /\ \A q \in Proc : ProcInv(q)'
    BY <2>4, CallStarts, ReferenceSteps, ReleaseStep, LeaveStep DEF CallerStep
  <2>5. ASSUME NEW p \in Proc, Lifecycle(p)
        PROVE  NoConflict' /\ \A q \in Proc : ProcInv(q)'
    BY <2>5, ForkStep, ForkHookStep, DieStep DEF Lifecycle
  <2>6. QED
    BY <2>1, <2>2, <2>3, <2>4, <2>5 DEF Next
<1>3. QED
  BY <1>1, <1>2, Typing, PTL DEF Spec

\* Two owners would hold conflicting locks on the file the path names: the
\* identity check of acquire_locked_fd excludes that however often profile.lock
\* is replaced.
LEMMA ExclusionFromInvariant == IInv => LiveExclusion /\ MutualExclusion
<1>a. SUFFICES ASSUME IInv PROVE LiveExclusion /\ MutualExclusion
  OBVIOUS
<1>b. ~ ReplaceHeld => \A p \in Proc : Held(p) => IsStillAt(fd[p])
  BY <1>a DEF IInv, ProcInv, OwnerInv
<1> SUFFICES ASSUME NEW p \in Proc, NEW q \in Proc, p # q, Held(p), Held(q),
                    IsStillAt(fd[p]), IsStillAt(fd[q])
             PROVE  FALSE
  BY <1>b DEF LiveExclusion, MutualExclusion
<1>1. /\ fd[p] \in Ofd /\ ofd[fd[p]].by = p /\ ofd[fd[p]].file = "lease" /\ ofd[fd[p]].mode = "ex"
      /\ fd[q] \in Ofd /\ ofd[fd[q]].by = q /\ ofd[fd[q]].file = "lease" /\ ofd[fd[q]].mode = "ex"
  BY <1>a DEF IInv, ProcInv, OwnerInv
<1>2. fd[p] # fd[q] /\ SameFile(fd[p], fd[q])
  BY <1>1 DEF SameFile, IsStillAt
<1>3. QED
  BY <1>a, <1>1, <1>2 DEF IInv, NoConflict, Conflict

\* At most one process owns the profile, for any number of processes, callers
\* and forks, when profile.lock is not replaced under an owner (ProfileLease).
THEOREM Exclusive == Spec => []MutualExclusion
BY Inductive, ExclusionFromInvariant, PTL

\* At most one process owns the profile through the file at the path, whatever
\* is replaced when (acquire_locked_fd's check that the file is still there).
THEOREM LiveExclusive == Spec => []LiveExclusion
BY Inductive, ExclusionFromInvariant, PTL

\* The kernel's lock covers every caller between its try_acquire and its
\* release, and the reference count is their number.
THEOREM Covered == Spec => []CallersCovered
<1>1. IInv => CallersCovered
  BY DEF IInv, ProcInv, OwnerInv, CountInv, CallersCovered, Held
<1>2. QED
  BY <1>1, Inductive, PTL

\* handoff_requested never answers that nobody waits while some process has an
\* announcement on the handoff file at the path.
THEOREM WaiterSeen == Spec => AnnouncedWaiterSeen
<1>1. IInv /\ [Next]_vars =>
        [\A p \in Proc : NobodyWaits(p) /\ Succeeds(p) =>
           \A q \in Proc : annFd[q] # None => ~ IsStillAt(annFd[q])]_vars
  <2> SUFFICES ASSUME IInv, NEW p \in Proc, NobodyWaits(p), Succeeds(p),
                      NEW q \in Proc, annFd[q] # None, IsStillAt(annFd[q])
               PROVE  FALSE
    OBVIOUS
  <2>1. /\ tryFd[p] \in Ofd /\ ofd[tryFd[p]].file = FileOf(op[p])
        /\ ofd[tryFd[p]].mode = ModeOf(op[p]) /\ IsStillAt(tryFd[p]) /\ op[p] = "probe"
    BY DEF IInv, ProcInv, CallInv, NobodyWaits, ProbeEnds, Succeeds
  <2>2. ofd[tryFd[p]].file = "handoff" /\ ofd[tryFd[p]].mode = "ex"
    BY <2>1 DEF FileOf, ModeOf
  <2>3. annFd[q] \in Ofd /\ ofd[annFd[q]].file = "handoff" /\ ofd[annFd[q]].mode = "sh"
    BY DEF IInv, ProcInv, AnnouncementInv
  <2>4. tryFd[p] # annFd[q] /\ SameFile(tryFd[p], annFd[q])
    BY <2>1, <2>2, <2>3 DEF SameFile, IsStillAt
  <2>5. QED
    BY <2>1, <2>2, <2>3, <2>4 DEF IInv, NoConflict, Conflict
<1>2. QED
  BY <1>1, Inductive, PTL DEF Spec, AnnouncedWaiterSeen

-----------------------------------------------------------------------------
\* Every descriptor a process has of a profile.lock is the one its lease or its
\* acquire_locked_fd names: none is left behind by a retry, a release, a fork
\* or a death.
Accounted ==
  \A o \in Ofd : \A p \in ofd[o].open :
    ofd[o].file = "lease" => fd[p] = o \/ tryFd[p] = o

\* acquire_locked_fd has a descriptor only between its open and its end.
TryShape == \A p \in Proc : tryFd[p] # None => pc[p] \in {"lock", "granted", "refused"}

OrphanInv == LocksOpen(ofd) /\ TryShape /\ Accounted

\* The new table t has every OFD of the file it was of, open to the processes
\* that had it open, except that p has given up what is in S.
GivesUp(t, p, S) ==
  \A o \in Ofd : \A q \in t[o].open :
    q \in ofd[o].open /\ t[o].file = ofd[o].file /\ ~ (q = p /\ o \in S)

\* Closing gives up what it closes and leaves no lock without a descriptor.
LEMMA ClosedGivesUp ==
  ASSUME ofd \in [Ofd -> OfdRecord], NEW p \in Proc, NEW S, LocksOpen(ofd)
  PROVE  LocksOpen(WithClosed(p, S)) /\ GivesUp(WithClosed(p, S), p, S)
<1> DEFINE t == WithClosed(p, S)
<1>1. /\ LocksOpen(t)
      /\ \A q \in Proc \ {p} : Untouched(t, q)
      /\ \A o \in Ofd : p \in t[o].open <=> o \notin S /\ p \in ofd[o].open
      /\ \A o \in Ofd : t[o].open # {} => SameLock(t, o)
  BY ClosedTable
<1>2. t \in [Ofd -> OfdRecord]
  BY ClosedTyping
<1> HIDE DEF t
<1>3. ASSUME NEW o \in Ofd, NEW q \in t[o].open
      PROVE  q \in ofd[o].open /\ t[o].file = ofd[o].file /\ ~ (q = p /\ o \in S)
  <2>1. q \in Proc
    <3>1. t[o] \in OfdRecord
      BY <1>2
    <3>2. QED
      BY <3>1, <1>3 DEF OfdRecord
  <2>2. t[o].file = ofd[o].file
    BY <1>1, <1>3 DEF SameLock
  <2>3. QED
    BY <1>1, <1>3, <2>1, <2>2 DEF Untouched
<1>4. GivesUp(t, p, S)
  BY <1>3 DEF GivesUp
<1>5. QED
  BY <1>1, <1>4 DEF t

\* Unlocking as well takes a lock more and no descriptor more.
LEMMA ReleasedGivesUp ==
  ASSUME ofd \in [Ofd -> OfdRecord], NEW p \in Proc, NEW o \in Ofd, LocksOpen(ofd)
  PROVE  LocksOpen(WithReleased(p, o)) /\ GivesUp(WithReleased(p, o), p, {o})
<1> DEFINE t == WithClosed(p, {o})
           u == WithReleased(p, o)
<1>1. t \in [Ofd -> OfdRecord]
  BY ClosedTyping
<1>2. LocksOpen(t) /\ GivesUp(t, p, {o})
  BY ClosedGivesUp
<1>3. u = [t EXCEPT ![o].mode = "none"]
  BY DEF WithReleased
<1> HIDE DEF t, u
<1>4. ASSUME NEW other \in Ofd
      PROVE  /\ u[other].open = t[other].open /\ u[other].file = t[other].file
             /\ u[other].mode \in {t[other].mode, "none"}
  <2>1. CASE other # o
    BY <2>1, <1>1, <1>3
  <2>2. CASE other = o
    <3>1. u[o] = [t[o] EXCEPT !.mode = "none"] /\ t[o] \in OfdRecord
      BY <1>1, <1>3
    <3>2. QED
      BY <2>2, <3>1 DEF OfdRecord
  <2>3. QED
    BY <2>1, <2>2
<1>5. LocksOpen(u)
  BY <1>2, <1>4 DEF LocksOpen
<1>6. GivesUp(u, p, {o})
  BY <1>2, <1>4 DEF GivesUp
<1>7. QED
  BY <1>5, <1>6 DEF u

\* What gives up a descriptor forgets it, and what forgets one gives it up.
LEMMA GivingUp ==
  ASSUME TypeOK, OrphanInv, NEW p \in Proc, NEW S,
         LocksOpen(ofd'), GivesUp(ofd', p, S), TryShape',
         \A q \in Proc \ {p} : fd'[q] = fd[q] /\ tryFd'[q] = tryFd[q],
         \A o \in Ofd \ S : fd[p] = o => fd'[p] = o,
         \A o \in Ofd \ S : tryFd[p] = o => fd'[p] = o \/ tryFd'[p] = o
  PROVE  OrphanInv'
<1>1. ASSUME NEW o \in Ofd, NEW q \in ofd'[o].open, ofd'[o].file = "lease"
      PROVE  fd'[q] = o \/ tryFd'[q] = o
  <2>1. q \in ofd[o].open /\ ofd[o].file = "lease" /\ ~ (q = p /\ o \in S)
    BY <1>1 DEF GivesUp
  <2>2. fd[q] = o \/ tryFd[q] = o
    BY <2>1 DEF OrphanInv, Accounted
  <2>3. q \in Proc
    <3>1. ofd[o] \in OfdRecord
      BY DEF TypeOK, FileLockTypeOK
    <3>2. QED
      BY <2>1, <3>1 DEF OfdRecord
  <2>4. CASE q = p
    BY <2>1, <2>2, <2>4
  <2>5. CASE q # p
    BY <2>2, <2>3, <2>5
  <2>6. QED
    BY <2>4, <2>5
<1>2. QED
  BY <1>1 DEF OrphanInv, Accounted

\* A table that stays gives up nothing.
LEMMA SameGivesUp ==
  ASSUME TypeOK, OrphanInv, NEW p \in Proc, ofd' = ofd
  PROVE  LocksOpen(ofd') /\ GivesUp(ofd', p, {})
BY DEF OrphanInv, GivesUp, LocksOpen

\* acquire_locked_fd opens, locks and gives back only its own descriptor; when it
\* succeeds the lease or the announcement takes it over.
LEMMA AcquireOrphan ==
  ASSUME IInv, OrphanInv, NEW p \in Proc, AcquireStep(p)
  PROVE  OrphanInv'
<1>0. /\ TypeOK /\ LocksOpen(ofd) /\ ofd \in [Ofd -> OfdRecord] /\ ProcInv(p)
      /\ TryShape
  BY DEF IInv, OrphanInv, TypeOK, FileLockTypeOK
<1>1. CASE Open(p)
  <2>1. PICK o \in Ofd : OpenFile(p, FileOf(op[p]), o) /\ tryFd' = [tryFd EXCEPT ![p] = o]
    BY <1>1 DEF Open
  <2>2. /\ LocksOpen(ofd')
        /\ \A other \in Ofd \ {o} : ofd'[other] = ofd[other]
        /\ ofd'[o].open = {p}
    <3>1. FileOf(op[p]) \in File
      BY ProfileLeaseAssumption DEF FileOf
    <3>2. QED
      BY <1>0, <2>1, <3>1, OpenedTable
  <2>3. tryFd[p] = None
    BY <1>0, <1>1 DEF TryShape, Open
  <2>4. TryShape'
    BY <1>0, <1>1, <2>1 DEF TryShape, Open, GoTo, TypeOK
  <2>5. ASSUME NEW x \in Ofd, NEW q \in ofd'[x].open, ofd'[x].file = "lease"
        PROVE  fd'[q] = x \/ tryFd'[q] = x
    <3>1. CASE x = o
      BY <3>1, <2>1, <2>2, <2>5, <1>0 DEF TypeOK
    <3>2. CASE x # o
      <4>1. fd[q] = x \/ tryFd[q] = x
        BY <3>2, <2>2, <2>5 DEF OrphanInv, Accounted
      <4>2. fd' = fd
        BY <1>1 DEF Open, leaseVars
      <4>3. q = p => tryFd[q] # x
        BY <2>3, FileLockAssumption
      <4>4. q # p => tryFd'[q] = tryFd[q]
        BY <2>1, <1>0 DEF TypeOK
      <4>5. QED
        BY <4>1, <4>2, <4>3, <4>4
    <3>3. QED
      BY <3>1, <3>2
  <2>6. QED
    BY <2>2, <2>4, <2>5 DEF OrphanInv, Accounted
<1>2. CASE TryLock(p)
  <2>0. /\ UNCHANGED <<fd, tryFd>> /\ TryShape'
        /\ tryFd[p] \in Ofd /\ p \in ofd[tryFd[p]].open
    BY <1>0, <1>2 DEF TryLock, GoTo, TypeOK, TryShape, leaseVars, ProcInv, CallInv
  <2>1. CASE ofd' = ofd
    BY <2>0, <2>1, <1>0, SameGivesUp, GivingUp
  <2>2. CASE Grantable(tryFd[p], ModeOf(op[p])) /\ Lock(tryFd[p], ModeOf(op[p]))
    <3>1. ModeOf(op[p]) \in Mode
      BY DEF ModeOf, Mode
    <3>2. /\ LocksOpen(ofd')
          /\ \A other \in Ofd \ {tryFd[p]} : ofd'[other] = ofd[other]
          /\ ofd'[tryFd[p]].open = ofd[tryFd[p]].open
          /\ ofd'[tryFd[p]].file = ofd[tryFd[p]].file
      BY <1>0, <2>0, <2>2, <3>1, LockedTable
    <3>3. GivesUp(ofd', p, {})
      BY <3>2, <2>0 DEF GivesUp
    <3>4. QED
      BY <2>0, <3>2, <3>3, <1>0, GivingUp
  <2>3. QED
    BY <1>2, <2>1, <2>2 DEF TryLock
<1>3. CASE Acquired(p) \/ (Announced(p) /\ Succeeds(p))
  <2>1. CASE Acquired(p)
    <3>1. /\ ofd' = ofd /\ fd'[p] = tryFd[p] /\ fd[p] = None /\ TryShape'
          /\ \A q \in Proc \ {p} : fd'[q] = fd[q] /\ tryFd'[q] = tryFd[q]
      BY <1>0, <2>1 DEF Acquired, Succeeds, EndCall, GoTo, TypeOK, TryShape, ProcInv, CallInv, Busying
    <3>2. \A o \in Ofd : fd[p] # o
      BY <3>1, FileLockAssumption
    <3>3. QED
      BY <3>1, <3>2, <1>0, SameGivesUp, GivingUp
  <2>2. CASE Announced(p) /\ Succeeds(p)
    <3>1. /\ ofd' = ofd /\ fd' = fd /\ TryShape'
          /\ \A q \in Proc \ {p} : tryFd'[q] = tryFd[q]
      BY <1>0, <2>2 DEF Announced, Succeeds, Busy, Unavailable, EndCall, GoTo, TypeOK, TryShape,
                        leaseVars
    <3>2. tryFd[p] \in Ofd /\ ofd[tryFd[p]].file = "handoff"
      BY <1>0, <2>2 DEF Announced, Succeeds, ProcInv, CallInv, FileOf
    <3>3. GivesUp(ofd', p, {}) /\ LocksOpen(ofd')
      BY <3>1, <1>0, SameGivesUp
    <3>4. ASSUME NEW o \in Ofd, NEW q \in ofd'[o].open, ofd'[o].file = "lease"
          PROVE  fd'[q] = o \/ tryFd'[q] = o
      <4>1. fd[q] = o \/ tryFd[q] = o
        BY <3>1, <3>4 DEF OrphanInv, Accounted
      <4>2. q \in Proc
        <5>1. ofd[o] \in OfdRecord
          BY <1>0
        <5>2. QED
          BY <5>1, <3>1, <3>4 DEF OfdRecord
      <4>3. q = p => tryFd[q] # o
        BY <3>1, <3>2, <3>4
      <4>4. QED
        BY <3>1, <4>1, <4>2, <4>3
    <3>5. QED
      BY <3>1, <3>3, <3>4 DEF OrphanInv, Accounted
  <2>3. QED
    BY <1>3, <2>1, <2>2
<1>4. CASE \/ Retry(p) \/ NotAcquired(p) \/ StartWaiting(p) \/ PollFailed(p)
           \/ NobodyWaits(p) \/ SomebodyWaits(p) \/ (Announced(p) /\ ~ Succeeds(p))
  <2>1. proc[p] = "live" /\ pc[p] \in {"granted", "refused"} /\ ofd' = WithReleased(p, tryFd[p])
    BY <1>4 DEF Retry, NotAcquired, StartWaiting, PollFailed, NobodyWaits, SomebodyWaits, ProbeEnds,
           Announced, Busy, Unavailable, Succeeds
  <2>2. tryFd[p] \in Ofd
    BY <1>0, <2>1 DEF ProcInv, CallInv
  <2>3. LocksOpen(ofd') /\ GivesUp(ofd', p, {tryFd[p]})
    BY <1>0, <2>1, <2>2, ReleasedGivesUp
  <2>4. /\ fd' = fd /\ tryFd' = [tryFd EXCEPT ![p] = None]
        /\ \A q \in Proc \ {p} : pc'[q] = pc[q]
    BY <1>0, <1>4 DEF TypeOK, Retry, NotAcquired, StartWaiting, PollFailed, NobodyWaits,
       SomebodyWaits, ProbeEnds, Announced, leaseVars, GoTo, EndCall, StartCall
  <2>5. TryShape'
    BY <1>0, <2>4 DEF TryShape, TypeOK
  <2>6. \A q \in Proc \ {p} : tryFd'[q] = tryFd[q]
    BY <1>0, <2>4 DEF TypeOK
  <2>7. QED
    BY <1>0, <2>3, <2>4, <2>5, <2>6, GivingUp
<1>5. QED
  BY <1>1, <1>2, <1>3, <1>4 DEF AcquireStep

\* The callers' steps give up the lease's descriptor, with the last reference,
\* or the announcement's, when acquire() ends.
LEMMA CallerOrphan ==
  ASSUME IInv, OrphanInv, NEW p \in Proc, CallerStep(p)
  PROVE  OrphanInv'
<1>0. /\ TypeOK /\ LocksOpen(ofd) /\ ofd \in [Ofd -> OfdRecord] /\ ProcInv(p) /\ TryShape
  BY DEF IInv, OrphanInv, TypeOK, FileLockTypeOK
<1>1. pc[p] \in {"idle", "leave"} /\ tryFd[p] = None
  BY <1>0 DEF CallerStep, Reenter, Release, StartAcquire, Poll, StartProbe, Leave, Ready, TryShape
<1>2. \A q \in Proc \ {p} : pc'[q] = pc[q] /\ tryFd'[q] = tryFd[q]
  BY <1>0 DEF CallerStep, Reenter, Release, StartAcquire, Poll, StartProbe, Leave, StartCall, EndCall,
     GoTo, callVars, TypeOK
<1>3. tryFd'[p] = None
  BY <1>0, <1>1 DEF CallerStep, Reenter, Release, StartAcquire, Poll, StartProbe, Leave, StartCall,
     EndCall, GoTo, callVars, TypeOK
<1>4. TryShape'
  BY <1>0, <1>2, <1>3 DEF TryShape
<1>5. \A o \in Ofd : tryFd[p] # o
  BY <1>1, FileLockAssumption
<1>6. CASE UNCHANGED <<ofd, fd>>
  BY <1>0, <1>2, <1>4, <1>5, <1>6, SameGivesUp, GivingUp
<1>7. ASSUME NEW c \in Caller, Release(p, c) PROVE OrphanInv'
  <2>1. CASE refs[p] > 1
    BY <1>6, <1>7, <2>1 DEF Release
  <2>2. CASE ~ (refs[p] > 1)
    <3>1. ofd' = WithReleased(p, fd[p]) /\ fd' = [fd EXCEPT ![p] = None] /\ c \in using[p]
      BY <1>7, <2>2 DEF Release
    <3>2. fd[p] \in Ofd
      BY <1>0, <1>7, <3>1 DEF Release, Ready, ProcInv, CountInv, TypeOK
    <3>3. LocksOpen(ofd') /\ GivesUp(ofd', p, {fd[p]})
      BY <1>0, <3>1, <3>2, ReleasedGivesUp
    <3>4. \A q \in Proc \ {p} : fd'[q] = fd[q]
      BY <1>0, <3>1 DEF TypeOK
    <3>5. QED
      BY <1>0, <1>2, <1>4, <1>5, <3>3, <3>4, GivingUp
  <2>3. QED
    BY <2>1, <2>2
<1>8. CASE Leave(p)
  <2>1. fd' = fd
    BY <1>8 DEF Leave, leaseVars
  <2>2. CASE annFd[p] = None
    BY <1>6, <1>8, <2>1, <2>2 DEF Leave, WithdrawnOfd
  <2>3. CASE annFd[p] # None
    <3>1. ofd' = WithReleased(p, annFd[p]) /\ annFd[p] \in Ofd /\ ofd[annFd[p]].file = "handoff"
      BY <1>0, <1>8, <2>3 DEF Leave, WithdrawnOfd, ProcInv, AnnouncementInv
    <3>2. LocksOpen(ofd') /\ GivesUp(ofd', p, {annFd[p]})
      BY <1>0, <3>1, ReleasedGivesUp
    <3>3. QED
      BY <1>0, <1>2, <1>4, <1>5, <2>1, <3>2, GivingUp
  <2>4. QED
    BY <2>2, <2>3
<1>9. QED
  BY <1>6, <1>7, <1>8 DEF CallerStep, Reenter, StartAcquire, Poll, StartProbe, leaseVars

\* A forked child has of profile.lock what its parent's lease has, until its
\* hook closes it; the dead have nothing.
LEMMA LifeOrphan ==
  ASSUME IInv, OrphanInv, NEW p \in Proc, Lifecycle(p)
  PROVE  OrphanInv'
<1>0. /\ TypeOK /\ LocksOpen(ofd) /\ ofd \in [Ofd -> OfdRecord] /\ ProcInv(p) /\ TryShape
  BY DEF IInv, OrphanInv, TypeOK, FileLockTypeOK
<1>1. CASE ForkHook(p)
  <2>1. /\ fd' = [fd EXCEPT ![p] = None] /\ UNCHANGED <<pc, tryFd>>
        /\ ofd' = WithClosed(p, {fd[p]})
    BY <1>1 DEF ForkHook, callVars
  <2>2. LocksOpen(ofd') /\ GivesUp(ofd', p, {fd[p]})
    BY <1>0, <2>1, ClosedGivesUp
  <2>3. TryShape'
    BY <1>0, <2>1 DEF TryShape
  <2>4. \A q \in Proc \ {p} : fd'[q] = fd[q]
    BY <1>0, <2>1 DEF TypeOK
  <2>5. QED
    BY <1>0, <2>1, <2>2, <2>3, <2>4, GivingUp
<1>2. CASE Die(p)
  <2>1. LocksOpen(ofd') /\ GivesUp(ofd', p, Ofd)
    BY <1>0, <1>2, ClosedGivesUp DEF Die
  <2>2. TryShape' /\ \A q \in Proc \ {p} : fd'[q] = fd[q] /\ tryFd'[q] = tryFd[q]
    BY <1>0, <1>2 DEF Die, EndCall, GoTo, TypeOK, TryShape
  <2>3. QED
    BY <1>0, <2>1, <2>2, GivingUp
<1>3. ASSUME NEW child \in Proc, Fork(p, child) PROVE OrphanInv'
  <2>1. /\ pc[p] = "idle" /\ tryFd[p] = None /\ proc[child] = "unborn"
        /\ ProcInv(child) /\ UNCHANGED <<pc, tryFd>> /\ ofd' = WithForked(p, child)
        /\ fd' = [fd EXCEPT ![child] = fd[p]]
    BY <1>0, <1>3 DEF Fork, Ready, TryShape, callVars, IInv
  <2>2. fd[child] = None /\ tryFd[child] = None
    BY <1>0, <2>1 DEF ProcInv, OwnerInv, CallInv, TryShape
  <2>3. SharedWith(ofd', child, {o \in Ofd : p \in ofd[o].open})
    BY <1>0, <2>1, ForkShares
  <2>4. LocksOpen(ofd') /\ TryShape'
    BY <1>0, <2>1, <2>3 DEF SharedWith, SameLock, LocksOpen, TryShape
  <2>5. ASSUME NEW o \in Ofd, NEW q \in ofd'[o].open, ofd'[o].file = "lease"
        PROVE  fd'[q] = o \/ tryFd'[q] = o
    <3>1. ofd[o].file = "lease" /\ (q \in ofd[o].open \/ (q = child /\ p \in ofd[o].open))
      BY ZenonT(60), <2>3, <2>5 DEF SharedWith, SameLock
    <3>2. CASE q # child
      BY <1>0, <2>1, <3>1, <3>2 DEF OrphanInv, Accounted, TypeOK
    <3>3. CASE q = child
      <4>1. child \notin ofd[o].open
        BY <2>2, <3>1, FileLockAssumption DEF OrphanInv, Accounted
      <4>2. fd[p] = o
        BY <2>1, <3>1, <3>3, <4>1, FileLockAssumption DEF OrphanInv, Accounted
      <4>3. QED
        BY <1>0, <2>1, <3>3, <4>2 DEF TypeOK
    <3>4. QED
      BY <3>2, <3>3
  <2>6. QED
    BY <2>4, <2>5 DEF OrphanInv, Accounted
<1>4. QED
  BY <1>1, <1>2, <1>3 DEF Lifecycle

\* No lock on profile.lock outlives its purpose, through any interleaving of
\* acquisitions, forks and deaths: some process owns the lease through it, is
\* about to, or is a forked child whose hook has yet to close it.
THEOREM NoneOrphaned == Spec => []NoOrphanLock
<1>1. Init => OrphanInv
  BY DEF Init, FileLockInit, Closed, OrphanInv, LocksOpen, TryShape, Accounted
<1>2. IInv /\ OrphanInv /\ [Next]_vars => OrphanInv'
  <2> SUFFICES ASSUME IInv, OrphanInv, [Next]_vars PROVE OrphanInv'
    OBVIOUS
  <2>1. CASE UNCHANGED vars
    BY <2>1 DEF vars, leaseVars, callVars, OrphanInv, LocksOpen, TryShape, Accounted
  <2>2. ASSUME NEW f \in File, ReplaceFile(f) PROVE OrphanInv'
    BY <2>2 DEF ReplaceFile, leaseVars, callVars, OrphanInv, LocksOpen, TryShape, Accounted
  <2>3. QED
    BY <2>1, <2>2, AcquireOrphan, CallerOrphan, LifeOrphan DEF Next
<1>3. IInv /\ OrphanInv => NoOrphanLock
  <2> SUFFICES ASSUME IInv, OrphanInv, NEW o \in Ofd, ofd[o].file = "lease", ofd[o].mode = "ex"
               PROVE  \E p \in ofd[o].open :
                        (Held(p) /\ fd[p] = o) \/ tryFd[p] = o \/ proc[p] = "forked"
    BY DEF NoOrphanLock
  <2>1. PICK p \in ofd[o].open : TRUE
    BY DEF OrphanInv, LocksOpen
  <2>2. fd[p] = o \/ tryFd[p] = o
    BY <2>1 DEF OrphanInv, Accounted
  <2>3. p \in Proc
    <3>1. ofd[o] \in OfdRecord
      BY DEF IInv, TypeOK, FileLockTypeOK
    <3>2. QED
      BY <3>1 DEF OfdRecord
  <2>4. fd[p] = o => Held(p) \/ proc[p] = "forked"
    BY <2>3, FileLockAssumption DEF IInv, TypeOK, ProcInv, OwnerInv, Held
  <2>5. QED
    BY <2>2, <2>4
<1>4. QED
  BY <1>1, <1>2, <1>3, Inductive, PTL DEF Spec

-----------------------------------------------------------------------------
\* A step changes the ownership of one process at most.
LEMMA OneOwnerMoves ==
  ASSUME IInv, [Next]_vars
  PROVE  \E p \in Proc \union {None} : \A q \in Proc \ {p} : Held(q)' = Held(q)
<1> USE DEF leaseVars, waitVars, callVars
<1>0. TypeOK
  BY DEF IInv
<1>1. CASE UNCHANGED <<fd, ownerPid>>
  BY <1>1 DEF Held
<1>2. ASSUME NEW p \in Proc, \/ Acquired(p) \/ Die(p) \/ ForkHook(p)
                             \/ \E c \in Caller : Release(p, c)
      PROVE  \A q \in Proc \ {p} : Held(q)' = Held(q)
  BY <1>0, <1>2 DEF TypeOK, Acquired, Die, ForkHook, Release, Held
<1>3. ASSUME NEW p \in Proc, NEW child \in Proc, Fork(p, child)
      PROVE  \A q \in Proc \ {child} : Held(q)' = Held(q)
  BY <1>0, <1>3 DEF TypeOK, Fork, Held
<1>4. CASE \E p \in Proc : AcquireStep(p)
  BY <1>4, <1>1, <1>2 DEF AcquireStep, Open, TryLock, Retry, NotAcquired, StartWaiting, Announced,
     PollFailed, NobodyWaits, SomebodyWaits, ProbeEnds
<1>5. CASE \E p \in Proc : CallerStep(p)
  BY <1>5, <1>1, <1>2 DEF CallerStep, Reenter, StartAcquire, Poll, StartProbe, Leave
<1>6. CASE \E p \in Proc : Lifecycle(p)
  BY <1>6, <1>2, <1>3 DEF Lifecycle
<1>7. CASE (\E f \in File : ReplaceFile(f)) \/ UNCHANGED vars
  BY <1>7, <1>1 DEF ReplaceFile, vars
<1>8. QED
  BY <1>4, <1>5, <1>6, <1>7 DEF Next

\* The lease implements exclusive ownership of the profile, ProfileOwnership,
\* with the processes whose held is true as the owners.
THEOREM Implements == ~ ReplaceHeld => (Spec => OwnershipSpec)
<1> SUFFICES ASSUME ~ ReplaceHeld PROVE Spec => OwnershipSpec
  OBVIOUS
<1> DEFINE owners == {p \in Proc : Held(p)}
<1>1. Init => Ownership!Init
  BY DEF Init, Ownership!Init, Held
<1>2. IInv /\ IInv' /\ [Next]_vars => [Ownership!Next]_owners
  <2> SUFFICES ASSUME IInv, IInv', [Next]_vars
               PROVE  Ownership!Next \/ owners' = owners
    OBVIOUS
  <2>1. PICK p \in Proc \union {None} : \A q \in Proc \ {p} : Held(q)' = Held(q)
    BY OneOwnerMoves
  <2>2. MutualExclusion /\ MutualExclusion'
    BY ExclusionFromInvariant, PTL
  <2>3. CASE p \in Proc /\ ~ Held(p) /\ Held(p)'
    <3>1. owners = {} /\ owners' = {p}
      BY <2>1, <2>2, <2>3 DEF MutualExclusion
    <3>2. QED
      BY <2>3, <3>1 DEF Ownership!Next, Ownership!Take
  <2>4. CASE p \in Proc /\ Held(p) /\ ~ Held(p)'
    <3>1. owners = {p} /\ owners' = {}
      BY <2>1, <2>2, <2>4 DEF MutualExclusion
    <3>2. QED
      BY <2>4, <3>1 DEF Ownership!Next, Ownership!Drop
  <2>5. CASE p \notin Proc \/ Held(p)' = Held(p)
    BY <2>1, <2>5
  <2>6. QED
    BY <2>3, <2>4, <2>5 DEF Held
<1>3. QED
  BY <1>1, <1>2, Inductive, PTL DEF Spec, OwnershipSpec, Ownership!Spec, owners
=============================================================================
