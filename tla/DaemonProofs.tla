---------------------------- MODULE DaemonProofs ----------------------------
(***************************************************************************)
(* Proofs about DaemonLock for any processes and descriptors and any       *)
(* number of replacements of the lock file: the daemon has one owner,      *)
(* covered by the kernel's lock; no bystander keeps that lock; and the     *)
(* hand-over implements DaemonOwnership.  And about Discovery for any      *)
(* daemons, parties and spellings: a client attaches only to its own       *)
(* daemon, is turned away only by another's, and no token is exposed.      *)
(***************************************************************************)
EXTENDS DaemonLock, FileLockProofs, Discovery

\* Where a call works on a descriptor only it knows, and where it adopts one
\* that others may share.
Own(p) == pc[p] \in {"lock", "granted", "refused", "probe", "probed"}

Adopting(p) == pc[p] \in {"stat", "adopt", "adopted"}

\* The descriptors of p are those its variables name.
Known(p) == \A o \in Ofd : p \in ofd[o].open => o \in {fd[p], copy[p], tryFd[p]}

\* _fd and the duplicate are open and carry the exclusive lock.
HeldInv(p) ==
  \A o \in {fd[p], copy[p]} \ {None} :
    o \in Ofd /\ p \in ofd[o].open /\ ofd[o].mode = "ex"

\* The descriptor of an acquisition or a probe is the process's alone and not
\* its _fd; one being adopted is shared only when it carries the lock.
CallInv(p) ==
  /\ Own(p) =>
       /\ proc[p] = "live"
       /\ tryFd[p] \in Ofd /\ ofd[tryFd[p]].open = {p}
       /\ tryFd[p] \notin {fd[p], copy[p]}
  /\ Adopting(p) =>
       /\ proc[p] \in {"live", "failed"} /\ fd[p] = None /\ copy[p] = None
       /\ tryFd[p] \in Ofd /\ p \in ofd[tryFd[p]].open
       /\ ofd[tryFd[p]].mode = "ex" \/ ofd[tryFd[p]].open = {p}
  /\ pc[p] \in {"open", "lock", "granted", "refused"} => fd[p] = None /\ proc[p] = "live"
  /\ pc[p] \in {"granted", "adopted"} => ofd[tryFd[p]].mode = "ex"
  /\ pc[p] \in {"idle", "open"} => tryFd[p] = None
  /\ pc[p] = "open" => tries[p] < Attempts

\* Who may have bookkeeping at all, and whose it is.
OwnerInv(p) ==
  /\ proc[p] \in {"unborn", "other", "failed", "dead"} => fd[p] = None /\ copy[p] = None
  /\ proc[p] \in {"unborn", "forked", "other", "dead"} => pc[p] = "idle"
  /\ proc[p] \in {"live", "unborn"} => ownerPid[p] = IF fd[p] = None THEN None ELSE p
  /\ proc[p] = "forked" => ownerPid[p] # p
  /\ ~ inheritable[p]

ProcInv(p) == Known(p) /\ HeldInv(p) /\ CallInv(p) /\ OwnerInv(p)

TableInv ==
  /\ NoConflict /\ LocksOpen(ofd)
  /\ \A o \in Ofd : ofd[o].open # {} => ofd[o].file = "daemon"

IInv == TypeOK /\ TableInv /\ \A p \in Proc : ProcInv(p)

-----------------------------------------------------------------------------
\* The constants: None is no descriptor and no process.
LEMMA NoneApart == None \notin Ofd /\ None \notin Proc /\ "daemon" \in File
BY FileLockAssumption, DaemonLockAssumption

\* The variables of process q stay.
Same(q) ==
  /\ proc'[q] = proc[q] /\ fd'[q] = fd[q] /\ ownerPid'[q] = ownerPid[q]
  /\ inheritable'[q] = inheritable[q] /\ copy'[q] = copy[q]
  /\ pc'[q] = pc[q] /\ tryFd'[q] = tryFd[q] /\ tries'[q] = tries[q]

\* A step that only the processes in S take part in.
Others(S) == \A q \in Proc \ S : Same(q) /\ Untouched(ofd', q)

\* A process keeps its invariant while its variables stay and its descriptors
\* are untouched, whoever does something else.
LEMMA Frame ==
  ASSUME TypeOK, NEW q \in Proc, ProcInv(q), Same(q), Untouched(ofd', q)
  PROVE  ProcInv(q)'
<1>1. Known(q)'
  BY DEF ProcInv, Known, Same, Untouched
<1>2. HeldInv(q)'
  BY DEF ProcInv, HeldInv, Same, Untouched, SameLock
<1>3. CallInv(q)'
  <2>1. (Own(q) <=> Own(q)') /\ (Adopting(q) <=> Adopting(q)')
    BY DEF Own, Adopting, Same
  <2>2. Own(q) =>
          /\ proc'[q] = "live"
          /\ tryFd'[q] \in Ofd /\ ofd'[tryFd'[q]].open = {q}
          /\ tryFd'[q] \notin {fd'[q], copy'[q]}
    BY DEF ProcInv, CallInv, Same, Untouched
  <2>3. Adopting(q) =>
          /\ proc'[q] \in {"live", "failed"} /\ fd'[q] = None /\ copy'[q] = None
          /\ tryFd'[q] \in Ofd /\ q \in ofd'[tryFd'[q]].open
          /\ ofd'[tryFd'[q]].mode = "ex" \/ ofd'[tryFd'[q]].open = {q}
    BY DEF ProcInv, CallInv, Same, Untouched, SameLock
  <2>4. pc[q] \in {"granted", "adopted"} => ofd'[tryFd'[q]].mode = "ex"
    BY DEF ProcInv, CallInv, Same, Untouched, SameLock, Own, Adopting
  <2>5. QED
    BY <2>1, <2>2, <2>3, <2>4 DEF ProcInv, CallInv, Same
<1>4. OwnerInv(q)'
  BY DEF ProcInv, OwnerInv, Same
<1>5. QED
  BY <1>1, <1>2, <1>3, <1>4 DEF ProcInv

\* So a step is settled by what it does to the table and to the processes that
\* take part in it.
LEMMA Settles ==
  ASSUME IInv, TypeOK', TableInv', NEW S,
         \A q \in Proc \ S : Same(q) /\ Untouched(ofd', q),
         \A q \in Proc \cap S : ProcInv(q)'
  PROVE  IInv'
<1>1. ASSUME NEW q \in Proc PROVE ProcInv(q)'
  <2>1. CASE q \in S
    BY <2>1
  <2>2. CASE q \notin S
    BY <2>2, Frame DEF IInv
  <2>3. QED
    BY <2>1, <2>2
<1>2. QED
  BY <1>1 DEF IInv

\* The table keeps its invariant when locks only get weaker and files stay.
LEMMA WeakerTable ==
  ASSUME TableInv, Weaker(ofd'), LocksOpen(ofd'),
         \A o \in Ofd : ofd'[o].open # {} => ofd'[o].file = "daemon"
  PROVE  TableInv'
BY WeakerNoConflict DEF TableInv, LocksOpen

\* Moving a process's call on changes its call variables only.
LEMMA CallMoves ==
  ASSUME TypeOK, NEW p \in Proc, NEW label \in Pc, NEW o \in Ofd \union {None},
         NEW n \in 0..Attempts, Call(p, label, o, n)
  PROVE  /\ pc' \in [Proc -> Pc] /\ tryFd' \in [Proc -> Ofd \union {None}]
         /\ tries' \in [Proc -> 0..Attempts]
         /\ pc'[p] = label /\ tryFd'[p] = o /\ tries'[p] = n
         /\ \A q \in Proc \ {p} : pc'[q] = pc[q] /\ tryFd'[q] = tryFd[q] /\ tries'[q] = tries[q]
BY DEF TypeOK, Call

\* Becoming the owner changes the bookkeeping of that process only.
LEMMA TakeMoves ==
  ASSUME TypeOK, NEW p \in Proc, NEW o \in Ofd, Take(p, o)
  PROVE  /\ fd' \in [Proc -> Ofd \union {None}]
         /\ ownerPid' \in [Proc -> Proc \union {None}]
         /\ inheritable' \in [Proc -> BOOLEAN]
         /\ fd'[p] = o /\ ownerPid'[p] = p /\ ~ inheritable'[p]
         /\ \A q \in Proc \ {p} : /\ fd'[q] = fd[q] /\ ownerPid'[q] = ownerPid[q]
                                  /\ inheritable'[q] = inheritable[q]
BY DEF TypeOK, Take

-----------------------------------------------------------------------------
\* One lemma per operation.  Opening the lock file, for an acquisition, a
\* probe or as a supervisor's unlocked descriptor.
LEMMA OpenStep ==
  ASSUME IInv, NEW p \in Proc, Open(p)
  PROVE  IInv' /\ Others({p})
<1>1. PICK o \in Ofd : /\ OpenFile(p, "daemon", o)
                       /\ Call(p, "lock", o, IF pc[p] = "idle" THEN 1 ELSE tries[p] + 1)
  BY DEF Open
<1> DEFINE n == IF pc[p] = "idle" THEN 1 ELSE tries[p] + 1
<1>2. n \in 0..Attempts
  BY DaemonLockAssumption DEF Open, At, IInv, ProcInv, CallInv, TypeOK
<1>3. /\ ofd \in [Ofd -> OfdRecord] /\ ofd' \in [Ofd -> OfdRecord]
  BY <1>1, OpenTyping, NoneApart DEF IInv, TypeOK, FileLockTypeOK
<1>4. /\ Weaker(ofd') /\ LocksOpen(ofd')
      /\ \A q \in Proc \ {p} : Untouched(ofd', q)
      /\ \A other \in Ofd \ {o} : ofd'[other] = ofd[other]
      /\ ofd[o].open = {} /\ ofd'[o].open = {p} /\ ofd'[o].file = "daemon"
  BY <1>1, <1>3, OpenedTable, NoneApart DEF IInv, TableInv
<1>5. /\ pc' \in [Proc -> Pc] /\ tryFd' \in [Proc -> Ofd \union {None}]
      /\ tries' \in [Proc -> 0..Attempts]
      /\ pc'[p] = "lock" /\ tryFd'[p] = o
      /\ \A q \in Proc \ {p} : pc'[q] = pc[q] /\ tryFd'[q] = tryFd[q] /\ tries'[q] = tries[q]
  <2>1. Call(p, "lock", o, n)
    BY <1>1
  <2> HIDE DEF n
  <2>2. QED
    BY <1>2, <2>1, CallMoves DEF IInv, Pc
<1>6. /\ at' = at /\ proc' = proc /\ fd' = fd /\ ownerPid' = ownerPid
      /\ inheritable' = inheritable /\ copy' = copy
  BY DEF Open, holdVars
<1>7. TypeOK'
  BY <1>3, <1>5, <1>6 DEF IInv, TypeOK, FileLockTypeOK
<1>8. TableInv'
  BY <1>4, WeakerTable DEF IInv, TableInv
<1>9. ProcInv(p)'
  <2>1. proc[p] = "live" /\ fd[p] = None /\ tryFd[p] = None
    BY DEF Open, At, IInv, ProcInv, CallInv
  <2>2. o # copy[p]
    BY <1>4, NoneApart DEF IInv, ProcInv, HeldInv
  <2>3. Known(p)'
    BY <1>4, <1>5, <1>6, <2>1 DEF IInv, ProcInv, Known
  <2>4. HeldInv(p)'
    BY <1>4, <1>6, <2>2 DEF IInv, ProcInv, HeldInv
  <2>5. CallInv(p)'
    BY <1>4, <1>5, <1>6, <2>1, <2>2, NoneApart DEF CallInv, Own, Adopting
  <2>6. OwnerInv(p)'
    BY <1>5, <1>6, <2>1 DEF IInv, ProcInv, OwnerInv
  <2>7. QED
    BY <2>3, <2>4, <2>5, <2>6 DEF ProcInv
<1>10. \A q \in Proc \ {p} : Same(q)
  BY <1>5, <1>6 DEF Same
<1>11. QED
  BY <1>4, <1>7, <1>8, <1>9, <1>10, Settles, ZenonT(60) DEF Others

\* A probe opens the file whether or not its process holds the lock.
LEMMA ProbeStep ==
  ASSUME IInv, NEW p \in Proc, Probe(p)
  PROVE  IInv' /\ Others({p})
<1>1. PICK o \in Ofd : OpenFile(p, "daemon", o) /\ Call(p, "probe", o, 0)
  BY DEF Probe
<1>2. /\ ofd \in [Ofd -> OfdRecord] /\ ofd' \in [Ofd -> OfdRecord]
  BY <1>1, OpenTyping, NoneApart DEF IInv, TypeOK, FileLockTypeOK
<1>3. /\ Weaker(ofd') /\ LocksOpen(ofd')
      /\ \A q \in Proc \ {p} : Untouched(ofd', q)
      /\ \A other \in Ofd \ {o} : ofd'[other] = ofd[other]
      /\ ofd[o].open = {} /\ ofd'[o].open = {p} /\ ofd'[o].file = "daemon"
  BY <1>1, <1>2, OpenedTable, NoneApart DEF IInv, TableInv
<1>4. /\ pc' \in [Proc -> Pc] /\ tryFd' \in [Proc -> Ofd \union {None}]
      /\ tries' \in [Proc -> 0..Attempts]
      /\ pc'[p] = "probe" /\ tryFd'[p] = o
      /\ \A q \in Proc \ {p} : pc'[q] = pc[q] /\ tryFd'[q] = tryFd[q] /\ tries'[q] = tries[q]
  <2>1. 0 \in 0..Attempts /\ "probe" \in Pc
    BY DaemonLockAssumption DEF Pc
  <2>2. QED
    BY <1>1, <2>1, CallMoves DEF IInv
<1>5. /\ at' = at /\ proc' = proc /\ fd' = fd /\ ownerPid' = ownerPid
      /\ inheritable' = inheritable /\ copy' = copy
  BY DEF Probe, holdVars
<1>6. TypeOK'
  BY <1>2, <1>4, <1>5 DEF IInv, TypeOK, FileLockTypeOK
<1>7. TableInv'
  BY <1>3, WeakerTable DEF IInv, TableInv
<1>8. ProcInv(p)'
  <2>1. proc[p] = "live" /\ pc[p] = "idle"
    BY DEF Probe, Ready
  <2>2. tryFd[p] = None
    BY <2>1 DEF IInv, ProcInv, CallInv
  <2>3. ASSUME NEW x \in {fd[p], copy[p]} \ {None}
        PROVE  x # o /\ x \in Ofd /\ p \in ofd'[x].open /\ ofd'[x].mode = "ex"
    <3>1. x \in Ofd /\ p \in ofd[x].open /\ ofd[x].mode = "ex"
      BY DEF IInv, ProcInv, HeldInv
    <3>2. QED
      BY <1>3, <3>1
  <2>4. o \notin {fd[p], copy[p]}
    BY <2>3, NoneApart
  <2>5. ASSUME NEW x \in Ofd, p \in ofd'[x].open PROVE x \in {fd[p], copy[p], o}
    <3>1. CASE x # o
      BY <1>3, <2>2, <2>5, <3>1, NoneApart DEF IInv, ProcInv, Known
    <3>2. QED
      BY <3>1
  <2>6. Known(p)'
    BY <1>4, <1>5, <2>5 DEF Known
  <2>7. HeldInv(p)'
    BY <1>5, <2>3 DEF HeldInv
  <2>8. CallInv(p)'
    BY <1>3, <1>4, <1>5, <2>1, <2>4 DEF CallInv, Own, Adopting
  <2>9. OwnerInv(p)'
    BY <1>4, <1>5, <2>1 DEF IInv, ProcInv, OwnerInv
  <2>10. QED
    BY <2>6, <2>7, <2>8, <2>9 DEF ProcInv
<1>9. \A q \in Proc \ {p} : Same(q)
  BY <1>4, <1>5 DEF Same
<1>10. QED
  BY <1>3, <1>6, <1>7, <1>8, <1>9, Settles, ZenonT(60) DEF Others

\* Giving back the descriptor of an acquisition or of a probe.
LEMMA GiveBack ==
  ASSUME IInv, NEW p \in Proc, Own(p), ofd' = WithClosed(p, {tryFd[p]}),
         NEW label \in {"idle", "open"}, NEW n \in 0..Attempts, Call(p, label, None, n),
         label = "open" => n < Attempts /\ fd[p] = None,
         UNCHANGED <<at, proc, holdVars, copy>>
  PROVE  IInv' /\ Others({p})
<1>0. ofd \in [Ofd -> OfdRecord] /\ ofd' \in [Ofd -> OfdRecord]
  BY ClosedTyping DEF IInv, TypeOK, FileLockTypeOK
<1>1. /\ Weaker(ofd') /\ LocksOpen(ofd')
      /\ \A q \in Proc \ {p} : Untouched(ofd', q)
      /\ \A o \in Ofd : p \in ofd'[o].open <=> o # tryFd[p] /\ p \in ofd[o].open
      /\ \A o \in Ofd \ {tryFd[p]} : ofd'[o] = ofd[o]
      /\ \A o \in Ofd : ofd'[o].open # {} => SameLock(ofd', o)
  BY <1>0, ClosedTable DEF IInv, TableInv
<1>2. /\ pc' \in [Proc -> Pc] /\ tryFd' \in [Proc -> Ofd \union {None}]
      /\ tries' \in [Proc -> 0..Attempts]
      /\ pc'[p] = label /\ tryFd'[p] = None /\ tries'[p] = n
      /\ \A q \in Proc \ {p} : pc'[q] = pc[q] /\ tryFd'[q] = tryFd[q] /\ tries'[q] = tries[q]
  BY CallMoves DEF IInv, Pc
<1>3. /\ proc' = proc /\ fd' = fd /\ ownerPid' = ownerPid
      /\ inheritable' = inheritable /\ copy' = copy
  BY DEF holdVars
<1>4. TypeOK'
  BY <1>0, <1>2, <1>3 DEF IInv, TypeOK, FileLockTypeOK
<1>5. TableInv'
  <2>1. \A o \in Ofd : ofd'[o].open # {} => ofd'[o].file = "daemon"
    <3>1. ASSUME NEW o \in Ofd, ofd'[o].open # {} PROVE ofd'[o].file = "daemon"
      <4>1. ofd[o].open # {}
        BY <1>0, <3>1 DEF WithClosed, Closed
      <4>2. SameLock(ofd', o)
        BY <1>1, <3>1
      <4>3. QED
        BY <4>1, <4>2 DEF IInv, TableInv, SameLock
    <3>2. QED
      BY <3>1
  <2>2. QED
    BY <1>1, <2>1, WeakerTable DEF IInv
<1>6. ProcInv(p)'
  <2>1. proc[p] = "live" /\ tryFd[p] \notin {fd[p], copy[p]}
    BY DEF IInv, ProcInv, CallInv
  <2>2. Known(p)'
    <3>1. ASSUME NEW o \in Ofd, p \in ofd'[o].open PROVE o \in {fd[p], copy[p]}
      <4>1. o # tryFd[p] /\ p \in ofd[o].open
        BY <1>1, <3>1
      <4>2. QED
        BY <4>1 DEF IInv, ProcInv, Known
    <3>2. QED
      BY <1>2, <1>3, <3>1 DEF Known
  <2>3. HeldInv(p)'
    <3>1. ASSUME NEW o \in {fd[p], copy[p]} \ {None}
          PROVE  o \in Ofd /\ p \in ofd'[o].open /\ ofd'[o].mode = "ex"
      <4>1. o \in Ofd /\ p \in ofd[o].open /\ ofd[o].mode = "ex"
        BY DEF IInv, ProcInv, HeldInv
      <4>2. ofd'[o] = ofd[o]
        BY <1>1, <2>1, <4>1
      <4>3. QED
        BY <4>1, <4>2
    <3>2. QED
      BY <1>3, <3>1 DEF HeldInv
  <2>4. CallInv(p)'
    BY <1>2, <1>3, <2>1 DEF CallInv, Own, Adopting
  <2>5. OwnerInv(p)'
    BY <1>2, <1>3, <2>1 DEF IInv, ProcInv, OwnerInv
  <2>6. QED
    BY <2>2, <2>3, <2>4, <2>5 DEF ProcInv
<1>7. \A q \in Proc \ {p} : Same(q)
  BY <1>2, <1>3 DEF Same
<1>8. Others({p})
  BY <1>1, <1>7 DEF Others
<1>9. IInv'
  <2>1. \A q \in Proc \ {p} : Same(q) /\ Untouched(ofd', q)
    BY <1>1, <1>7
  <2>2. \A q \in Proc \cap {p} : ProcInv(q)'
    BY <1>6
  <2>3. QED
    BY <2>1, <2>2, <1>4, <1>5, Settles
<1>10. QED
  BY <1>8, <1>9

\* The steps that give back what an acquisition or a probe opened.
LEMMA GiveBackSteps ==
  ASSUME IInv, NEW p \in Proc, Retry(p) \/ NotElected(p) \/ ProbeEnds(p)
  PROVE  IInv' /\ Others({p})
<1>1. Own(p) /\ tryFd[p] \in Ofd /\ ofd[tryFd[p]].open = {p}
  BY DEF Retry, NotElected, ProbeEnds, At, Own, IInv, ProcInv, CallInv
<1>2. WithReleased(p, tryFd[p]) = WithClosed(p, {tryFd[p]})
  BY <1>1, ReleasedAlone DEF IInv, TypeOK, FileLockTypeOK
<1>3. 0 \in 0..Attempts /\ tries[p] \in 0..Attempts
  BY DaemonLockAssumption DEF IInv, TypeOK
<1>4. CASE Retry(p)
  <2>1. fd[p] = None
    BY <1>4 DEF Retry, At, IInv, ProcInv, CallInv
  <2>2. QED
    BY <1>1, <1>2, <1>3, <1>4, <2>1, GiveBack DEF Retry
<1>5. CASE NotElected(p)
  BY <1>1, <1>2, <1>3, <1>5, GiveBack DEF NotElected
<1>6. CASE ProbeEnds(p)
  BY <1>1, <1>3, <1>6, GiveBack DEF ProbeEnds
<1>7. QED
  BY <1>4, <1>5, <1>6

\* The kernel's answer to an acquisition or a probe: the descriptor is the
\* process's alone, so the lock concerns nobody else's.
LEMMA Asked ==
  ASSUME IInv, NEW p \in Proc, Own(p),
         NEW mode \in {"ex", "sh"},
         \/ Grantable(tryFd[p], mode) /\ Lock(tryFd[p], mode)
         \/ UNCHANGED ofd /\ pc'[p] # "granted",
         NEW label \in {"granted", "refused", "probed"}, NEW n \in 0..Attempts,
         Call(p, label, tryFd[p], n),
         label = "granted" => mode = "ex",
         label # "probed" => pc[p] = "lock",
         UNCHANGED <<at, proc, holdVars, copy>>
  PROVE  IInv' /\ Others({p})
<1> DEFINE o == tryFd[p]
<1>0. /\ ofd \in [Ofd -> OfdRecord] /\ o \in Ofd /\ ofd[o].open = {p} /\ proc[p] = "live"
      /\ o \notin {fd[p], copy[p]} /\ tries[p] \in 0..Attempts
  BY DEF IInv, TypeOK, FileLockTypeOK, ProcInv, CallInv
<1>1. /\ pc' \in [Proc -> Pc] /\ tryFd' \in [Proc -> Ofd \union {None}]
      /\ tries' \in [Proc -> 0..Attempts]
      /\ pc'[p] = label /\ tryFd'[p] = o
      /\ \A q \in Proc \ {p} : pc'[q] = pc[q] /\ tryFd'[q] = tryFd[q] /\ tries'[q] = tries[q]
  BY <1>0, CallMoves DEF IInv, Pc
<1>2. /\ proc' = proc /\ fd' = fd /\ ownerPid' = ownerPid
      /\ inheritable' = inheritable /\ copy' = copy
  BY DEF holdVars
<1>3. /\ ofd' \in [Ofd -> OfdRecord] /\ NoConflict' /\ LocksOpen(ofd')
      /\ \A q \in Proc \ {p} : Untouched(ofd', q)
      /\ \A other \in Ofd \ {o} : ofd'[other] = ofd[other]
      /\ ofd'[o].open = {p} /\ ofd'[o].file = ofd[o].file
      /\ label = "granted" => ofd'[o].mode = "ex"
  <2>1. CASE Grantable(o, mode) /\ Lock(o, mode)
    <3>1. ofd' \in [Ofd -> OfdRecord]
      BY <1>0, <2>1, LockTyping DEF Mode
    <3>2. /\ NoConflict' /\ LocksOpen(ofd')
          /\ \A q \in Proc : q \notin ofd[o].open => Untouched(ofd', q)
          /\ \A other \in Ofd \ {o} : ofd'[other] = ofd[other]
          /\ ofd'[o].mode = mode /\ ofd'[o].open = ofd[o].open
          /\ ofd'[o].file = ofd[o].file
      BY <1>0, <2>1, LockedTable DEF IInv, TableInv, Mode
    <3>3. QED
      BY <1>0, <3>1, <3>2
  <2>2. CASE UNCHANGED ofd /\ pc'[p] # "granted"
    <3>1. NoConflict'
      BY <2>2 DEF IInv, TableInv, NoConflict, SameFile
    <3>2. \A q \in Proc : Untouched(ofd', q)
      BY <2>2 DEF Untouched, SameLock
    <3>3. QED
      BY <1>0, <1>1, <2>2, <3>1, <3>2 DEF IInv, TableInv
  <2>3. QED
    BY <2>1, <2>2
<1>4. TypeOK'
  BY <1>1, <1>2, <1>3 DEF IInv, TypeOK, FileLockTypeOK
<1>5. TableInv'
  BY <1>0, <1>3 DEF IInv, TableInv
<1>6. ProcInv(p)'
  <2>2. Known(p)'
    BY <1>1, <1>2, <1>3 DEF IInv, ProcInv, Known
  <2>3. HeldInv(p)'
    BY <1>0, <1>2, <1>3 DEF IInv, ProcInv, HeldInv
  <2>4. CallInv(p)'
    BY <1>0, <1>1, <1>2, <1>3 DEF IInv, ProcInv, CallInv, Own, Adopting
  <2>5. OwnerInv(p)'
    BY <1>0, <1>1, <1>2 DEF IInv, ProcInv, OwnerInv
  <2>6. QED
    BY <2>2, <2>3, <2>4, <2>5 DEF ProcInv
<1>7. \A q \in Proc \ {p} : Same(q)
  BY <1>1, <1>2 DEF Same
<1>8. QED
  BY <1>3, <1>4, <1>5, <1>6, <1>7, Settles, ZenonT(60) DEF Others

\* The steps that ask for the lock.
LEMMA AskSteps ==
  ASSUME IInv, NEW p \in Proc, AskLock(p) \/ ProbeAsks(p)
  PROVE  IInv' /\ Others({p})
<1>1. Own(p) /\ tries[p] \in 0..Attempts /\ 0 \in 0..Attempts
  BY DaemonLockAssumption DEF AskLock, ProbeAsks, At, Own, IInv, TypeOK
<1>2. \A label \in Pc, o \in Ofd \union {None}, n \in 0..Attempts :
        Call(p, label, o, n) => pc'[p] = label
  BY CallMoves DEF IInv
<1>3. tryFd[p] \in Ofd
  BY <1>1 DEF IInv, ProcInv, CallInv
<1>4. CASE AskLock(p)
  <2>1. CASE /\ Grantable(tryFd[p], "ex") /\ Lock(tryFd[p], "ex")
             /\ Call(p, "granted", tryFd[p], tries[p])
    BY <1>1, <1>4, <2>1, Asked DEF AskLock, At
  <2>2. CASE UNCHANGED ofd /\ Call(p, "refused", tryFd[p], tries[p])
    <3>1. pc'[p] # "granted"
      BY <1>1, <1>2, <1>3, <2>2 DEF Pc
    <3>2. QED
      BY <1>1, <1>4, <2>2, <3>1, Asked DEF AskLock, At
  <2>3. QED
    BY <1>4, <2>1, <2>2 DEF AskLock
<1>5. CASE ProbeAsks(p)
  <2>1. pc'[p] # "granted"
    BY <1>1, <1>2, <1>3, <1>5 DEF ProbeAsks, Pc
  <2>2. CASE Grantable(tryFd[p], "sh")
    BY <1>1, <1>5, <2>1, <2>2, Asked DEF ProbeAsks, Lock
  <2>3. CASE ~ Grantable(tryFd[p], "sh")
    BY <1>1, <1>5, <2>1, <2>3, Asked DEF ProbeAsks
  <2>4. QED
    BY <2>2, <2>3
<1>6. QED
  BY <1>4, <1>5

\* An acquisition or an adoption succeeds: the descriptor becomes _fd.
LEMMA TookStep ==
  ASSUME IInv, NEW p \in Proc, Elected(p) \/ Adopted(p)
  PROVE  IInv' /\ Others({p})
<1> DEFINE o == tryFd[p]
<1>0. /\ o \in Ofd /\ p \in ofd[o].open /\ ofd[o].mode = "ex" /\ proc[p] = "live"
      /\ fd[p] = None /\ pc[p] \in {"granted", "adopted"}
  BY DEF Elected, Adopted, At, IInv, ProcInv, CallInv, Own, Adopting
<1>1. Take(p, o) /\ Call(p, "idle", None, 0) /\ ofd' = ofd /\ at' = at /\ proc' = proc /\ copy' = copy
  BY DEF Elected, Adopted
<1>2. /\ pc' \in [Proc -> Pc] /\ tryFd' \in [Proc -> Ofd \union {None}]
      /\ tries' \in [Proc -> 0..Attempts]
      /\ pc'[p] = "idle" /\ tryFd'[p] = None
      /\ \A q \in Proc \ {p} : pc'[q] = pc[q] /\ tryFd'[q] = tryFd[q] /\ tries'[q] = tries[q]
  <2>1. 0 \in 0..Attempts /\ "idle" \in Pc
    BY DaemonLockAssumption DEF Pc
  <2>2. QED
    BY <1>1, <2>1, CallMoves DEF IInv
<1>3. /\ fd' \in [Proc -> Ofd \union {None}]
      /\ ownerPid' \in [Proc -> Proc \union {None}]
      /\ inheritable' \in [Proc -> BOOLEAN]
      /\ fd'[p] = o /\ ownerPid'[p] = p /\ ~ inheritable'[p]
      /\ \A q \in Proc \ {p} : /\ fd'[q] = fd[q] /\ ownerPid'[q] = ownerPid[q]
                               /\ inheritable'[q] = inheritable[q]
  BY <1>0, <1>1, TakeMoves DEF IInv
<1>4. TypeOK'
  BY <1>1, <1>2, <1>3 DEF IInv, TypeOK, FileLockTypeOK
<1>5. TableInv'
  BY <1>1 DEF IInv, TableInv, NoConflict, SameFile, LocksOpen
<1>6. ProcInv(p)'
  <2>1. o # None
    BY <1>0, NoneApart
  <2>2. Known(p)'
    BY <1>0, <1>1, <1>2, <1>3 DEF IInv, ProcInv, Known
  <2>3. HeldInv(p)'
    <3>1. ASSUME NEW x \in {o, copy[p]} \ {None}
          PROVE  x \in Ofd /\ p \in ofd[x].open /\ ofd[x].mode = "ex"
      BY <1>0 DEF IInv, ProcInv, HeldInv
    <3>2. QED
      BY <1>1, <1>3, <3>1 DEF HeldInv
  <2>4. CallInv(p)'
    BY <1>2 DEF CallInv, Own, Adopting
  <2>5. OwnerInv(p)'
    BY <1>0, <1>1, <1>2, <1>3, <2>1 DEF IInv, ProcInv, OwnerInv
  <2>6. QED
    BY <2>2, <2>3, <2>4, <2>5 DEF ProcInv
<1>7. \A q \in Proc \ {p} : Same(q)
  BY <1>1, <1>2, <1>3 DEF Same
<1>8. \A q \in Proc \ {p} : Untouched(ofd', q)
  BY <1>1 DEF Untouched, SameLock
<1>9. QED
  BY <1>4, <1>5, <1>6, <1>7, <1>8, Settles, ZenonT(60) DEF Others

\* A process closes _fd or its duplicate, keeping the other if it has both;
\* the table loses at most that one descriptor.
LEMMA ClosesOne ==
  ASSUME IInv, NEW p \in Proc, NEW o \in {fd[p], copy[p]},
         ofd' \in {ofd, WithClosed(p, {o})}
  PROVE  /\ ofd' \in [Ofd -> OfdRecord] /\ TableInv'
         /\ \A q \in Proc \ {p} : Untouched(ofd', q)
         /\ \A x \in Ofd : p \in ofd'[x].open => p \in ofd[x].open
         /\ \A x \in Ofd \ {o} : ofd'[x] = ofd[x]
         /\ \A x \in Ofd : x = o /\ p \in ofd'[x].open => ofd' = ofd
<1>1. ofd \in [Ofd -> OfdRecord]
  BY DEF IInv, TypeOK, FileLockTypeOK
<1>2. CASE ofd' = ofd
  <2>1. TableInv'
    BY <1>2 DEF IInv, TableInv, NoConflict, SameFile, LocksOpen
  <2>2. \A q \in Proc : Untouched(ofd', q)
    BY <1>2 DEF Untouched, SameLock
  <2>3. QED
    BY <1>1, <1>2, <2>1, <2>2
<1>3. CASE ofd' = WithClosed(p, {o})
  <2>1. ofd' \in [Ofd -> OfdRecord]
    BY <1>1, <1>3, ClosedTyping
  <2>2. /\ Weaker(ofd') /\ LocksOpen(ofd')
        /\ \A q \in Proc \ {p} : Untouched(ofd', q)
        /\ \A x \in Ofd : p \in ofd'[x].open <=> x # o /\ p \in ofd[x].open
        /\ \A x \in Ofd \ {o} : ofd'[x] = ofd[x]
        /\ \A x \in Ofd : ofd'[x].open # {} => SameLock(ofd', x)
    BY <1>1, <1>3, ClosedTable DEF IInv, TableInv
  <2>3. ASSUME NEW x \in Ofd, ofd'[x].open # {} PROVE ofd'[x].file = "daemon"
    <3>1. ofd[x].open # {}
      BY <1>1, <1>3, <2>3 DEF WithClosed, Closed
    <3>2. SameLock(ofd', x)
      BY <2>2, <2>3
    <3>3. QED
      BY <3>1, <3>2 DEF IInv, TableInv, SameLock
  <2>4. TableInv'
    BY <2>2, <2>3, WeakerTable DEF IInv
  <2>5. QED
    BY <2>1, <2>2, <2>4
<1>4. QED
  BY <1>2, <1>3

\* Giving _fd up, by release or by the at-fork hook.
LEMMA FdGone ==
  ASSUME IInv, NEW p \in Proc, proc[p] \in {"live", "forked"}, pc[p] = "idle",
         ofd' = WithFdClosed(p),
         proc' \in [Proc -> {"unborn", "live", "forked", "failed", "other", "dead"}],
         proc'[p] = "live", \A q \in Proc \ {p} : proc'[q] = proc[q],
         fd' = [fd EXCEPT ![p] = None], ownerPid' = [ownerPid EXCEPT ![p] = None],
         inheritable' = [inheritable EXCEPT ![p] = FALSE],
         UNCHANGED <<at, copy, callVars>>
  PROVE  IInv' /\ Others({p})
<1>1. ofd' \in {ofd, WithClosed(p, {fd[p]})} /\ (copy[p] # fd[p] => ofd' = WithClosed(p, {fd[p]}))
  BY DEF WithFdClosed
<1>2. /\ ofd' \in [Ofd -> OfdRecord] /\ TableInv'
      /\ \A q \in Proc \ {p} : Untouched(ofd', q)
      /\ \A x \in Ofd : p \in ofd'[x].open => p \in ofd[x].open
      /\ \A x \in Ofd \ {fd[p]} : ofd'[x] = ofd[x]
      /\ \A x \in Ofd : x = fd[p] /\ p \in ofd'[x].open => ofd' = ofd
  BY <1>1, ClosesOne
<1>3. /\ pc' = pc /\ tryFd' = tryFd /\ tries' = tries /\ copy' = copy /\ at' = at
  BY DEF callVars
<1>4. /\ fd' \in [Proc -> Ofd \union {None}]
      /\ ownerPid' \in [Proc -> Proc \union {None}]
      /\ inheritable' \in [Proc -> BOOLEAN]
      /\ fd'[p] = None /\ ownerPid'[p] = None /\ ~ inheritable'[p]
      /\ \A q \in Proc \ {p} : /\ fd'[q] = fd[q] /\ ownerPid'[q] = ownerPid[q]
                               /\ inheritable'[q] = inheritable[q]
  BY DEF IInv, TypeOK
<1>5. TypeOK'
  BY <1>2, <1>3, <1>4 DEF IInv, TypeOK, FileLockTypeOK
<1>6. ProcInv(p)'
  <2>1. tryFd[p] = None
    BY DEF IInv, ProcInv, CallInv
  <2>2. ASSUME NEW x \in Ofd, p \in ofd'[x].open PROVE x = copy[p]
    <3>1. p \in ofd[x].open
      BY <1>2, <2>2
    <3>2. x \in {fd[p], copy[p]}
      BY <2>1, <3>1, NoneApart DEF IInv, ProcInv, Known
    <3>3. CASE x = fd[p] /\ copy[p] # fd[p]
      <4>1. ofd' = WithClosed(p, {fd[p]}) /\ ofd \in [Ofd -> OfdRecord]
        BY <1>1, <3>3 DEF IInv, TypeOK, FileLockTypeOK
      <4>2. p \in ofd'[x].open <=> x \notin {fd[p]} /\ p \in ofd[x].open
        BY <4>1, ClosedTable
      <4>3. QED
        BY <2>2, <3>3, <4>2
    <3>4. QED
      BY <3>2, <3>3
  <2>3. Known(p)'
    BY <1>3, <2>2 DEF Known
  <2>4. copy[p] # None => copy[p] \in Ofd /\ p \in ofd[copy[p]].open /\ ofd[copy[p]].mode = "ex"
    BY DEF IInv, ProcInv, HeldInv
  <2>5. copy[p] # None => ofd'[copy[p]] = ofd[copy[p]]
    <3>1. CASE copy[p] = fd[p]
      BY <3>1 DEF WithFdClosed
    <3>2. CASE copy[p] # fd[p]
      BY <1>2, <2>4, <3>2
    <3>3. QED
      BY <3>1, <3>2
  <2>6. HeldInv(p)'
    BY <1>3, <1>4, <2>4, <2>5 DEF HeldInv
  <2>7. CallInv(p)'
    BY <1>3, <2>1 DEF CallInv, Own, Adopting
  <2>8. OwnerInv(p)'
    BY <1>3, <1>4 DEF OwnerInv
  <2>9. QED
    BY <2>3, <2>6, <2>7, <2>8 DEF ProcInv
<1>7. \A q \in Proc \ {p} : Same(q)
  BY <1>3, <1>4 DEF Same
<1>8. QED
  BY <1>2, <1>5, <1>6, <1>7, Settles, ZenonT(60) DEF Others

\* The steps that give _fd up: release, the hook of a forked child.
LEMMA FdGoneSteps ==
  ASSUME IInv, NEW p \in Proc, Release(p) \/ ForkHook(p)
  PROVE  IInv' /\ Others({p})
<1>1. CASE Release(p)
  <2>1. proc[p] = "live" /\ pc[p] = "idle" /\ proc' = proc
    BY <1>1 DEF Release, Ready
  <2>2. proc' \in [Proc -> {"unborn", "live", "forked", "failed", "other", "dead"}]
    BY <2>1 DEF IInv, TypeOK
  <2>3. QED
    BY <1>1, <2>1, <2>2, FdGone DEF Release
<1>2. CASE ForkHook(p)
  <2>1. proc[p] = "forked" /\ proc' = [proc EXCEPT ![p] = "live"]
    BY <1>2 DEF ForkHook, Discarded
  <2>2. /\ proc' \in [Proc -> {"unborn", "live", "forked", "failed", "other", "dead"}]
        /\ proc'[p] = "live" /\ \A q \in Proc \ {p} : proc'[q] = proc[q]
    BY <2>1 DEF IInv, TypeOK
  <2>3. pc[p] = "idle"
    BY <2>1 DEF IInv, ProcInv, OwnerInv
  <2>4. QED
    BY <1>2, <2>1, <2>2, <2>3, FdGone DEF ForkHook, Discarded
<1>3. QED
  BY <1>1, <1>2

\* inheritable_copy: a second descriptor of the lock the process holds.
LEMMA CopyStep ==
  ASSUME IInv, NEW p \in Proc, InheritableCopy(p)
  PROVE  IInv' /\ Others({p})
<1>1. /\ copy' \in [Proc -> Ofd \union {None}]
      /\ copy'[p] = fd[p] /\ \A q \in Proc \ {p} : copy'[q] = copy[q]
  BY DEF InheritableCopy, IInv, TypeOK
<1>2. /\ ofd' = ofd /\ at' = at /\ proc' = proc /\ fd' = fd /\ ownerPid' = ownerPid
      /\ inheritable' = inheritable /\ pc' = pc /\ tryFd' = tryFd /\ tries' = tries
      /\ copy[p] = None /\ proc[p] = "live" /\ pc[p] = "idle"
  BY DEF InheritableCopy, holdVars, callVars, Ready
<1>3. TypeOK'
  BY <1>1, <1>2 DEF IInv, TypeOK, FileLockTypeOK
<1>4. TableInv'
  BY <1>2 DEF IInv, TableInv, NoConflict, SameFile, LocksOpen
<1>5. ProcInv(p)'
  <2>1. Known(p)'
    BY <1>1, <1>2, NoneApart DEF IInv, ProcInv, Known
  <2>2. HeldInv(p)'
    BY <1>1, <1>2 DEF IInv, ProcInv, HeldInv
  <2>3. CallInv(p)'
    BY <1>2 DEF IInv, ProcInv, CallInv, Own, Adopting
  <2>4. OwnerInv(p)'
    BY <1>1, <1>2 DEF IInv, ProcInv, OwnerInv
  <2>5. QED
    BY <2>1, <2>2, <2>3, <2>4 DEF ProcInv
<1>6. \A q \in Proc \ {p} : Same(q)
  BY <1>1, <1>2 DEF Same
<1>7. \A q \in Proc \ {p} : Untouched(ofd', q)
  BY <1>2 DEF Untouched, SameLock
<1>8. QED
  BY <1>3, <1>4, <1>5, <1>6, <1>7, Settles, ZenonT(60) DEF Others

\* inheritable_copy's caller closes its duplicate.
LEMMA CloseCopyStep ==
  ASSUME IInv, NEW p \in Proc, CloseCopy(p)
  PROVE  IInv' /\ Others({p})
<1>0. ofd' \in {ofd, WithClosed(p, {copy[p]})} /\ (copy[p] # fd[p] => ofd' = WithClosed(p, {copy[p]}))
  BY DEF CloseCopy
<1>1. /\ ofd' \in [Ofd -> OfdRecord] /\ TableInv'
      /\ \A q \in Proc \ {p} : Untouched(ofd', q)
      /\ \A x \in Ofd : p \in ofd'[x].open => p \in ofd[x].open
      /\ \A x \in Ofd \ {copy[p]} : ofd'[x] = ofd[x]
      /\ \A x \in Ofd : x = copy[p] /\ p \in ofd'[x].open => ofd' = ofd
  BY <1>0, ClosesOne
<1>2. /\ copy' \in [Proc -> Ofd \union {None}]
      /\ copy'[p] = None /\ \A q \in Proc \ {p} : copy'[q] = copy[q]
  BY DEF CloseCopy, IInv, TypeOK
<1>3. /\ at' = at /\ proc' = proc /\ fd' = fd /\ ownerPid' = ownerPid
      /\ inheritable' = inheritable /\ pc' = pc /\ tryFd' = tryFd /\ tries' = tries
      /\ copy[p] # None /\ proc[p] = "live" /\ pc[p] = "idle"
  BY DEF CloseCopy, holdVars, callVars, Ready
<1>4. TypeOK'
  BY <1>1, <1>2, <1>3 DEF IInv, TypeOK, FileLockTypeOK
<1>5. ProcInv(p)'
  <2>1. tryFd[p] = None
    BY <1>3 DEF IInv, ProcInv, CallInv
  <2>2. ASSUME NEW x \in Ofd, p \in ofd'[x].open PROVE x = fd[p]
    <3>1. p \in ofd[x].open
      BY <1>1, <2>2
    <3>2. x \in {fd[p], copy[p]}
      BY <2>1, <3>1, NoneApart DEF IInv, ProcInv, Known
    <3>3. CASE x = copy[p] /\ copy[p] # fd[p]
      <4>1. ofd' = WithClosed(p, {copy[p]}) /\ ofd \in [Ofd -> OfdRecord]
        BY <1>0, <3>3 DEF IInv, TypeOK, FileLockTypeOK
      <4>2. p \in ofd'[x].open <=> x \notin {copy[p]} /\ p \in ofd[x].open
        BY <4>1, ClosedTable
      <4>3. QED
        BY <2>2, <3>3, <4>2
    <3>4. QED
      BY <3>2, <3>3
  <2>3. Known(p)'
    BY <1>3, <2>2 DEF Known
  <2>4. fd[p] # None => fd[p] \in Ofd /\ p \in ofd[fd[p]].open /\ ofd[fd[p]].mode = "ex"
    BY DEF IInv, ProcInv, HeldInv
  <2>5. fd[p] # None => ofd'[fd[p]] = ofd[fd[p]]
    <3>1. CASE copy[p] = fd[p]
      BY <3>1 DEF CloseCopy
    <3>2. CASE copy[p] # fd[p]
      BY <1>1, <2>4, <3>2
    <3>3. QED
      BY <3>1, <3>2
  <2>6. HeldInv(p)'
    BY <1>2, <1>3, <2>4, <2>5 DEF HeldInv
  <2>7. CallInv(p)'
    BY <1>3, <2>1 DEF CallInv, Own, Adopting
  <2>8. OwnerInv(p)'
    BY <1>2, <1>3 DEF IInv, ProcInv, OwnerInv
  <2>9. QED
    BY <2>3, <2>6, <2>7, <2>8 DEF ProcInv
<1>6. \A q \in Proc \ {p} : Same(q)
  BY <1>2, <1>3 DEF Same
<1>7. QED
  BY <1>1, <1>4, <1>5, <1>6, Settles, ZenonT(60) DEF Others

\* A process that has not started has nothing.
LEMMA UnbornHasNothing ==
  ASSUME IInv, NEW s \in Proc, proc[s] = "unborn"
  PROVE  /\ fd[s] = None /\ copy[s] = None /\ tryFd[s] = None /\ pc[s] = "idle"
         /\ \A o \in Ofd : s \notin ofd[o].open
<1>1. fd[s] = None /\ copy[s] = None /\ tryFd[s] = None /\ pc[s] = "idle"
  BY DEF IInv, ProcInv, OwnerInv, CallInv
<1>2. QED
  BY <1>1, NoneApart DEF IInv, ProcInv, Known

\* The elector launches a supervisor, which shares the OFD of the duplicate.
LEMMA LaunchStep ==
  ASSUME IInv, NEW p \in Proc, NEW s \in Proc, Launch(p, s)
  PROVE  IInv' /\ Others({s, p})
<1> DEFINE o == copy[p]
<1>0. /\ proc[p] = "live" /\ pc[p] = "idle" /\ o # None /\ proc[s] = "unborn" /\ s # p
      /\ ofd' = [ofd EXCEPT ![o].open = @ \union {s}] /\ Call(s, "stat", o, 0)
  BY DEF Launch, Ready
<1>1. o \in Ofd /\ p \in ofd[o].open /\ ofd[o].mode = "ex"
  BY <1>0 DEF IInv, ProcInv, HeldInv
<1>2. /\ fd[s] = None /\ copy[s] = None /\ tryFd[s] = None
      /\ \A x \in Ofd : s \notin ofd[x].open
  BY <1>0, UnbornHasNothing
<1>3. ofd \in [Ofd -> OfdRecord] /\ ofd' \in [Ofd -> OfdRecord] /\ SharedWith(ofd', s, {o})
  BY <1>0, <1>1, LaunchShares DEF IInv, TypeOK, FileLockTypeOK
<1>4. /\ Weaker(ofd') /\ LocksOpen(ofd')
      /\ \A q \in Proc \ {s, p} : Untouched(ofd', q)
  BY <1>1, <1>3, SharedTable DEF IInv, TableInv
<1>5. /\ pc' \in [Proc -> Pc] /\ tryFd' \in [Proc -> Ofd \union {None}]
      /\ tries' \in [Proc -> 0..Attempts]
      /\ pc'[s] = "stat" /\ tryFd'[s] = o
      /\ \A q \in Proc \ {s} : pc'[q] = pc[q] /\ tryFd'[q] = tryFd[q] /\ tries'[q] = tries[q]
  <2>1. 0 \in 0..Attempts /\ "stat" \in Pc
    BY DaemonLockAssumption DEF Pc
  <2>2. QED
    BY <1>0, <1>1, <2>1, CallMoves DEF IInv
<1>6. /\ proc' \in [Proc -> {"unborn", "live", "forked", "failed", "other", "dead"}]
      /\ proc'[s] = "live" /\ \A q \in Proc \ {s} : proc'[q] = proc[q]
      /\ at' = at /\ fd' = fd /\ ownerPid' = ownerPid
      /\ inheritable' = inheritable /\ copy' = copy
  BY DEF Launch, holdVars, IInv, TypeOK
<1>7. TypeOK'
  BY <1>3, <1>5, <1>6 DEF IInv, TypeOK, FileLockTypeOK
<1>8. TableInv'
  <2>1. ASSUME NEW x \in Ofd, ofd'[x].open # {} PROVE ofd'[x].file = "daemon"
    <3>1. ofd[x].open # {}
      BY <1>1, <1>3, <2>1 DEF SharedWith
    <3>2. QED
      BY <1>3, <3>1 DEF SharedWith, SameLock, IInv, TableInv
  <2>2. QED
    BY <1>4, <2>1, WeakerTable DEF IInv
<1>9. ProcInv(s)'
  <2>1. Known(s)'
    BY <1>2, <1>3, <1>5 DEF Known, SharedWith
  <2>2. HeldInv(s)'
    BY <1>2, <1>6 DEF HeldInv
  <2>3. s \in ofd'[o].open /\ ofd'[o].mode = "ex"
    BY <1>1, <1>3 DEF SharedWith, SameLock
  <2>4. CallInv(s)'
    BY <1>1, <1>2, <1>5, <1>6, <2>3 DEF CallInv, Own, Adopting
  <2>5. ownerPid[s] = ownerPid'[s] /\ ~ inheritable'[s]
    BY <1>6 DEF IInv, ProcInv, OwnerInv
  <2>6. ownerPid[s] = None
    BY <1>0 DEF IInv, ProcInv, OwnerInv
  <2>7. OwnerInv(s)'
    BY <1>2, <1>5, <1>6, <2>5, <2>6 DEF OwnerInv
  <2>8. QED
    BY <2>1, <2>2, <2>4, <2>7 DEF ProcInv
<1>10. ProcInv(p)'
  <2>1. ASSUME NEW x \in Ofd
        PROVE  SameLock(ofd', x) /\ (p \in ofd'[x].open <=> p \in ofd[x].open)
    <3>1. SameLock(ofd', x) /\ ofd'[x].open \in {ofd[x].open, ofd[x].open \union {s}}
      BY <1>3 DEF SharedWith
    <3>2. s # p
      BY <1>0
    <3>3. QED
      BY <3>1, <3>2
  <2>2. fd'[p] = fd[p] /\ copy'[p] = copy[p] /\ tryFd'[p] = tryFd[p] /\ pc'[p] = "idle"
    BY <1>0, <1>5, <1>6
  <2>3. Known(p)'
    BY <2>1, <2>2 DEF IInv, ProcInv, Known
  <2>4. HeldInv(p)'
    BY <2>1, <2>2 DEF IInv, ProcInv, HeldInv, SameLock
  <2>5. CallInv(p)'
    BY <1>0, <2>2 DEF IInv, ProcInv, CallInv, Own, Adopting
  <2>6. OwnerInv(p)'
    BY <1>0, <1>6, <2>2 DEF IInv, ProcInv, OwnerInv
  <2>7. QED
    BY <2>3, <2>4, <2>5, <2>6 DEF ProcInv
<1>11. \A q \in Proc \ {s, p} : Same(q)
  BY <1>5, <1>6 DEF Same
<1>12. QED
  BY <1>4, <1>7, <1>8, <1>9, <1>10, <1>11, Settles, ZenonT(60) DEF Others

\* A supervisor is launched with a descriptor that carries no lock.
LEMMA LaunchUnlockedStep ==
  ASSUME IInv, NEW s \in Proc, LaunchUnlocked(s)
  PROVE  IInv' /\ Others({s})
<1>1. PICK o \in Ofd : OpenFile(s, "daemon", o) /\ Call(s, "stat", o, 0)
  BY DEF LaunchUnlocked
<1>2. /\ fd[s] = None /\ copy[s] = None /\ tryFd[s] = None /\ proc[s] = "unborn"
      /\ \A x \in Ofd : s \notin ofd[x].open
  BY UnbornHasNothing DEF LaunchUnlocked
<1>3. /\ ofd \in [Ofd -> OfdRecord] /\ ofd' \in [Ofd -> OfdRecord]
  BY <1>1, OpenTyping, NoneApart DEF IInv, TypeOK, FileLockTypeOK
<1>4. /\ Weaker(ofd') /\ LocksOpen(ofd')
      /\ \A q \in Proc \ {s} : Untouched(ofd', q)
      /\ \A other \in Ofd \ {o} : ofd'[other] = ofd[other]
      /\ ofd'[o].open = {s} /\ ofd'[o].file = "daemon"
  BY <1>1, <1>3, OpenedTable, NoneApart DEF IInv, TableInv
<1>5. /\ pc' \in [Proc -> Pc] /\ tryFd' \in [Proc -> Ofd \union {None}]
      /\ tries' \in [Proc -> 0..Attempts]
      /\ pc'[s] = "stat" /\ tryFd'[s] = o
      /\ \A q \in Proc \ {s} : pc'[q] = pc[q] /\ tryFd'[q] = tryFd[q] /\ tries'[q] = tries[q]
  <2>1. 0 \in 0..Attempts /\ "stat" \in Pc
    BY DaemonLockAssumption DEF Pc
  <2>2. QED
    BY <1>1, <2>1, CallMoves DEF IInv
<1>6. /\ proc' \in [Proc -> {"unborn", "live", "forked", "failed", "other", "dead"}]
      /\ proc'[s] = "live" /\ \A q \in Proc \ {s} : proc'[q] = proc[q]
      /\ at' = at /\ fd' = fd /\ ownerPid' = ownerPid
      /\ inheritable' = inheritable /\ copy' = copy
  BY DEF LaunchUnlocked, holdVars, IInv, TypeOK
<1>7. TypeOK'
  BY <1>3, <1>5, <1>6 DEF IInv, TypeOK, FileLockTypeOK
<1>8. TableInv'
  BY <1>4, WeakerTable DEF IInv, TableInv
<1>9. ProcInv(s)'
  <2>1. Known(s)'
    BY <1>2, <1>4, <1>5 DEF Known
  <2>2. HeldInv(s)'
    BY <1>2, <1>6 DEF HeldInv
  <2>3. CallInv(s)'
    BY <1>2, <1>4, <1>5, <1>6 DEF CallInv, Own, Adopting
  <2>4. ownerPid'[s] = None /\ ~ inheritable'[s]
    BY <1>2, <1>6 DEF IInv, ProcInv, OwnerInv
  <2>5. OwnerInv(s)'
    BY <1>2, <1>5, <1>6, <2>4 DEF OwnerInv
  <2>6. QED
    BY <2>1, <2>2, <2>3, <2>5 DEF ProcInv
<1>10. \A q \in Proc \ {s} : Same(q)
  BY <1>5, <1>6 DEF Same
<1>11. QED
  BY <1>4, <1>7, <1>8, <1>9, <1>10, Settles, ZenonT(60) DEF Others

\* adopt, as far as it only moves on or refuses: the table stays.
LEMMA AdoptMoves ==
  ASSUME IInv, NEW s \in Proc, Adopting(s), proc[s] = "live",
         UNCHANGED <<ofd, at, holdVars, copy>>,
         \/ UNCHANGED proc /\ pc[s] = "stat" /\ Call(s, "adopt", tryFd[s], 0)
         \/ proc' = [proc EXCEPT ![s] = "failed"] /\ UNCHANGED callVars
  PROVE  IInv' /\ Others({s})
<1>1. /\ ofd' = ofd /\ at' = at /\ fd' = fd /\ ownerPid' = ownerPid
      /\ inheritable' = inheritable /\ copy' = copy
      /\ proc' \in [Proc -> {"unborn", "live", "forked", "failed", "other", "dead"}]
      /\ proc'[s] \in {"live", "failed"} /\ \A q \in Proc \ {s} : proc'[q] = proc[q]
  BY DEF holdVars, IInv, TypeOK
<1>2. /\ tryFd[s] \in Ofd /\ fd[s] = None /\ copy[s] = None
  BY DEF IInv, ProcInv, CallInv
<1>3. /\ pc' \in [Proc -> Pc] /\ tryFd' \in [Proc -> Ofd \union {None}]
      /\ tries' \in [Proc -> 0..Attempts]
      /\ pc'[s] = pc[s] \/ (pc[s] = "stat" /\ pc'[s] = "adopt")
      /\ tryFd'[s] = tryFd[s]
      /\ \A q \in Proc \ {s} : pc'[q] = pc[q] /\ tryFd'[q] = tryFd[q] /\ tries'[q] = tries[q]
  <2>1. CASE UNCHANGED proc /\ pc[s] = "stat" /\ Call(s, "adopt", tryFd[s], 0)
    <3>1. 0 \in 0..Attempts /\ "adopt" \in Pc
      BY DaemonLockAssumption DEF Pc
    <3>2. TypeOK /\ Call(s, "adopt", tryFd[s], 0) /\ tryFd[s] \in Ofd \union {None}
      BY <1>2, <2>1 DEF IInv
    <3>3. QED
      BY <2>1, <3>1, <3>2, CallMoves
  <2>2. CASE UNCHANGED callVars
    BY <2>2 DEF callVars, IInv, TypeOK
  <2>3. QED
    BY <2>1, <2>2
<1>4. TypeOK'
  BY <1>1, <1>3 DEF IInv, TypeOK, FileLockTypeOK
<1>5. TableInv'
  BY <1>1 DEF IInv, TableInv, NoConflict, SameFile, LocksOpen
<1>6. ProcInv(s)'
  <2>1. Known(s)'
    BY <1>1, <1>3 DEF IInv, ProcInv, Known
  <2>2. HeldInv(s)'
    BY <1>1 DEF IInv, ProcInv, HeldInv
  <2>3. CallInv(s)'
    BY <1>1, <1>3 DEF IInv, ProcInv, CallInv, Own, Adopting
  <2>4. OwnerInv(s)'
    BY <1>1, <1>2, <1>3 DEF IInv, ProcInv, OwnerInv
  <2>5. QED
    BY <2>1, <2>2, <2>3, <2>4 DEF ProcInv
<1>7. \A q \in Proc \ {s} : Same(q)
  BY <1>1, <1>3 DEF Same
<1>8. \A q \in Proc \ {s} : Untouched(ofd', q)
  BY <1>1 DEF Untouched, SameLock
<1>9. QED
  BY <1>4, <1>5, <1>6, <1>7, <1>8, Settles, ZenonT(60) DEF Others

\* adopt asks for the lock: a shared descriptor has it already, another one is
\* the supervisor's alone.
LEMMA AdoptLocks ==
  ASSUME IInv, NEW s \in Proc, pc[s] = "adopt", proc[s] = "live",
         Grantable(tryFd[s], "ex"), Lock(tryFd[s], "ex"),
         Call(s, "adopted", tryFd[s], 0), UNCHANGED <<at, proc, holdVars, copy>>
  PROVE  IInv' /\ Others({s})
<1> DEFINE o == tryFd[s]
<1>0. /\ o \in Ofd /\ s \in ofd[o].open /\ fd[s] = None /\ copy[s] = None
      /\ ofd[o].mode = "ex" \/ ofd[o].open = {s}
      /\ ofd \in [Ofd -> OfdRecord]
  BY DEF IInv, ProcInv, CallInv, Adopting, TypeOK, FileLockTypeOK
<1>1. /\ pc' \in [Proc -> Pc] /\ tryFd' \in [Proc -> Ofd \union {None}]
      /\ tries' \in [Proc -> 0..Attempts]
      /\ pc'[s] = "adopted" /\ tryFd'[s] = o
      /\ \A q \in Proc \ {s} : pc'[q] = pc[q] /\ tryFd'[q] = tryFd[q] /\ tries'[q] = tries[q]
  <2>1. 0 \in 0..Attempts /\ "adopted" \in Pc
    BY DaemonLockAssumption DEF Pc
  <2>2. QED
    BY <1>0, <2>1, CallMoves DEF IInv
<1>2. /\ at' = at /\ proc' = proc /\ fd' = fd /\ ownerPid' = ownerPid
      /\ inheritable' = inheritable /\ copy' = copy
  BY DEF holdVars
<1>3. ofd' \in [Ofd -> OfdRecord]
  BY <1>0, LockTyping DEF Mode
<1>4. /\ NoConflict' /\ LocksOpen(ofd')
      /\ \A q \in Proc : q \notin ofd[o].open => Untouched(ofd', q)
      /\ \A other \in Ofd \ {o} : ofd'[other] = ofd[other]
      /\ ofd'[o].mode = "ex" /\ ofd'[o].open = ofd[o].open
      /\ ofd'[o].file = ofd[o].file /\ ofd'[o].gen = ofd[o].gen
      /\ ofd'[o].by = ofd[o].by
  BY <1>0, LockedTable DEF IInv, TableInv, Mode
<1>5. \A q \in Proc \ {s} : Untouched(ofd', q)
  <2>1. CASE ofd[o].mode = "ex"
    BY <1>4, <2>1 DEF Untouched, SameLock
  <2>2. CASE ofd[o].open = {s}
    BY <1>4, <2>2
  <2>3. QED
    BY <1>0, <2>1, <2>2
<1>6. TypeOK'
  BY <1>1, <1>2, <1>3 DEF IInv, TypeOK, FileLockTypeOK
<1>7. TableInv'
  BY <1>0, <1>4 DEF IInv, TableInv
<1>8. ProcInv(s)'
  <2>1. Known(s)'
    BY <1>1, <1>2, <1>4 DEF IInv, ProcInv, Known
  <2>2. HeldInv(s)'
    BY <1>0, <1>2 DEF HeldInv
  <2>3. CallInv(s)'
    BY <1>0, <1>1, <1>2, <1>4 DEF CallInv, Own, Adopting
  <2>4. OwnerInv(s)'
    BY <1>1, <1>2 DEF IInv, ProcInv, OwnerInv
  <2>5. QED
    BY <2>1, <2>2, <2>3, <2>4 DEF ProcInv
<1>9. \A q \in Proc \ {s} : Same(q)
  BY <1>1, <1>2 DEF Same
<1>10. QED
  BY <1>5, <1>6, <1>7, <1>8, <1>9, Settles, ZenonT(60) DEF Others

\* A process is done with everything it had open: by exit, or by closing the
\* one descriptor it could not adopt.
LEMMA Emptied ==
  ASSUME IInv, NEW p \in Proc,
         NEW S, ofd' = WithClosed(p, S), \A o \in Ofd : p \in ofd[o].open => o \in S,
         NEW end \in {"dead", "failed"}, proc' = [proc EXCEPT ![p] = end],
         Call(p, "idle", None, 0), at' = at,
         fd'[p] = None, copy'[p] = None, ~ inheritable'[p],
         \A q \in Proc \ {p} : /\ fd'[q] = fd[q] /\ copy'[q] = copy[q]
                               /\ ownerPid'[q] = ownerPid[q] /\ inheritable'[q] = inheritable[q],
         fd' \in [Proc -> Ofd \union {None}], copy' \in [Proc -> Ofd \union {None}],
         ownerPid' \in [Proc -> Proc \union {None}], inheritable' \in [Proc -> BOOLEAN]
  PROVE  IInv' /\ Others({p})
<1>1. ofd \in [Ofd -> OfdRecord] /\ ofd' \in [Ofd -> OfdRecord]
  BY ClosedTyping DEF IInv, TypeOK, FileLockTypeOK
<1>2. /\ Weaker(ofd') /\ LocksOpen(ofd')
      /\ \A q \in Proc \ {p} : Untouched(ofd', q)
      /\ \A x \in Ofd : p \in ofd'[x].open <=> x \notin S /\ p \in ofd[x].open
      /\ \A x \in Ofd : ofd'[x].open # {} => SameLock(ofd', x)
  BY <1>1, ClosedTable DEF IInv, TableInv
<1>3. /\ pc' \in [Proc -> Pc] /\ tryFd' \in [Proc -> Ofd \union {None}]
      /\ tries' \in [Proc -> 0..Attempts]
      /\ pc'[p] = "idle" /\ tryFd'[p] = None
      /\ \A q \in Proc \ {p} : pc'[q] = pc[q] /\ tryFd'[q] = tryFd[q] /\ tries'[q] = tries[q]
  <2>1. 0 \in 0..Attempts /\ "idle" \in Pc
    BY DaemonLockAssumption DEF Pc
  <2>2. TypeOK /\ Call(p, "idle", None, 0) /\ None \in Ofd \union {None}
    BY DEF IInv
  <2>3. QED
    BY <2>1, <2>2, CallMoves
<1>4. /\ proc' \in [Proc -> {"unborn", "live", "forked", "failed", "other", "dead"}]
      /\ proc'[p] = end /\ \A q \in Proc \ {p} : proc'[q] = proc[q]
  BY DEF IInv, TypeOK
<1>5. TypeOK'
  BY <1>1, <1>3, <1>4 DEF IInv, TypeOK, FileLockTypeOK
<1>6. TableInv'
  <2>1. ASSUME NEW x \in Ofd, ofd'[x].open # {} PROVE ofd'[x].file = "daemon"
    <3>1. ofd[x].open # {}
      BY <1>1, <2>1 DEF WithClosed, Closed
    <3>2. SameLock(ofd', x)
      BY <1>2, <2>1
    <3>3. QED
      BY <3>1, <3>2 DEF IInv, TableInv, SameLock
  <2>2. QED
    BY <1>2, <2>1, WeakerTable DEF IInv
<1>7. ProcInv(p)'
  <2>1. ASSUME NEW x \in Ofd PROVE p \notin ofd'[x].open
    BY <1>2
  <2>2. Known(p)'
    BY <2>1 DEF Known
  <2>3. HeldInv(p)'
    BY DEF HeldInv
  <2>4. CallInv(p)'
    BY <1>3 DEF CallInv, Own, Adopting
  <2>5. OwnerInv(p)'
    BY <1>3, <1>4 DEF OwnerInv
  <2>6. QED
    BY <2>2, <2>3, <2>4, <2>5 DEF ProcInv
<1>8. \A q \in Proc \ {p} : Same(q)
  BY <1>3, <1>4 DEF Same
<1>9. ASSUME NEW q \in Proc PROVE ProcInv(q)'
  <2>1. CASE q = p
    BY <1>7, <2>1
  <2>2. CASE q # p
    BY <1>2, <1>8, <2>2, Frame DEF IInv
  <2>3. QED
    BY <2>1, <2>2
<1>10. QED
  BY <1>2, <1>5, <1>6, <1>8, <1>9 DEF IInv, Others

\* The steps of adopt, refused or not.
LEMMA AdoptSteps ==
  ASSUME IInv, NEW s \in Proc, AdoptStat(s) \/ AdoptLock(s) \/ NotAdopted(s)
  PROVE  IInv' /\ Others({s})
<1>1. Adopting(s) /\ proc[s] = "live"
  BY DEF AdoptStat, AdoptLock, NotAdopted, At, Adopting
<1>2. tryFd[s] \in Ofd /\ fd[s] = None /\ copy[s] = None /\ ~ inheritable[s]
  BY <1>1 DEF IInv, ProcInv, CallInv, OwnerInv
<1>3. CASE AdoptRefused(s) /\ UNCHANGED <<at, holdVars, copy>>
  BY <1>1, <1>3, AdoptMoves DEF AdoptRefused
<1>4. CASE AdoptStat(s)
  <2>1. CASE Call(s, "adopt", tryFd[s], 0) /\ UNCHANGED <<ofd, proc>>
    BY <1>1, <1>4, <2>1, AdoptMoves DEF AdoptStat, At
  <2>2. QED
    BY <1>3, <1>4, <2>1 DEF AdoptStat
<1>5. CASE AdoptLock(s)
  <2>1. CASE /\ Grantable(tryFd[s], "ex") /\ Lock(tryFd[s], "ex")
             /\ Call(s, "adopted", tryFd[s], 0) /\ UNCHANGED proc
    BY <1>1, <1>5, <2>1, AdoptLocks DEF AdoptLock, At
  <2>2. QED
    BY <1>3, <1>5, <2>1 DEF AdoptLock
<1>6. CASE NotAdopted(s)
  <2>1. CASE /\ ofd' = WithClosed(s, {tryFd[s]})
             /\ proc' = [proc EXCEPT ![s] = "failed"] /\ Call(s, "idle", None, 0)
    <3>1. ASSUME NEW o \in Ofd, s \in ofd[o].open PROVE o \in {tryFd[s]}
      BY <1>2, <3>1, NoneApart DEF IInv, ProcInv, Known
    <3>2. at' = at /\ fd' = fd /\ copy' = copy /\ ownerPid' = ownerPid /\ inheritable' = inheritable
      BY <1>6 DEF NotAdopted, holdVars
    <3>3. /\ fd' \in [Proc -> Ofd \union {None}] /\ copy' \in [Proc -> Ofd \union {None}]
          /\ ownerPid' \in [Proc -> Proc \union {None}] /\ inheritable' \in [Proc -> BOOLEAN]
      BY <3>2 DEF IInv, TypeOK
    <3>4. QED
      BY <1>2, <2>1, <3>1, <3>2, <3>3, Emptied
  <2>2. QED
    BY <1>3, <1>6, <2>1 DEF NotAdopted
<1>7. QED
  BY <1>4, <1>5, <1>6

\* A process dies and the kernel closes what it had open.
LEMMA DieStep ==
  ASSUME IInv, NEW p \in Proc, Die(p)
  PROVE  IInv' /\ Others({p})
<1>1. \A o \in Ofd : p \in ofd[o].open => o \in Ofd
  OBVIOUS
<1>2. /\ fd' \in [Proc -> Ofd \union {None}] /\ copy' \in [Proc -> Ofd \union {None}]
      /\ ownerPid' \in [Proc -> Proc \union {None}] /\ inheritable' \in [Proc -> BOOLEAN]
      /\ fd'[p] = None /\ copy'[p] = None /\ ~ inheritable'[p]
      /\ \A q \in Proc \ {p} : /\ fd'[q] = fd[q] /\ copy'[q] = copy[q]
                               /\ ownerPid'[q] = ownerPid[q] /\ inheritable'[q] = inheritable[q]
  BY DEF Die, IInv, TypeOK
<1>3. ofd' = WithClosed(p, Ofd) /\ proc' = [proc EXCEPT ![p] = "dead"]
      /\ Call(p, "idle", None, 0) /\ at' = at
  BY DEF Die
<1>4. QED
  BY <1>1, <1>2, <1>3, Emptied

\* A fork: the child has its parent's bookkeeping and descriptors, and is not
\* the owner.
LEMMA ForkStep ==
  ASSUME IInv, NEW p \in Proc, NEW c \in Proc, Fork(p, c)
  PROVE  IInv' /\ Others({c, p})
<1> DEFINE S == {o \in Ofd : p \in ofd[o].open}
<1>0. /\ proc[p] = "live" /\ pc[p] = "idle" /\ proc[c] = "unborn" /\ c # p
      /\ ofd' = WithForked(p, c)
  BY DEF Fork, Ready
<1>1. /\ fd[c] = None /\ copy[c] = None /\ tryFd[c] = None /\ pc[c] = "idle"
      /\ \A x \in Ofd : c \notin ofd[x].open
  BY <1>0, UnbornHasNothing
<1>2. ofd \in [Ofd -> OfdRecord] /\ ofd' \in [Ofd -> OfdRecord] /\ SharedWith(ofd', c, S)
  BY <1>0, ForkShares, ForkedTyping DEF IInv, TypeOK, FileLockTypeOK
<1>3. /\ Weaker(ofd') /\ LocksOpen(ofd')
      /\ \A q \in Proc \ {c, p} : Untouched(ofd', q)
  BY <1>2, SharedTable DEF IInv, TableInv
<1>4. /\ proc' \in [Proc -> {"unborn", "live", "forked", "failed", "other", "dead"}]
      /\ fd' \in [Proc -> Ofd \union {None}] /\ copy' \in [Proc -> Ofd \union {None}]
      /\ ownerPid' \in [Proc -> Proc \union {None}] /\ inheritable' \in [Proc -> BOOLEAN]
      /\ proc'[c] = "forked" /\ fd'[c] = fd[p] /\ copy'[c] = copy[p]
      /\ ownerPid'[c] = ownerPid[p] /\ inheritable'[c] = inheritable[p]
      /\ \A q \in Proc \ {c} : /\ proc'[q] = proc[q] /\ fd'[q] = fd[q] /\ copy'[q] = copy[q]
                               /\ ownerPid'[q] = ownerPid[q] /\ inheritable'[q] = inheritable[q]
  BY DEF Fork, IInv, TypeOK
<1>5. at' = at /\ pc' = pc /\ tryFd' = tryFd /\ tries' = tries
  BY DEF Fork, callVars
<1>6. TypeOK'
  BY <1>2, <1>4, <1>5 DEF IInv, TypeOK, FileLockTypeOK
<1>7. TableInv'
  <2>1. ASSUME NEW x \in Ofd, ofd'[x].open # {} PROVE ofd'[x].file = "daemon"
    <3>1. ofd[x].open # {} /\ SameLock(ofd', x)
      BY <1>2, <2>1 DEF SharedWith
    <3>2. QED
      BY <3>1 DEF SameLock, IInv, TableInv
  <2>2. QED
    BY <1>3, <2>1, WeakerTable DEF IInv
<1>8. ASSUME NEW x \in Ofd
      PROVE  /\ SameLock(ofd', x)
             /\ p \in ofd'[x].open <=> p \in ofd[x].open
             /\ c \in ofd'[x].open <=> p \in ofd[x].open
  <2>1. SameLock(ofd', x)
    BY <1>2 DEF SharedWith
  <2>2. ofd'[x].open = IF p \in ofd[x].open THEN ofd[x].open \union {c} ELSE ofd[x].open
    BY <1>2 DEF SharedWith
  <2>3. QED
    BY <1>0, <1>1, <2>1, <2>2
<1>9. /\ tryFd[p] = None /\ ownerPid[p] = (IF fd[p] = None THEN None ELSE p)
      /\ ~ inheritable[p]
  BY <1>0 DEF IInv, ProcInv, CallInv, OwnerInv
<1>10. ASSUME NEW q \in {p, c} PROVE ProcInv(q)'
  <2>1. /\ fd'[q] = fd[p] /\ copy'[q] = copy[p] /\ tryFd'[q] = None /\ pc'[q] = "idle"
        /\ proc'[q] = IF q = p THEN "live" ELSE "forked"
        /\ ownerPid'[q] = ownerPid[p] /\ ~ inheritable'[q]
    BY <1>0, <1>1, <1>4, <1>5, <1>9
  <2>2. ASSUME NEW x \in Ofd, q \in ofd'[x].open PROVE x \in {fd[p], copy[p]}
    <3>1. p \in ofd[x].open
      BY <1>8, <2>2
    <3>2. QED
      BY <1>9, <3>1, NoneApart DEF IInv, ProcInv, Known
  <2>3. Known(q)'
    BY <2>1, <2>2 DEF Known
  <2>4. ASSUME NEW x \in {fd[p], copy[p]} \ {None}
        PROVE  x \in Ofd /\ q \in ofd'[x].open /\ ofd'[x].mode = "ex"
    <3>1. x \in Ofd /\ p \in ofd[x].open /\ ofd[x].mode = "ex"
      BY DEF IInv, ProcInv, HeldInv
    <3>2. QED
      BY <1>8, <3>1 DEF SameLock
  <2>5. HeldInv(q)'
    BY <2>1, <2>4 DEF HeldInv
  <2>6. CallInv(q)'
    BY <2>1 DEF CallInv, Own, Adopting
  <2>7. OwnerInv(q)'
    BY <1>0, <1>9, <2>1, NoneApart DEF OwnerInv
  <2>8. QED
    BY <2>3, <2>5, <2>6, <2>7 DEF ProcInv
<1>11. \A q \in Proc \ {c, p} : Same(q)
  BY <1>4, <1>5 DEF Same
<1>12. QED
  BY <1>3, <1>6, <1>7, <1>10, <1>11, Settles, ZenonT(60) DEF Others

\* A launched program inherits nothing, because nothing is left inheritable.
LEMMA SpawnStep ==
  ASSUME IInv, NEW p \in Proc, NEW b \in Proc, Spawn(p, b)
  PROVE  IInv' /\ Others({b})
<1>1. /\ ofd' = ofd /\ at' = at /\ fd' = fd /\ ownerPid' = ownerPid
      /\ inheritable' = inheritable /\ copy' = copy
      /\ pc' = pc /\ tryFd' = tryFd /\ tries' = tries
  BY DEF Spawn, holdVars, callVars, IInv, ProcInv, OwnerInv
<1>2. /\ proc' \in [Proc -> {"unborn", "live", "forked", "failed", "other", "dead"}]
      /\ proc[b] = "unborn" /\ proc'[b] = "other" /\ \A q \in Proc \ {b} : proc'[q] = proc[q]
  BY DEF Spawn, IInv, TypeOK
<1>3. TypeOK'
  BY <1>1, <1>2 DEF IInv, TypeOK, FileLockTypeOK
<1>4. TableInv'
  BY <1>1 DEF IInv, TableInv, NoConflict, SameFile, LocksOpen
<1>5. ProcInv(b)'
  <2>1. fd[b] = None /\ copy[b] = None /\ tryFd[b] = None /\ pc[b] = "idle" /\ ~ inheritable[b]
    BY <1>2, UnbornHasNothing DEF IInv, ProcInv, OwnerInv
  <2>2. Known(b)'
    BY <1>1 DEF IInv, ProcInv, Known
  <2>3. HeldInv(b)'
    BY <1>1, <2>1 DEF HeldInv
  <2>4. CallInv(b)'
    BY <1>1, <2>1 DEF CallInv, Own, Adopting
  <2>5. OwnerInv(b)'
    BY <1>1, <1>2, <2>1 DEF OwnerInv
  <2>6. QED
    BY <2>2, <2>3, <2>4, <2>5 DEF ProcInv
<1>6. \A q \in Proc \ {b} : Same(q)
  BY <1>1, <1>2 DEF Same
<1>7. \A q \in Proc \ {b} : Untouched(ofd', q)
  BY <1>1 DEF Untouched, SameLock
<1>8. QED
  BY <1>3, <1>4, <1>5, <1>6, <1>7, Settles, ZenonT(60) DEF Others

\* Replacing the file, or a step outside Next, concerns no descriptor.
LEMMA FileMoves ==
  ASSUME IInv, ReplaceFile \/ UNCHANGED vars
  PROVE  IInv'
<1>1. /\ ofd' = ofd /\ proc' = proc /\ fd' = fd /\ ownerPid' = ownerPid
      /\ inheritable' = inheritable /\ copy' = copy
      /\ pc' = pc /\ tryFd' = tryFd /\ tries' = tries
  BY DEF ReplaceFile, vars, holdVars, callVars
<1>2. at' \in [File -> Nat]
  BY DEF ReplaceFile, Replace, vars, IInv, TypeOK, FileLockTypeOK
<1>3. TypeOK'
  BY <1>1, <1>2 DEF IInv, TypeOK, FileLockTypeOK
<1>4. TableInv'
  BY <1>1 DEF IInv, TableInv, NoConflict, SameFile, LocksOpen
<1>5. \A q \in Proc : Same(q)
  BY <1>1 DEF Same
<1>6. \A q \in Proc : Untouched(ofd', q)
  BY <1>1 DEF Untouched, SameLock
<1>7. \A q \in Proc : ProcInv(q)'
  BY <1>5, <1>6, Frame DEF IInv
<1>8. QED
  BY <1>3, <1>4, <1>7 DEF IInv

-----------------------------------------------------------------------------
\* The invariant of DaemonLock: descriptors are those the bookkeeping names,
\* what is held or copied carries the exclusive lock, a call in progress works
\* on a descriptor of its own and nothing stays inheritable.
THEOREM DaemonInductive == Spec => []IInv
<1>1. ASSUME Init PROVE IInv
  <2>1. TypeOK
    <3>1. Closed \in OfdRecord
      BY DEF Closed, OfdRecord, Mode
    <3>2. QED
      BY <1>1, <3>1, DaemonLockAssumption DEF Init, TypeOK, FileLockTypeOK, FileLockInit, Pc
  <2>2. TableInv
    BY <1>1 DEF Init, FileLockInit, TableInv, NoConflict, Conflict, LocksOpen, Closed
  <2>3. ASSUME NEW p \in Proc PROVE ProcInv(p)
    <3>1. \A o \in Ofd : ofd[o].open = {}
      BY <1>1 DEF Init, FileLockInit, Closed
    <3>2. /\ fd[p] = None /\ copy[p] = None /\ tryFd[p] = None /\ pc[p] = "idle"
          /\ ownerPid[p] = None /\ ~ inheritable[p] /\ proc[p] \in {"unborn", "live"}
      BY <1>1 DEF Init
    <3>3. QED
      BY <3>1, <3>2 DEF ProcInv, Known, HeldInv, CallInv, OwnerInv, Own, Adopting
  <2>4. QED
    BY <2>1, <2>2, <2>3 DEF IInv
<1>2. ASSUME IInv, [Next]_vars PROVE IInv'
  <2>1. ASSUME NEW p \in Proc, Acquire(p) PROVE IInv'
    BY <1>2, <2>1, OpenStep, AskSteps, GiveBackSteps, TookStep, FdGoneSteps DEF Acquire
  <2>2. ASSUME NEW p \in Proc, Adopt(p) PROVE IInv'
    BY <1>2, <2>2, LaunchUnlockedStep, AdoptSteps, TookStep DEF Adopt
  <2>3. ASSUME NEW p \in Proc, HandOver(p) PROVE IInv'
    BY <1>2, <2>3, CopyStep, CloseCopyStep, LaunchStep DEF HandOver
  <2>4. ASSUME NEW p \in Proc, Observe(p) PROVE IInv'
    <3>1. CASE Probe(p)
      BY <1>2, <3>1, ProbeStep
    <3>2. QED
      BY <1>2, <2>4, <3>1, AskSteps, GiveBackSteps DEF Observe
  <2>5. ASSUME NEW p \in Proc, Lifecycle(p) PROVE IInv'
    BY <1>2, <2>5, FdGoneSteps, DieStep, ForkStep, SpawnStep DEF Lifecycle
  <2>6. CASE ReplaceFile \/ UNCHANGED vars
    BY <1>2, <2>6, FileMoves
  <2>7. QED
    BY <1>2, <2>1, <2>2, <2>3, <2>4, <2>5, <2>6 DEF Next
<1>3. QED
  BY <1>1, <1>2, PTL DEF Spec

-----------------------------------------------------------------------------
\* The variables of DaemonLock keep their types; in particular
\* acquire_locked_fd makes no round beyond its last.
THEOREM DaemonTyping == Spec => []TypeOK
BY DaemonInductive, PTL DEF IInv

\* Two open descriptors that carry conflicting locks are not on one file.
LEMMA ConflictApart ==
  ASSUME IInv, NEW o1 \in Ofd, NEW o2 \in Ofd, SameFile(o1, o2), ofd[o1].mode = "ex",
         ofd[o2].mode # "none"
  PROVE  o1 = o2
BY DEF IInv, TableInv, NoConflict, Conflict

\* What the invariant says of owners and of the processes beside them.
LEMMA SafetyFromInvariant ==
  ASSUME IInv
  PROVE  OwnerKeepsLock /\ OneDaemon /\ NoOrphanLock /\ FreeMeansFree
<1>1. ASSUME NEW p \in Proc, Held(p)
      PROVE  fd[p] \in Ofd /\ p \in ofd[fd[p]].open /\ ofd[fd[p]].mode = "ex"
             /\ ofd[fd[p]].file = "daemon"
  BY <1>1 DEF Held, IInv, TableInv, ProcInv, HeldInv
<1>2. OwnerKeepsLock
  BY <1>1 DEF OwnerKeepsLock
<1>3. OneDaemon
  <2>1. ASSUME NEW p \in Proc, NEW q \in Proc, Held(p), IsStillAt(fd[p]), Held(q), IsStillAt(fd[q])
        PROVE  fd[p] = fd[q]
    <3>1. SameFile(fd[p], fd[q])
      BY <1>1, <2>1 DEF SameFile, IsStillAt
    <3>2. QED
      BY <1>1, <2>1, <3>1, ConflictApart
  <2>2. QED
    BY <2>1 DEF OneDaemon
<1>4. NoOrphanLock
  <2>1. ASSUME NEW o \in Ofd, ofd[o].mode # "none"
        PROVE  \E p \in ofd[o].open :
                 (Held(p) /\ fd[p] = o) \/ o \in {copy[p], tryFd[p]} \/ proc[p] = "forked"
    <3>1. PICK p \in ofd[o].open : TRUE
      BY <2>1 DEF IInv, TableInv, LocksOpen
    <3>2. p \in Proc
      BY <3>1 DEF IInv, TypeOK, FileLockTypeOK, OfdRecord
    <3>3. CASE o = fd[p]
      <4>1. o # None
        BY NoneApart
      <4>2. proc[p] \in {"live", "forked"}
        BY <3>2, <3>3, <4>1 DEF IInv, TypeOK, ProcInv, OwnerInv
      <4>3. proc[p] = "live" => Held(p)
        BY <3>2, <3>3, <4>1 DEF IInv, ProcInv, OwnerInv, Held
      <4>4. QED
        BY <3>1, <3>3, <4>2, <4>3
    <3>4. CASE o \in {copy[p], tryFd[p]}
      BY <3>1, <3>4
    <3>5. QED
      BY <3>1, <3>2, <3>3, <3>4 DEF IInv, ProcInv, Known
  <2>2. QED
    BY <2>1 DEF NoOrphanLock
<1>5. FreeMeansFree
  <2>1. ASSUME NEW p \in Proc, NEW q \in Proc, AnswersFree(p), Held(q), SameFile(tryFd[p], fd[q])
        PROVE  FALSE
    <3>1. tryFd[p] \in Ofd /\ ofd[tryFd[p]].mode = "sh"
      BY <2>1 DEF AnswersFree, At, IInv, ProcInv, CallInv, Own
    <3>2. fd[q] \in Ofd /\ ofd[fd[q]].mode = "ex" /\ SameFile(fd[q], tryFd[p])
      BY <1>1, <2>1 DEF SameFile
    <3>3. QED
      BY <3>1, <3>2, ConflictApart
  <2>2. QED
    BY <2>1 DEF FreeMeansFree
<1>6. QED
  BY <1>2, <1>3, <1>4, <1>5

\* Whoever believes it owns the daemon has the kernel's exclusive lock,
\* whatever those do that share its descriptor.
THEOREM OwnerKeeps == Spec => []OwnerKeepsLock
BY DaemonInductive, SafetyFromInvariant, PTL

\* The daemon has one owner, through one lock, at the path.
THEOREM OneOwner == Spec => []OneDaemon
BY DaemonInductive, SafetyFromInvariant, PTL

\* Nobody but an owner, a hand-over, a call in progress or a fork child that is
\* about to run the hook keeps daemon.lock locked.
THEOREM NoBystander == Spec => []NoOrphanLock
BY DaemonInductive, SafetyFromInvariant, PTL

\* The probe never calls the daemon's place free while there is an owner.
THEOREM ProbeIsRight == Spec => []FreeMeansFree
BY DaemonInductive, SafetyFromInvariant, PTL

-----------------------------------------------------------------------------
\* The refinement.  A process in the line is there through a descriptor that
\* it has open and that has the exclusive lock on the file at the path.
LEMMA Through ==
  ASSUME IInv, NEW p \in Proc, NEW o \in Ofd, InLine(p, o)
  PROVE  /\ p \in ofd[o].open /\ ofd[o].mode = "ex" /\ ofd[o].file = "daemon"
         /\ IsStillAt(o) /\ LineLock # {} /\ Line # {}
         /\ o \in {fd[p], copy[p]} \/ (Adopting(p) /\ o = tryFd[p])
<1>1. p \in Line /\ o \in LineLock
  BY DEF Line, LineLock
<1>2. o # None
  BY NoneApart
<1>3. p \in ofd[o].open /\ ofd[o].mode = "ex"
  BY <1>2 DEF InLine, Held, Adopting, IInv, ProcInv, HeldInv, CallInv
<1>4. ofd[o].file = "daemon"
  BY <1>3 DEF IInv, TableInv
<1>5. QED
  BY <1>1, <1>3, <1>4 DEF InLine, Adopting

\* All that are in the line are there through one descriptor.
LEMMA OneLock ==
  ASSUME IInv, NEW p \in Proc, NEW o \in Ofd, InLine(p, o)
  PROVE  LineLock = {o}
<1>1. ASSUME NEW q \in Proc, NEW x \in Ofd, InLine(q, x) PROVE x = o
  <2>1. /\ ofd[o].mode = "ex" /\ ofd[o].file = "daemon" /\ IsStillAt(o)
        /\ ofd[x].mode = "ex" /\ ofd[x].file = "daemon" /\ IsStillAt(x)
    BY <1>1, Through
  <2>2. SameFile(x, o)
    BY <2>1 DEF SameFile, IsStillAt
  <2>3. QED
    BY <2>1, <2>2, ConflictApart
<1>2. QED
  BY <1>1 DEF LineLock

\* Nobody's place in the line changes by a step that leaves it alone.
LEMMA Keeps ==
  ASSUME IInv, NEW q \in Proc, Same(q), Untouched(ofd', q), at' = at, NEW o \in Ofd
  PROVE  InLine(q, o)' <=> InLine(q, o)
<1>1. /\ fd'[q] = fd[q] /\ copy'[q] = copy[q] /\ tryFd'[q] = tryFd[q] /\ pc'[q] = pc[q]
      /\ ownerPid'[q] = ownerPid[q]
  BY DEF Same
<1>2. CASE o \in {fd[q], copy[q]} \/ (Adopting(q) /\ o = tryFd[q])
  <2>1. q \in ofd[o].open
    BY <1>2, NoneApart DEF IInv, ProcInv, HeldInv, CallInv
  <2>2. SameLock(ofd', o)
    BY <2>1 DEF Untouched
  <2>3. IsStillAt(o)' <=> IsStillAt(o)
    BY <2>2 DEF IsStillAt, SameLock
  <2>4. Held(q)' <=> Held(q)
    BY <1>1 DEF Held
  <2>5. QED
    BY <1>1, <2>2, <2>3, <2>4 DEF InLine, SameLock
<1>3. CASE ~ (o \in {fd[q], copy[q]} \/ (Adopting(q) /\ o = tryFd[q]))
  BY <1>1, <1>3 DEF InLine, Adopting
<1>4. QED
  BY <1>2, <1>3

\* A step of a process that is there, and gets no place it had not, lets it
\* leave or changes nothing.
LEMMA Leaves ==
  ASSUME IInv, NEW p \in Proc, Others({p}), at' = at, proc[p] # "unborn", proc'[p] # "unborn",
         \A o \in Ofd : InLine(p, o)' => InLine(p, o)
  PROVE  [Succession!Next]_(Succession!vars)
<1>1. \A q \in Proc, o \in Ofd : InLine(q, o)' => InLine(q, o)
  BY Keeps DEF Others
<1>2. Started' = Started
  BY DEF Started, Others, Same
<1>3. Line' \subseteq Line /\ LineLock' \subseteq LineLock
  BY <1>1 DEF Line, LineLock
<1>4. Line = {} <=> LineLock = {}
  BY DEF Line, LineLock
<1>5. LineLock' = IF Line' = {} THEN {} ELSE LineLock
  <2>1. CASE Line' = {}
    BY <2>1 DEF Line, LineLock
  <2>2. CASE Line' # {}
    <3>1. PICK q \in Proc, o \in Ofd : InLine(q, o)'
      BY <2>2 DEF Line
    <3>2. o \in LineLock' /\ LineLock = {o}
      BY <1>1, <3>1, OneLock DEF LineLock
    <3>3. QED
      BY <1>3, <2>2, <3>2
  <2>3. QED
    BY <2>1, <2>2
<1>6. CASE Line' = Line
  BY <1>2, <1>4, <1>5, <1>6 DEF Succession!vars
<1>7. CASE Line' # Line
  <2>1. Line \ Line' \in SUBSET Line /\ Line \ Line' # {} /\ Line' = Line \ (Line \ Line')
    BY <1>3, <1>7
  <2>2. Succession!Leave(Line \ Line')
    BY <1>2, <1>5, <2>1 DEF Succession!Leave
  <2>3. QED
    BY <2>1, <2>2 DEF Succession!Next
<1>8. QED
  BY <1>6, <1>7

\* A step that gives a process that is there a place in an empty line elects it.
LEMMA Elects ==
  ASSUME IInv, NEW p \in Proc, Others({p}), at' = at, proc[p] # "unborn", proc'[p] # "unborn",
         Line = {}, NEW o \in Ofd, \A x \in Ofd : InLine(p, x)' <=> x = o
  PROVE  Succession!Next
<1>1. \A q \in Proc \ {p}, x \in Ofd : ~ InLine(q, x)'
  BY Keeps DEF Others, Line
<1>2. Line' = {p} /\ LineLock' = {o}
  BY <1>1 DEF Line, LineLock
<1>3. Started' = Started /\ p \in Started
  BY DEF Started, Others, Same
<1>4. QED
  BY <1>2, <1>3 DEF Succession!Next, Succession!Elect

\* A step that starts s and gives nobody a place only starts it.
LEMMA Starts ==
  ASSUME IInv, NEW s \in Proc, proc[s] = "unborn", proc'[s] # "unborn",
         \A q \in Proc \ {s} : proc'[q] = "unborn" <=> proc[q] = "unborn",
         \A q \in Proc \ {s}, o \in Ofd : InLine(q, o)' <=> InLine(q, o),
         \A o \in Ofd : ~ InLine(s, o) /\ ~ InLine(s, o)'
  PROVE  Succession!Next
<1>1. Line' = Line /\ LineLock' = LineLock
  BY DEF Line, LineLock
<1>2. s \notin Started /\ Started' = Started \union {s}
  BY DEF Started
<1>3. QED
  BY <1>1, <1>2 DEF Succession!Next, Succession!Start

\* A step by which p starts s, with no place but through what p is there
\* through, hands over or only starts it.
LEMMA Joins ==
  ASSUME IInv, NEW p \in Proc, NEW s \in Proc, p # s, Others({s, p}), at' = at,
         proc[s] = "unborn", proc'[s] # "unborn", proc[p] # "unborn", proc'[p] # "unborn",
         \A o \in Ofd : InLine(p, o)' <=> InLine(p, o),
         \A o \in Ofd : ~ InLine(s, o),
         \A o \in Ofd : InLine(s, o)' => InLine(p, o)
  PROVE  Succession!Next
<1>1. ASSUME NEW q \in Proc \ {s}, NEW o \in Ofd PROVE InLine(q, o)' <=> InLine(q, o)
  BY Keeps DEF Others
<1>2. \A q \in Proc \ {s} : proc'[q] = "unborn" <=> proc[q] = "unborn"
  BY DEF Others, Same
<1>3. CASE \E o \in Ofd : InLine(s, o)'
  <2>1. p \in Line /\ s \notin Line /\ Line' = Line \union {s}
    BY <1>1, <1>3 DEF Line
  <2>2. LineLock' = LineLock
    BY <1>1 DEF LineLock
  <2>3. s \notin Started /\ Started' = Started \union {s}
    BY <1>2 DEF Started
  <2>4. QED
    BY <2>1, <2>2, <2>3 DEF Succession!Next, Succession!HandOver
<1>4. CASE ~ \E o \in Ofd : InLine(s, o)'
  BY <1>1, <1>2, <1>4, Starts
<1>5. QED
  BY <1>3, <1>4

\* Most steps touch at most a descriptor the process has no place through.
LEMMA NoNewMember ==
  ASSUME IInv, IInv', NEW p \in Proc, at' = at, ~ Adopting(p)', copy'[p] \in {copy[p], None},
         Held(p)' => Held(p) /\ fd'[p] = fd[p],
         \A o \in {fd[p], copy[p]} \ {None} : ofd'[o].mode = "ex" => SameLock(ofd', o)
  PROVE  \A o \in Ofd : InLine(p, o)' => InLine(p, o)
<1> SUFFICES ASSUME NEW o \in Ofd, InLine(p, o)' PROVE InLine(p, o)
  OBVIOUS
<1>1. o # None
  BY NoneApart
<1>2. (Held(p) /\ o = fd[p]) \/ o = copy[p]
  BY <1>1 DEF InLine, Adopting
<1>3. ofd'[o].mode = "ex"
  BY <1>1 DEF InLine, Held, Adopting, IInv, ProcInv, HeldInv
<1>4. SameLock(ofd', o)
  BY <1>1, <1>2, <1>3
<1>5. IsStillAt(o) /\ ofd[o].mode = "ex"
  BY <1>3, <1>4 DEF InLine, IsStillAt, SameLock
<1>6. QED
  BY <1>2, <1>5 DEF InLine

\* The steps that open or close descriptors grant no lock.
LEMMA WeakerSteps ==
  ASSUME IInv, NEW p \in Proc,
         \/ Open(p) \/ Retry(p) \/ NotElected(p) \/ Release(p) \/ CloseCopy(p)
         \/ Probe(p) \/ ProbeEnds(p) \/ ForkHook(p) \/ Die(p)
  PROVE  Weaker(ofd')
<1>1. ofd \in [Ofd -> OfdRecord]
  BY DEF IInv, TypeOK, FileLockTypeOK
<1>2. ASSUME NEW o \in Ofd, OpenFile(p, "daemon", o) PROVE Weaker(ofd')
  BY <1>1, <1>2, OpenedTable, NoneApart
<1>3. ASSUME NEW S, ofd' = WithClosed(p, S) PROVE Weaker(ofd')
  BY <1>1, <1>3, ClosedTable
<1>4. ASSUME ofd' = ofd PROVE Weaker(ofd')
  BY <1>4 DEF Weaker, SameLock
<1>5. CASE Open(p) \/ Probe(p)
  BY <1>2, <1>5 DEF Open, Probe
<1>6. CASE Retry(p) \/ NotElected(p)
  <2>1. tryFd[p] \in Ofd /\ ofd[tryFd[p]].open = {p} /\ ofd' = WithReleased(p, tryFd[p])
    BY <1>6 DEF Retry, NotElected, At, Own, IInv, ProcInv, CallInv
  <2>2. QED
    BY <1>1, <1>3, <2>1, ReleasedAlone
<1>7. CASE Release(p) \/ ForkHook(p)
  BY <1>3, <1>4, <1>7 DEF Release, ForkHook, WithFdClosed
<1>8. CASE CloseCopy(p) \/ ProbeEnds(p) \/ Die(p)
  BY <1>3, <1>4, <1>8 DEF CloseCopy, ProbeEnds, Die
<1>9. QED
  BY <1>5, <1>6, <1>7, <1>8

\* Acquisitions that are not granted yet, probes, releases, closes and deaths
\* make no member of the process.
LEMMA QuietSteps ==
  ASSUME IInv, IInv', NEW p \in Proc, Others({p}),
         \/ Open(p) \/ Retry(p) \/ NotElected(p) \/ Release(p) \/ CloseCopy(p)
         \/ Probe(p) \/ ProbeEnds(p) \/ ForkHook(p) \/ Die(p)
  PROVE  [Succession!Next]_(Succession!vars)
<1>1. \A o \in {fd[p], copy[p]} \ {None} : ofd'[o].mode = "ex" => SameLock(ofd', o)
  <2>1. Weaker(ofd')
    BY WeakerSteps
  <2>2. {fd[p], copy[p]} \ {None} \subseteq Ofd
    BY DEF IInv, TypeOK
  <2>3. QED
    BY <2>1, <2>2 DEF Weaker
<1>2. /\ at' = at /\ copy'[p] \in {copy[p], None}
      /\ (fd'[p] = fd[p] /\ ownerPid'[p] = ownerPid[p]) \/ fd'[p] = None
  BY DEF Open, Retry, NotElected, Release, CloseCopy, Probe, ProbeEnds, ForkHook, Discarded, Die,
     holdVars, IInv, TypeOK
<1>3. pc'[p] \notin {"stat", "adopt", "adopted"}
  <2>1. CASE Open(p) \/ Retry(p) \/ NotElected(p) \/ Probe(p) \/ ProbeEnds(p) \/ Die(p)
    BY <2>1 DEF Open, Retry, NotElected, Probe, ProbeEnds, Die, Call, IInv, TypeOK
  <2>2. CASE Release(p) \/ CloseCopy(p)
    BY <2>2 DEF Release, CloseCopy, callVars, Ready
  <2>3. CASE ForkHook(p)
    BY <2>3 DEF ForkHook, Discarded, callVars, IInv, ProcInv, OwnerInv
  <2>4. QED
    BY <2>1, <2>2, <2>3
<1>4. ~ Adopting(p)' /\ (Held(p)' => Held(p) /\ fd'[p] = fd[p])
  BY <1>2, <1>3 DEF Adopting, Held
<1>5. \A o \in Ofd : InLine(p, o)' => InLine(p, o)
  BY <1>1, <1>2, <1>4, NoNewMember
<1>6. proc[p] # "unborn" /\ proc'[p] # "unborn"
  BY DEF Open, Retry, NotElected, Release, CloseCopy, Probe, ProbeEnds, ForkHook, Discarded, Die,
     At, Ready, IInv, TypeOK
<1>7. QED
  BY <1>2, <1>5, <1>6, Leaves

\* The kernel's answer makes no member either: the process is not adopting.
LEMMA AnsweredSteps ==
  ASSUME IInv, IInv', NEW p \in Proc, Others({p}), AskLock(p) \/ ProbeAsks(p)
  PROVE  [Succession!Next]_(Succession!vars)
<1>1. /\ Own(p) /\ at' = at /\ copy' = copy /\ fd' = fd /\ ownerPid' = ownerPid
      /\ proc[p] = "live" /\ proc' = proc
  BY DEF AskLock, ProbeAsks, At, Own, holdVars
<1>2. ofd' = ofd \/ \E mode \in Mode : Lock(tryFd[p], mode)
  BY DEF AskLock, ProbeAsks, Lock, Mode
<1>3. tryFd[p] \notin {fd[p], copy[p]}
  BY <1>1 DEF IInv, ProcInv, CallInv
<1>4. ASSUME NEW o \in {fd[p], copy[p]} \ {None} PROVE SameLock(ofd', o)
  <2>1. o \in Ofd /\ o # tryFd[p] /\ ofd \in [Ofd -> OfdRecord]
    BY <1>3 DEF IInv, TypeOK, FileLockTypeOK
  <2>2. ofd'[o] = ofd[o]
    BY <1>2, <2>1 DEF Lock
  <2>3. QED
    BY <2>2 DEF SameLock
<1>5. pc'[p] \notin {"stat", "adopt", "adopted"}
  BY DEF AskLock, ProbeAsks, Call, IInv, TypeOK
<1>6. \A o \in Ofd : InLine(p, o)' => InLine(p, o)
  BY <1>1, <1>4, <1>5, NoNewMember DEF Adopting, Held
<1>7. QED
  BY <1>1, <1>6, Leaves

\* Handing over is started by one that has the lock, and a launched program
\* that is no supervisor gets nothing.
LEMMA CopyRefines ==
  ASSUME IInv, NEW p \in Proc, Others({p}), InheritableCopy(p)
  PROVE  [Succession!Next]_(Succession!vars)
<1>1. /\ ofd' = ofd /\ at' = at /\ fd' = fd /\ ownerPid' = ownerPid /\ pc' = pc
      /\ tryFd' = tryFd /\ copy'[p] = fd[p] /\ fd[p] # None /\ proc[p] = "live"
      /\ proc' = proc /\ pc[p] = "idle"
  BY DEF InheritableCopy, holdVars, callVars, Ready, IInv, TypeOK
<1>2. ownerPid[p] = p
  BY <1>1 DEF IInv, ProcInv, OwnerInv
<1>3. ASSUME NEW o \in Ofd, InLine(p, o)' PROVE InLine(p, o)
  BY <1>1, <1>2, <1>3 DEF InLine, Held, IsStillAt
<1>4. QED
  BY <1>1, <1>3, Leaves

LEMMA SpawnRefines ==
  ASSUME IInv, NEW p \in Proc, NEW q \in Proc, Spawn(p, q), Others({q})
  PROVE  Succession!Next
<1>1. /\ ofd' = ofd /\ at' = at /\ fd' = fd /\ ownerPid' = ownerPid /\ pc' = pc
      /\ tryFd' = tryFd /\ copy' = copy /\ proc[q] = "unborn"
      /\ proc' = [proc EXCEPT ![q] = "other"]
  BY DEF Spawn, holdVars, callVars, IInv, ProcInv, OwnerInv
<1>2. \A r \in Proc, o \in Ofd : InLine(r, o)' <=> InLine(r, o)
  BY <1>1 DEF InLine, Held, IsStillAt
<1>3. \A o \in Ofd : ~ InLine(q, o)
  BY <1>1, UnbornHasNothing, NoneApart DEF InLine, Held
<1>4. proc'[q] # "unborn" /\ \A r \in Proc \ {q} : proc'[r] = proc[r]
  BY <1>1 DEF IInv, TypeOK
<1>5. QED
  BY <1>1, <1>2, <1>3, <1>4, Starts

\* Whoever is granted the lock of the file at the path finds the line empty:
\* a member would be through a descriptor that conflicts, or through this one.
LEMMA NobodyElse ==
  ASSUME IInv, NEW o \in Ofd, Grantable(o, "ex"), ofd[o].file = "daemon", IsStillAt(o),
         NEW q \in Proc, NEW x \in Ofd, InLine(q, x)
  PROVE  x = o /\ q \in ofd[o].open /\ ofd[o].mode = "ex"
         /\ (o \in {fd[q], copy[q]} \/ (Adopting(q) /\ o = tryFd[q]))
<1>1. /\ q \in ofd[x].open /\ ofd[x].mode = "ex" /\ ofd[x].file = "daemon"
      /\ IsStillAt(x)
      /\ x \in {fd[q], copy[q]} \/ (Adopting(q) /\ x = tryFd[q])
  BY Through
<1>2. SameFile(o, x)
  BY <1>1 DEF SameFile, IsStillAt
<1>3. x = o
  BY <1>1, <1>2 DEF Grantable, Conflict
<1>4. QED
  BY <1>1, <1>3

\* An exclusive lock that is held could be granted: nothing conflicts with it.
LEMMA HeldGrantable ==
  ASSUME IInv, NEW o \in Ofd, ofd[o].mode = "ex"
  PROVE  Grantable(o, "ex")
BY DEF IInv, TableInv, NoConflict, Grantable

\* An election starts a line where there is none.
LEMMA ElectedRefines ==
  ASSUME IInv, NEW p \in Proc, Others({p}), Elected(p)
  PROVE  Succession!Next
<1> DEFINE o == tryFd[p]
<1>1. /\ o \in Ofd /\ ofd[o].open = {p} /\ ofd[o].mode = "ex" /\ ofd[o].file = "daemon"
      /\ IsStillAt(o) /\ fd[p] = None /\ copy[p] # o /\ ~ Adopting(p) /\ proc[p] = "live"
  BY DEF Elected, At, Own, Adopting, IInv, TableInv, ProcInv, CallInv
<1>2. ASSUME NEW q \in Proc, NEW x \in Ofd, InLine(q, x) PROVE FALSE
  <2>1. q = p /\ (o \in {fd[q], copy[q]} \/ Adopting(q))
    BY <1>1, <1>2, NobodyElse, HeldGrantable
  <2>2. QED
    BY <1>1, <2>1, NoneApart
<1>3. /\ ofd' = ofd /\ at' = at /\ fd'[p] = o /\ ownerPid'[p] = p /\ copy' = copy
      /\ pc'[p] = "idle" /\ proc' = proc
  BY <1>1 DEF Elected, Take, Call, IInv, TypeOK
<1>4. ASSUME NEW x \in Ofd PROVE InLine(p, x)' <=> x = o
  <2>1. ~ (x = copy[p] /\ ofd[x].mode = "ex" /\ IsStillAt(x))
    BY <1>2 DEF InLine
  <2>2. QED
    BY <1>1, <1>3, <2>1, NoneApart DEF InLine, Held, IsStillAt
<1>5. Line = {}
  BY <1>2 DEF Line
<1>6. QED
  BY <1>1, <1>3, <1>4, <1>5, Elects

\* A supervisor that goes through adopt without asking for the lock keeps its
\* place or leaves.
LEMMA AdoptRefines ==
  ASSUME IInv, IInv', NEW s \in Proc, Others({s}),
         AdoptStat(s) \/ Adopted(s) \/ NotAdopted(s)
  PROVE  [Succession!Next]_(Succession!vars)
<1>1. Adopting(s) /\ at' = at /\ copy' = copy /\ tryFd[s] \in Ofd
      /\ fd[s] = None /\ copy[s] = None /\ proc[s] # "unborn" /\ proc'[s] # "unborn"
  BY DEF AdoptStat, Adopted, NotAdopted, AdoptRefused, At, Adopting, IInv, TypeOK, ProcInv, CallInv
<1>2. CASE AdoptRefused(s) /\ UNCHANGED <<at, holdVars, copy>>
  <2>1. ofd' = ofd /\ fd' = fd /\ ownerPid' = ownerPid /\ pc' = pc /\ tryFd' = tryFd
    BY <1>2 DEF AdoptRefused, holdVars, callVars
  <2>2. \A o \in Ofd : InLine(s, o)' => InLine(s, o)
    BY <1>1, <2>1 DEF InLine, Held, IsStillAt
  <2>3. QED
    BY <1>1, <2>2, Leaves
<1>3. CASE AdoptStat(s) /\ Call(s, "adopt", tryFd[s], 0) /\ UNCHANGED <<ofd, proc>>
  <2>1. ofd' = ofd /\ fd' = fd /\ ownerPid' = ownerPid /\ tryFd'[s] = tryFd[s]
    BY <1>3 DEF AdoptStat, Call, holdVars, IInv, TypeOK
  <2>2. \A o \in Ofd : InLine(s, o)' => InLine(s, o)
    BY <1>1, <2>1 DEF InLine, Held, IsStillAt, Adopting
  <2>3. QED
    BY <1>1, <2>2, Leaves
<1>4. CASE Adopted(s)
  <2>1. ofd[tryFd[s]].mode = "ex"
    BY <1>4 DEF Adopted, At, IInv, ProcInv, CallInv
  <2>2. ofd' = ofd /\ fd'[s] = tryFd[s] /\ pc'[s] = "idle"
    BY <1>4 DEF Adopted, Take, Call, IInv, TypeOK
  <2>3. ASSUME NEW o \in Ofd, InLine(s, o)' PROVE InLine(s, o)
    <3>1. o = tryFd[s] /\ IsStillAt(o)
      BY <1>1, <2>2, <2>3, NoneApart DEF InLine, Held, IsStillAt
    <3>2. QED
      BY <1>1, <2>1, <3>1 DEF InLine, Adopting
  <2>4. QED
    BY <1>1, <2>3, Leaves
<1>5. CASE NotAdopted(s) /\ ofd' = WithClosed(s, {tryFd[s]}) /\ Call(s, "idle", None, 0)
  <2>1. pc'[s] = "idle" /\ fd'[s] = None /\ copy'[s] = None
    BY <1>1, <1>5 DEF NotAdopted, Call, holdVars, IInv, TypeOK
  <2>2. \A o \in Ofd : ~ InLine(s, o)'
    BY <2>1, NoneApart DEF InLine, Held
  <2>3. QED
    BY <1>1, <2>2, Leaves
<1>6. QED
  BY <1>2, <1>3, <1>4, <1>5 DEF AdoptStat, NotAdopted

\* A supervisor that asks has the lock already, or is elected by the answer.
LEMMA AdoptLockRefines ==
  ASSUME IInv, NEW s \in Proc, Others({s}), AdoptLock(s)
  PROVE  [Succession!Next]_(Succession!vars)
<1> DEFINE o == tryFd[s]
<1>1. /\ Adopting(s) /\ at' = at /\ fd' = fd /\ copy' = copy /\ ownerPid' = ownerPid
      /\ o \in Ofd /\ s \in ofd[o].open /\ ofd[o].file = "daemon"
      /\ ofd[o].mode = "ex" \/ ofd[o].open = {s}
      /\ fd[s] = None /\ copy[s] = None /\ proc[s] # "unborn" /\ proc'[s] # "unborn"
  BY DEF AdoptLock, AdoptRefused, At, Adopting, holdVars, IInv, TypeOK, TableInv, ProcInv, CallInv
<1>2. CASE AdoptRefused(s)
  <2>1. ofd' = ofd /\ pc' = pc /\ tryFd' = tryFd
    BY <1>2 DEF AdoptRefused, callVars
  <2>2. \A x \in Ofd : InLine(s, x)' => InLine(s, x)
    BY <1>1, <2>1 DEF InLine, Held, IsStillAt
  <2>3. QED
    BY <1>1, <2>2, Leaves
<1>3. CASE Grantable(o, "ex") /\ Lock(o, "ex") /\ Call(s, "adopted", o, 0)
  <2>0. ofd \in [Ofd -> OfdRecord]
    BY DEF IInv, TypeOK, FileLockTypeOK
  <2>1. /\ ofd'[o].mode = "ex" /\ ofd'[o].file = ofd[o].file /\ ofd'[o].gen = ofd[o].gen
    BY <1>1, <1>3, <2>0, LockedTable DEF Mode
  <2>2. pc'[s] = "adopted" /\ tryFd'[s] = o
    BY <1>3 DEF Call, IInv, TypeOK
  <2>3. \A x \in Ofd : InLine(s, x)' <=> x = o /\ IsStillAt(o)
    BY <1>1, <2>1, <2>2, NoneApart DEF InLine, Held, IsStillAt
  <2>4. CASE ofd[o].mode = "ex" \/ ~ IsStillAt(o)
    <3>1. \A x \in Ofd : InLine(s, x)' => InLine(s, x)
      BY <1>1, <2>3, <2>4 DEF InLine, Adopting
    <3>2. QED
      BY <1>1, <3>1, Leaves
  <2>5. CASE ofd[o].mode # "ex" /\ IsStillAt(o)
    <3>1. \A q \in Proc, x \in Ofd : ~ InLine(q, x)
      BY <1>1, <1>3, <2>5, NobodyElse
    <3>2. Line = {}
      BY <3>1 DEF Line
    <3>3. QED
      BY <1>1, <2>3, <2>5, <3>2, Elects
  <2>6. QED
    BY <2>4, <2>5
<1>4. QED
  BY <1>2, <1>3 DEF AdoptLock

\* A launch with the duplicate hands the lock over.
LEMMA LaunchRefines ==
  ASSUME IInv, NEW p \in Proc, NEW s \in Proc, Others({s, p}), Launch(p, s)
  PROVE  Succession!Next
<1> DEFINE o == copy[p]
<1>1. /\ proc[p] = "live" /\ proc[s] = "unborn" /\ s # p /\ pc[p] = "idle" /\ o # None
      /\ ofd' = [ofd EXCEPT ![o].open = @ \union {s}] /\ Call(s, "stat", o, 0)
      /\ at' = at /\ fd' = fd /\ ownerPid' = ownerPid /\ copy' = copy
      /\ proc' = [proc EXCEPT ![s] = "live"]
  BY DEF Launch, Ready, holdVars
<1>2. o \in Ofd /\ ofd \in [Ofd -> OfdRecord]
  BY <1>1 DEF IInv, TypeOK, FileLockTypeOK
<1>3. \A x \in Ofd : SameLock(ofd', x)
  BY <1>1, <1>2, LaunchShares DEF SharedWith
<1>4. /\ pc'[p] = "idle" /\ pc'[s] = "stat" /\ tryFd'[s] = o
      /\ proc'[p] = "live" /\ proc'[s] = "live"
  BY <1>1 DEF Call, IInv, TypeOK
<1>5. fd[s] = None /\ copy[s] = None /\ pc[s] = "idle"
  BY <1>1, UnbornHasNothing
<1>6. ASSUME NEW x \in Ofd
      PROVE  ofd'[x].mode = ofd[x].mode /\ (IsStillAt(x)' <=> IsStillAt(x))
  BY <1>1, <1>3 DEF IsStillAt, SameLock
<1>7. ASSUME NEW x \in Ofd
      PROVE  /\ InLine(p, x)' <=> InLine(p, x)
             /\ ~ InLine(s, x)
             /\ InLine(s, x)' => InLine(p, x)
  <2>1. ~ InLine(s, x)
    BY <1>5, NoneApart DEF InLine, Held
  <2>2. InLine(p, x)' <=> InLine(p, x)
    BY <1>1, <1>4, <1>6 DEF InLine, Held
  <2>3. InLine(s, x)' => x = o /\ ofd[x].mode = "ex" /\ IsStillAt(x)
    BY <1>1, <1>4, <1>5, <1>6, NoneApart DEF InLine, Held
  <2>4. QED
    BY <2>1, <2>2, <2>3 DEF InLine
<1>8. QED
  BY <1>1, <1>4, <1>7, Joins

\* A supervisor with an unlocked descriptor is in no line yet.
LEMMA LaunchUnlockedRefines ==
  ASSUME IInv, NEW s \in Proc, Others({s}), LaunchUnlocked(s)
  PROVE  Succession!Next
<1>1. PICK o \in Ofd : OpenFile(s, "daemon", o) /\ Call(s, "stat", o, 0)
  BY DEF LaunchUnlocked
<1>2. /\ fd'[s] = None /\ copy'[s] = None /\ at' = at /\ tryFd'[s] = o
      /\ proc[s] = "unborn" /\ proc'[s] # "unborn"
  BY <1>1, UnbornHasNothing DEF LaunchUnlocked, holdVars, Call, IInv, TypeOK
<1>3. ofd'[o].mode = "none"
  BY <1>1 DEF OpenFile, IInv, TypeOK, FileLockTypeOK
<1>4. \A x \in Ofd : ~ InLine(s, x)'
  BY <1>2, <1>3, NoneApart DEF InLine, Held
<1>5. \A x \in Ofd : ~ InLine(s, x)
  BY <1>2, UnbornHasNothing, NoneApart DEF InLine, Held
<1>6. \A q \in Proc \ {s}, x \in Ofd : InLine(q, x)' <=> InLine(q, x)
  BY <1>2, Keeps DEF Others
<1>7. \A q \in Proc \ {s} : proc'[q] = "unborn" <=> proc[q] = "unborn"
  BY DEF Others, Same
<1>8. QED
  BY <1>2, <1>4, <1>5, <1>6, <1>7, Starts

\* A fork while the duplicate is open hands it to the child.
LEMMA ForkRefines ==
  ASSUME IInv, NEW p \in Proc, NEW c \in Proc, Others({c, p}), Fork(p, c)
  PROVE  Succession!Next
<1>1. /\ proc[p] = "live" /\ proc[c] = "unborn" /\ c # p /\ pc[p] = "idle" /\ at' = at
      /\ ofd' = WithForked(p, c) /\ pc' = pc /\ tryFd' = tryFd
      /\ fd'[p] = fd[p] /\ copy'[p] = copy[p] /\ ownerPid'[p] = ownerPid[p]
      /\ fd'[c] = fd[p] /\ copy'[c] = copy[p] /\ ownerPid'[c] = ownerPid[p]
      /\ proc'[p] = "live" /\ proc'[c] = "forked"
  BY DEF Fork, Ready, callVars, IInv, TypeOK
<1>2. ofd \in [Ofd -> OfdRecord]
  BY DEF IInv, TypeOK, FileLockTypeOK
<1>3. \A x \in Ofd : SameLock(ofd', x)
  BY <1>1, <1>2, ForkShares DEF SharedWith
<1>4. fd[c] = None /\ copy[c] = None /\ pc[c] = "idle" /\ pc'[c] = "idle"
  BY <1>1, UnbornHasNothing
<1>5. ASSUME NEW x \in Ofd
      PROVE  ofd'[x].mode = ofd[x].mode /\ (IsStillAt(x)' <=> IsStillAt(x))
  BY <1>1, <1>3 DEF IsStillAt, SameLock
<1>6. ~ Held(c)'
  BY <1>1 DEF Held, IInv, ProcInv, OwnerInv
<1>7. ASSUME NEW x \in Ofd
      PROVE  /\ InLine(p, x)' <=> InLine(p, x)
             /\ ~ InLine(c, x)
             /\ InLine(c, x)' => InLine(p, x)
  <2>1. ~ InLine(c, x)
    BY <1>4, NoneApart DEF InLine, Held
  <2>2. InLine(p, x)' <=> InLine(p, x)
    BY <1>1, <1>5 DEF InLine, Held
  <2>3. InLine(c, x)' => x = copy[p] /\ ofd[x].mode = "ex" /\ IsStillAt(x)
    BY <1>1, <1>4, <1>5, <1>6 DEF InLine
  <2>4. QED
    BY <2>1, <2>2, <2>3 DEF InLine
<1>8. QED
  BY <1>1, <1>7, Joins

-----------------------------------------------------------------------------
\* No descriptor is of a file that the path is yet to name, so replacing the
\* file puts members off the path and never puts one on it.
Past == \A o \in Ofd : ofd[o].gen <= at["daemon"]

\* While the path stays, every descriptor stays on a file the path has named.
LEMMA PastStays ==
  ASSUME TypeOK, Past, at' = at,
         \A o \in Ofd : ofd'[o].gen \in {0, ofd[o].gen, at["daemon"]}
  PROVE  Past'
BY DaemonLockAssumption DEF Past, TypeOK, FileLockTypeOK

\* No descriptor is of a file that the path is yet to name.
LEMMA PastInductive ==
  ASSUME IInv, Past, [Next]_vars
  PROVE  Past'
<1>0. ofd \in [Ofd -> OfdRecord] /\ at \in [File -> Nat] /\ TypeOK
  BY DEF IInv, TypeOK, FileLockTypeOK
<1>1. ASSUME ofd' = ofd, at' = at PROVE Past'
  BY <1>1 DEF Past
<1>2. ASSUME at' = at, NEW p \in Proc, NEW o \in Ofd, OpenFile(p, "daemon", o) PROVE Past'
  <2>1. ofd'[o].gen = at["daemon"] /\ \A x \in Ofd \ {o} : ofd'[x] = ofd[x]
    BY <1>0, <1>2 DEF OpenFile
  <2>2. QED
    BY <1>0, <1>2, <2>1, PastStays
<1>3. ASSUME at' = at, NEW o, NEW mode \in Mode, Lock(o, mode) PROVE Past'
  <2>1. ASSUME NEW x \in Ofd PROVE ofd'[x].gen = ofd[x].gen
    <3>1. CASE x = o
      <4>1. ofd'[x] = [ofd[x] EXCEPT !.mode = mode] /\ ofd[x] \in OfdRecord
        BY <1>0, <1>3, <3>1 DEF Lock
      <4>2. QED
        BY <4>1 DEF OfdRecord
    <3>2. CASE x # o
      BY <1>0, <1>3, <3>2 DEF Lock
    <3>3. QED
      BY <3>1, <3>2
  <2>2. QED
    BY <1>0, <1>3, <2>1, PastStays
<1>4. ASSUME at' = at, NEW p \in Proc, NEW S, ofd' = WithClosed(p, S) PROVE Past'
  <2>1. ASSUME NEW x \in Ofd PROVE ofd'[x].gen \in {0, ofd[x].gen}
    <3>1. ofd'[x] \in {ofd[x], Closed, [ofd[x] EXCEPT !.open = @ \ {p}]}
      BY <1>0, <1>4 DEF WithClosed
    <3>2. ofd[x] \in OfdRecord
      BY <1>0
    <3>3. QED
      BY <3>1, <3>2 DEF Closed, OfdRecord
  <2>2. QED
    BY <1>0, <1>4, <2>1, PastStays
<1>5. ASSUME at' = at, NEW s \in Proc, NEW S, SharedWith(ofd', s, S) PROVE Past'
  BY <1>0, <1>5, PastStays DEF SharedWith, SameLock
<1>6. ASSUME NEW p \in Proc, Acquire(p) PROVE Past'
  <2>1. CASE Open(p)
    BY <1>2, <2>1 DEF Open
  <2>2. CASE AskLock(p)
    BY <1>1, <1>3, <2>2 DEF AskLock, Mode
  <2>3. CASE Retry(p) \/ NotElected(p)
    <3>1. tryFd[p] \in Ofd /\ ofd[tryFd[p]].open = {p} /\ ofd' = WithReleased(p, tryFd[p])
          /\ at' = at
      BY <2>3 DEF Retry, NotElected, At, Own, IInv, ProcInv, CallInv
    <3>2. ofd' = WithClosed(p, {tryFd[p]})
      BY <1>0, <3>1, ReleasedAlone
    <3>3. QED
      BY <1>4, <3>1, <3>2
  <2>4. CASE Elected(p)
    BY <1>1, <2>4 DEF Elected
  <2>5. CASE Release(p)
    BY <1>1, <1>4, <2>5 DEF Release, WithFdClosed
  <2>6. QED
    BY <1>6, <2>1, <2>2, <2>3, <2>4, <2>5 DEF Acquire
<1>7. ASSUME NEW s \in Proc, Adopt(s) PROVE Past'
  <2>1. CASE LaunchUnlocked(s)
    BY <1>2, <2>1 DEF LaunchUnlocked
  <2>2. CASE AdoptStat(s) \/ AdoptLock(s) \/ Adopted(s)
    BY <1>1, <1>3, <2>2 DEF AdoptStat, AdoptLock, Adopted, AdoptRefused, Mode
  <2>3. CASE NotAdopted(s)
    BY <1>1, <1>4, <2>3 DEF NotAdopted, AdoptRefused
  <2>4. QED
    BY <1>7, <2>1, <2>2, <2>3 DEF Adopt
<1>8. ASSUME NEW p \in Proc, HandOver(p) PROVE Past'
  <2>1. CASE InheritableCopy(p) \/ CloseCopy(p)
    BY <1>1, <1>4, <2>1 DEF InheritableCopy, CloseCopy
  <2>2. ASSUME NEW s \in Proc, Launch(p, s) PROVE Past'
    <3>1. copy[p] \in Ofd /\ at' = at
      BY <1>0, <2>2 DEF Launch, TypeOK
    <3>2. SharedWith(ofd', s, {copy[p]})
      BY <1>0, <2>2, <3>1, LaunchShares DEF Launch
    <3>3. QED
      BY <1>5, <3>1, <3>2
  <2>3. QED
    BY <1>8, <2>1, <2>2 DEF HandOver
<1>9. ASSUME NEW p \in Proc, Observe(p) PROVE Past'
  BY <1>1, <1>2, <1>3, <1>4, <1>9 DEF Observe, Probe, ProbeAsks, ProbeEnds, Lock, Mode
<1>10. ASSUME NEW p \in Proc, Lifecycle(p) PROVE Past'
  <2>1. CASE ForkHook(p) \/ Die(p)
    BY <1>1, <1>4, <2>1 DEF ForkHook, Discarded, WithFdClosed, Die
  <2>2. ASSUME NEW c \in Proc, Fork(p, c) PROVE Past'
    <3>1. ofd' = WithForked(p, c) /\ at' = at
      BY <2>2 DEF Fork
    <3>2. SharedWith(ofd', c, {o \in Ofd : p \in ofd[o].open})
      BY <1>0, <3>1, ForkShares
    <3>3. QED
      BY <1>5, <3>1, <3>2
  <2>3. ASSUME NEW b \in Proc, Spawn(p, b) PROVE Past'
    BY <1>1, <2>3 DEF Spawn, IInv, ProcInv, OwnerInv
  <2>4. QED
    BY <1>10, <2>1, <2>2, <2>3 DEF Lifecycle
<1>11. CASE ReplaceFile
  BY <1>0, <1>11, DaemonLockAssumption DEF ReplaceFile, Replace, Past, OfdRecord
<1>12. CASE UNCHANGED vars
  BY <1>1, <1>12 DEF vars
<1>13. QED
  BY <1>6, <1>7, <1>8, <1>9, <1>10, <1>11, <1>12 DEF Next

\* A replaced lock file ends a line and starts none.
LEMMA ReplaceRefines ==
  ASSUME IInv, Past, ReplaceFile
  PROVE  [Succession!Next]_(Succession!vars)
<1>1. /\ ofd' = ofd /\ fd' = fd /\ ownerPid' = ownerPid /\ copy' = copy /\ pc' = pc
      /\ tryFd' = tryFd /\ proc' = proc /\ at' = [at EXCEPT !["daemon"] = @ + 1]
  BY DEF ReplaceFile, Replace, holdVars, callVars
<1>2. at["daemon"] \in Nat /\ at'["daemon"] = at["daemon"] + 1
  BY <1>1, DaemonLockAssumption DEF IInv, TypeOK, FileLockTypeOK
<1>3. ASSUME NEW o \in Ofd, ofd[o].file = "daemon" PROVE ~ IsStillAt(o)'
  <2>1. ofd[o].gen \in Nat /\ ofd[o].gen <= at["daemon"]
    BY DEF Past, IInv, TypeOK, FileLockTypeOK, OfdRecord
  <2>2. QED
    BY <1>1, <1>2, <1>3, <2>1 DEF IsStillAt
<1>4. ASSUME NEW p \in Proc, NEW o \in Ofd PROVE ~ InLine(p, o)'
  <2>1. CASE o \in {fd[p], copy[p]} \/ (Adopting(p) /\ o = tryFd[p])
    <3>1. ofd[o].file = "daemon"
      BY <2>1, NoneApart DEF IInv, TableInv, ProcInv, HeldInv, CallInv
    <3>2. QED
      BY <1>3, <3>1 DEF InLine
  <2>2. CASE ~ (o \in {fd[p], copy[p]} \/ (Adopting(p) /\ o = tryFd[p]))
    BY <1>1, <2>2 DEF InLine, Adopting
  <2>3. QED
    BY <2>1, <2>2
<1>5. Line' = {} /\ LineLock' = {} /\ Started' = Started
  BY <1>1, <1>4 DEF Line, LineLock, Started
<1>6. CASE Line # {}
  <2>1. Line \in SUBSET Line /\ Succession!Leave(Line)
    BY <1>5, <1>6 DEF Succession!Leave
  <2>2. QED
    BY <2>1 DEF Succession!Next
<1>7. CASE Line = {}
  <2>1. LineLock = {}
    BY <1>7 DEF Line, LineLock
  <2>2. QED
    BY <1>5, <1>7, <2>1 DEF Succession!vars
<1>8. QED
  BY <1>6, <1>7

\* The lock with its hand-over implements DaemonOwnership: a process that is
\* there already gets the daemon only when nobody has it or is being handed it,
\* and whoever is started into the line has the very lock its starter has, so
\* the daemon has one owner, however often daemon.lock is replaced.
THEOREM Succeeds == Spec => SuccessionSpec
<1>1. Init => Succession!Init
  <2>1. ASSUME Init, NEW p \in Proc, NEW o \in Ofd PROVE ~ InLine(p, o)
    BY <2>1, NoneApart DEF Init, InLine, Held
  <2>2. QED
    BY <2>1 DEF Succession!Init, Line, LineLock, Started
<1>2. Init => Past
  BY DaemonLockAssumption DEF Init, FileLockInit, Closed, Past
<1>3. IInv /\ Past /\ [Next]_vars => Past'
  BY PastInductive
<1>4. IInv /\ IInv' /\ Past /\ [Next]_vars => [Succession!Next]_(Succession!vars)
  <2> SUFFICES ASSUME IInv, IInv', Past, [Next]_vars
               PROVE  [Succession!Next]_(Succession!vars)
    OBVIOUS
  <2>1. ASSUME NEW p \in Proc, Acquire(p) PROVE [Succession!Next]_(Succession!vars)
    <3>1. Others({p})
      BY <2>1, OpenStep, AskSteps, GiveBackSteps, TookStep, FdGoneSteps DEF Acquire
    <3>2. QED
      BY <2>1, <3>1, QuietSteps, AnsweredSteps, ElectedRefines DEF Acquire
  <2>2. ASSUME NEW p \in Proc, Adopt(p) PROVE [Succession!Next]_(Succession!vars)
    <3>1. Others({p})
      BY <2>2, LaunchUnlockedStep, AdoptSteps, TookStep DEF Adopt
    <3>2. QED
      BY <2>2, <3>1, LaunchUnlockedRefines, AdoptRefines, AdoptLockRefines DEF Adopt
  <2>3. ASSUME NEW p \in Proc, HandOver(p) PROVE [Succession!Next]_(Succession!vars)
    <3>1. CASE InheritableCopy(p) \/ CloseCopy(p)
      BY <3>1, CopyStep, CloseCopyStep, CopyRefines, QuietSteps
    <3>2. ASSUME NEW s \in Proc, Launch(p, s) PROVE Succession!Next
      BY <3>2, LaunchStep, LaunchRefines
    <3>3. QED
      BY <2>3, <3>1, <3>2 DEF HandOver
  <2>4. ASSUME NEW p \in Proc, Observe(p) PROVE [Succession!Next]_(Succession!vars)
    <3>1. Others({p})
      BY <2>4, ProbeStep, AskSteps, GiveBackSteps DEF Observe
    <3>2. QED
      BY <2>4, <3>1, QuietSteps, AnsweredSteps DEF Observe
  <2>5. ASSUME NEW p \in Proc, Lifecycle(p) PROVE [Succession!Next]_(Succession!vars)
    <3>1. CASE ForkHook(p) \/ Die(p)
      BY <3>1, FdGoneSteps, DieStep, QuietSteps
    <3>2. ASSUME NEW c \in Proc, Fork(p, c) PROVE Succession!Next
      BY <3>2, ForkStep, ForkRefines
    <3>3. ASSUME NEW b \in Proc, Spawn(p, b) PROVE Succession!Next
      BY <3>3, SpawnStep, SpawnRefines
    <3>4. QED
      BY <2>5, <3>1, <3>2, <3>3 DEF Lifecycle
  <2>6. CASE ReplaceFile
    BY <2>6, ReplaceRefines
  <2>7. CASE UNCHANGED vars
    <3>1. \A p \in Proc, o \in Ofd : InLine(p, o)' <=> InLine(p, o)
      BY <2>7 DEF vars, holdVars, callVars, InLine, Held, IsStillAt
    <3>2. QED
      BY <2>7, <3>1 DEF vars, Line, LineLock, Started, Succession!vars
  <2>8. QED
    BY <2>1, <2>2, <2>3, <2>4, <2>5, <2>6, <2>7 DEF Next
<1>5. QED
  BY <1>1, <1>2, <1>3, <1>4, DaemonInductive, PTL DEF Spec, SuccessionSpec, Succession!Spec

-----------------------------------------------------------------------------
(* The announcement of a daemon and a client's look-up *)

\* How far a daemon has come when it has its descriptor, when it has made its
\* directory private, when it has written its token and when it holds and has
\* hardened the token's file.
Assembled == {"listening", "prepared", "written", "opened", "hardened", "vouched", "published"}

Prepared == Assembled \ {"listening"}

Wrote == Prepared \ {"prepared"}

Opened == Wrote \ {"written"}

Secured == Opened \ {"opened"}

Config == [auto : BOOLEAN, password : {"unset", "empty"}, agent : {"unset"}]

Descriptor ==
    [by : Owner, form : {"sound", "garbled", "versioned"},
     endpoint : {"literal", "elsewhere", "name"}, runtime : {"host", "container"},
     identity : Spelling,
     fingerprint : [key : Owner, dir : Spelling, config : Config]]

OwnRecord ==
    [pc : {"off", "elected", "dead"} \union Assembled, party : Party \union {Nothing},
     desc : Descriptor \union {Nothing}, inode : Nat]

TokenRecord ==
    [is : {"none", "file", "link"}, text : Owner \union {Nothing}, private : BOOLEAN,
     inode : Nat]

LookRecord ==
    [pc : {"idle", "done"} \union Working, party : ClientParty \union {Nothing},
     expired : BOOLEAN, desc : Descriptor \union {Nothing},
     verdict : {"absent", "untrusted", "incompatible", "attachable", Nothing}]

DiscoveryTypeOK ==
    /\ own \in [Owner -> OwnRecord]
    /\ token \in [Owner -> TokenRecord]
    /\ dir \in {"wide", "private"}
    /\ file \in Descriptor \union {Nothing}
    /\ entries \subseteq Spelling
    /\ folds \in BOOLEAN
    /\ look \in LookRecord
    /\ damage \in Nat

\* Descriptor d says what its daemon was started with, under the name the
\* profile had when it was assembled.
Says(d) ==
    /\ d \in Descriptor
    /\ own[d.by].pc # "off"
    /\ d.runtime = own[d.by].party.runtime
    /\ SameDir(d.identity, own[d.by].party.spelling)
    /\ d.fingerprint.key = d.by
    /\ SameDir(d.fingerprint.dir, own[d.by].party.spelling)
    /\ d.fingerprint.config = Normalize(own[d.by].party)

\* The file of o's token is, unless something else has come to lie there, o's
\* and private.
Kept(o) ==
    /\ damage = 0 => token[o].is = "file" /\ token[o].text = o
    /\ token[o].inode = own[o].inode => token[o].is = "file" /\ token[o].private

\* A daemon on its way: what it has assembled, made private and written.
PublisherInv(o) ==
    /\ own[o].pc # "off" => own[o].party \in Party
    /\ own[o].pc \in Assembled =>
         /\ Says(own[o].desc) /\ own[o].desc.by = o
         /\ own[o].desc.form = "sound" /\ own[o].desc.endpoint = "literal"
    /\ own[o].inode <= token[o].inode
    /\ holder = o => own[o].pc # "off"
    /\ own[o].pc \in Prepared \/ token[o].text = o => dir = "private"
    /\ own[o].pc \in Wrote /\ damage = 0 => token[o].is = "file" /\ token[o].text = o
    /\ own[o].pc \in Opened /\ token[o].inode = own[o].inode => token[o].is = "file"
    /\ own[o].pc \in Secured => Kept(o)

\* A descriptor that was published, by a daemon that is there or died since.
Announced(d) ==
    /\ Says(d)
    /\ own[d.by].pc \in {"published", "dead"}
    /\ damage = 0 => d.form = "sound" /\ d.endpoint = "literal"
    /\ Kept(d.by)

FileInv == file = Nothing \/ Announced(file)

\* The client's look-up: what it has read was announced, and what it has
\* judged was judged rightly.
LookInv ==
    /\ look.pc \in Working => look.party \in ClientParty
    /\ look.pc \in {"serving", "token"} =>
         /\ Announced(look.desc)
         /\ look.desc.endpoint \in {"literal", "name"}
         /\ look.desc.runtime = look.party.runtime
    /\ look.pc = "token" => SameDir(look.desc.identity, look.party.spelling)
    /\ look.pc \notin {"judged", "done"} => look.verdict = Nothing
    /\ look.verdict = "untrusted" => damage > 0
    /\ look.verdict = "attachable" =>
         /\ Announced(look.desc)
         /\ look.desc.endpoint \in {"literal", "name"}
         /\ Compatible(own[look.desc.by].party, look.party)
    /\ look.verdict = "incompatible" =>
         /\ Announced(look.desc)
         /\ ~folds => ~Compatible(own[look.desc.by].party, look.party)

DiscoveryIInv ==
    DiscoveryTypeOK /\ (\A o \in Owner : PublisherInv(o)) /\ FileInv /\ LookInv

-----------------------------------------------------------------------------
\* Which directories are one: an equivalence, whichever the volume.
LEMMA SameDirClass ==
    ASSUME NEW r, NEW s, NEW t
    PROVE  /\ SameDir(s, s)
           /\ SameDir(s, t) => SameDir(t, s)
           /\ SameDir(r, s) /\ SameDir(s, t) => SameDir(r, t)
BY DEF SameDir

\* profile_identity names the directory it was asked about, however the listing
\* changes; where case counts it is the name itself.
LEMMA IdentityNames ==
    ASSUME entries \subseteq Spelling, NEW s \in Spelling
    PROVE  ProfileIdentity(s) \in Spelling /\ SameDir(ProfileIdentity(s), s)
<1>1. CASE s \notin entries /\ \E e \in entries : SameDir(e, s)
    <2>1. ProfileIdentity(s) = CHOOSE e \in entries : SameDir(e, s)
        BY <1>1 DEF ProfileIdentity
    <2>2. (CHOOSE e \in entries : SameDir(e, s)) \in entries
          /\ SameDir(CHOOSE e \in entries : SameDir(e, s), s)
        BY <1>1
    <2>3. QED
        BY <2>1, <2>2
<1>2. CASE ~ (s \notin entries /\ \E e \in entries : SameDir(e, s))
    <2>1. ProfileIdentity(s) = s
        BY <1>2 DEF ProfileIdentity
    <2>2. QED
        BY <2>1, SameDirClass
<1>3. QED
    BY <1>1, <1>2

\* A party's settings in normal form, and when two have the same.
LEMMA Normalized ==
    ASSUME NEW p \in Party \union ClientParty, NEW q \in Party \union ClientParty
    PROVE  /\ Normalize(p) \in Config
           /\ Normalize(p) = Normalize(q) <=>
                (p.auto = "off") = (q.auto = "off") /\ p.password = q.password
<1>1. p.auto \in {"unset", "on", "off"} /\ q.auto \in {"unset", "on", "off"}
      /\ p.password \in {"unset", "empty"} /\ q.password \in {"unset", "empty"}
    BY PartyAssumption
<1>2. Normalize(p) \in Config
    BY <1>1 DEF Normalize, Config
<1>3. Normalize(p) = Normalize(q) <=> Normalize(p).auto = Normalize(q).auto
                                      /\ Normalize(p).password = Normalize(q).password
    BY DEF Normalize
<1>4. Normalize(p).auto = (p.auto # "off") /\ Normalize(q).auto = (q.auto # "off")
      /\ Normalize(p).password = p.password /\ Normalize(q).password = q.password
    BY DEF Normalize
<1>5. ((p.auto # "off") = (q.auto # "off")) <=> ((p.auto = "off") = (q.auto = "off"))
    OBVIOUS
<1>6. QED
    BY <1>2, <1>3, <1>4, <1>5

\* What a daemon assembles is a descriptor that says what it was started with.
LEMMA Assembles ==
    ASSUME DiscoveryTypeOK, NEW o \in Owner, own[o].party \in Party, own[o].pc # "off"
    PROVE  Says(Build(o)) /\ Build(o).by = o /\ Build(o).form = "sound"
           /\ Build(o).endpoint = "literal"
<1> DEFINE p == own[o].party
<1>1. p.spelling \in Spelling /\ p.runtime \in {"host", "container"}
    BY PartyAssumption
<1>2. /\ ProfileIdentity(p.spelling) \in Spelling
      /\ SameDir(ProfileIdentity(p.spelling), p.spelling)
    BY <1>1, IdentityNames DEF DiscoveryTypeOK
<1>3. Normalize(p) \in Config
    BY Normalized
<1> DEFINE f == ConfigFingerprint(p, o)
<1>4. f \in [key : Owner, dir : Spelling, config : Config] /\ f.key = o
      /\ f.dir = ProfileIdentity(p.spelling) /\ f.config = Normalize(p)
    BY <1>2, <1>3 DEF ConfigFingerprint
<1>5. Build(o) = [by |-> o, form |-> "sound", endpoint |-> "literal", runtime |-> p.runtime,
                  identity |-> ProfileIdentity(p.spelling), fingerprint |-> f]
    BY DEF Build
<1> HIDE DEF p, f
<1>6. Build(o) \in Descriptor
    BY <1>1, <1>2, <1>4, <1>5 DEF Descriptor
<1>7. /\ Build(o).by = o /\ Build(o).form = "sound" /\ Build(o).endpoint = "literal"
      /\ Build(o).runtime = p.runtime /\ Build(o).identity = ProfileIdentity(p.spelling)
      /\ Build(o).fingerprint = f
    BY <1>5
<1>8. QED
    BY <1>2, <1>4, <1>6, <1>7 DEF Says, p

-----------------------------------------------------------------------------
\* A step after which every descriptor says the truth that did: daemons keep
\* their party, and those that published, or died, keep their token.
Steady ==
    /\ folds' = folds /\ damage' = damage
    /\ \A o \in Owner :
         /\ own[o].pc # "off" => own'[o].pc # "off" /\ own'[o].party = own[o].party
         /\ own[o].pc \in {"published", "dead"} =>
              /\ own'[o].pc \in {"published", "dead"}
              /\ own'[o].inode = own[o].inode /\ token'[o] = token[o]

LEMMA SaysStill ==
    ASSUME NEW d, Says(d), folds' = folds,
           \A o \in Owner : own[o].pc # "off" =>
               own'[o].pc # "off" /\ own'[o].party = own[o].party
    PROVE  Says(d)'
<1>1. d \in Descriptor /\ d.by \in Owner
    BY DEF Says, Descriptor
<1>2. own'[d.by].pc # "off" /\ own'[d.by].party = own[d.by].party
    BY <1>1 DEF Says
<1>3. QED
    BY <1>1, <1>2 DEF Says, SameDir

LEMMA AnnouncedStill ==
    ASSUME NEW d, Announced(d), Steady
    PROVE  Announced(d)' /\ own'[d.by].party = own[d.by].party
<1>1. Says(d) /\ d.by \in Owner /\ own[d.by].pc # "off"
    BY DEF Announced, Says, Descriptor
<1>2. Says(d)'
    BY <1>1, SaysStill DEF Steady
<1>3. own'[d.by].pc \in {"published", "dead"} /\ own'[d.by].inode = own[d.by].inode
      /\ token'[d.by] = token[d.by] /\ damage' = damage
    BY <1>1 DEF Announced, Steady
<1>4. QED
    BY <1>1, <1>2, <1>3 DEF Announced, Kept, Steady

\* The client's findings stay true while it does nothing.
LEMMA LookStill ==
    ASSUME LookInv, look' = look, Steady
    PROVE  LookInv'
<1>1. Announced(look.desc) => Announced(look.desc)'
                              /\ own'[look.desc.by].party = own[look.desc.by].party
    BY AnnouncedStill
<1>2. folds' = folds /\ damage' = damage
    BY DEF Steady
<1>3. QED
    BY <1>1, <1>2 DEF LookInv, Compatible, SameDir

\* The other daemons' state stays true.
LEMMA OwnerStill ==
    ASSUME NEW o \in Owner, PublisherInv(o), own'[o] = own[o], token'[o] = token[o], Steady,
           dir' \in {dir, "private"}, holder' = o => holder = o
    PROVE  PublisherInv(o)'
<1>1. own[o].pc \in Assembled => Says(own[o].desc)'
    BY SaysStill DEF PublisherInv, Steady
<1>2. damage' = damage
    BY DEF Steady
<1>3. QED
    BY <1>1, <1>2 DEF PublisherInv, Kept
-----------------------------------------------------------------------------
\* A daemon's progress changes its own record and nothing in it but its place.
LEMMA GoesOn ==
    ASSUME DiscoveryTypeOK, NEW o \in Owner, NEW place \in {"elected", "dead"} \union Assembled,
           Goes(o, place)
    PROVE  /\ own' \in [Owner -> OwnRecord]
           /\ \A x \in Owner \ {o} : own'[x] = own[x]
           /\ own'[o].pc = place /\ own'[o].party = own[o].party
           /\ own'[o].desc = own[o].desc /\ own'[o].inode = own[o].inode
<1>1. own' = [own EXCEPT ![o] = [@ EXCEPT !.pc = place]] /\ own \in [Owner -> OwnRecord]
    BY DEF Goes, DiscoveryTypeOK
<1>2. own[o] \in OwnRecord
    BY <1>1
<1>3. [own[o] EXCEPT !.pc = place] \in OwnRecord
    BY <1>2 DEF OwnRecord
<1>4. own'[o] = [own[o] EXCEPT !.pc = place] /\ \A x \in Owner \ {o} : own'[x] = own[x]
    BY <1>1
<1>5. QED
    BY <1>1, <1>2, <1>3, <1>4 DEF OwnRecord

\* A daemon that ended keeps what a descriptor may still say of it.
LEMMA GoneStays ==
    ASSUME DiscoveryTypeOK, NEW o \in Owner, Gone(o)
    PROVE  /\ own' \in [Owner -> OwnRecord]
           /\ \A x \in Owner \ {o} : own'[x] = own[x]
           /\ own'[o].pc = "dead" /\ own'[o].party = own[o].party
           /\ own'[o].inode = own[o].inode
           /\ holder' = Nothing
<1>1. own' = [own EXCEPT ![o] = [@ EXCEPT !.pc = "dead", !.desc = Nothing]]
      /\ own \in [Owner -> OwnRecord]
    BY DEF Gone, DiscoveryTypeOK
<1>2. own[o] \in OwnRecord
    BY <1>1
<1>3. [own[o] EXCEPT !.pc = "dead", !.desc = Nothing] \in OwnRecord
    BY <1>2 DEF OwnRecord
<1>4. own'[o] = [own[o] EXCEPT !.pc = "dead", !.desc = Nothing]
      /\ \A x \in Owner \ {o} : own'[x] = own[x]
    BY <1>1
<1>5. QED
    BY <1>1, <1>2, <1>3, <1>4 DEF OwnRecord, Gone

\* What a daemon's own step leaves alone and what it may change.
OwnStep(o) ==
    /\ UNCHANGED <<entries, folds, resolves, look, damage>>
    /\ own' \in [Owner -> OwnRecord] /\ token' \in [Owner -> TokenRecord]
    /\ dir' \in {dir, "private"}
    /\ \A x \in Owner \ {o} : own'[x] = own[x] /\ token'[x] = token[x]
                              /\ (holder' = x => holder = x)
    /\ own[o].pc # "off" => own'[o].pc # "off" /\ own'[o].party = own[o].party
    /\ own[o].pc \in {"published", "dead"} =>
         /\ own'[o].pc \in {"published", "dead"}
         /\ own'[o].inode = own[o].inode /\ token'[o] = token[o]

\* Enough to show for a daemon's step: its own invariant, and that what it
\* publishes was announced.
LEMMA OwnStepEnough ==
    ASSUME DiscoveryIInv, NEW o \in Owner, OwnStep(o), PublisherInv(o)',
           file' = file \/ Announced(file)'
    PROVE  DiscoveryIInv'
<1>0. DiscoveryTypeOK /\ FileInv /\ LookInv
    BY DEF DiscoveryIInv
<1>1. Steady
    BY DEF OwnStep, Steady
<1>2. ASSUME NEW x \in Owner PROVE PublisherInv(x)'
    <2>1. CASE x = o
        BY <2>1
    <2>2. CASE x # o
        BY <1>1, <2>2, OwnerStill DEF OwnStep, DiscoveryIInv
    <2>3. QED
        BY <2>1, <2>2
<1>3. FileInv'
    <2>1. CASE file' = file
        <3>1. PICK d : d = file
            OBVIOUS
        <3>2. Announced(d) => Announced(d)'
            BY <1>1, AnnouncedStill
        <3>3. file' = d /\ (d = Nothing \/ Announced(d))
            BY <1>0, <2>1, <3>1 DEF FileInv
        <3>4. Announced(d)' => Announced(file)'
            BY <3>3
        <3>5. QED
            BY <3>2, <3>3, <3>4 DEF FileInv
    <2>2. CASE Announced(file)'
        BY <2>2 DEF FileInv
    <2>3. QED
        BY <2>1, <2>2
<1>4. LookInv'
    BY <1>0, <1>1, LookStill DEF OwnStep
<1>5. DiscoveryTypeOK'
    <2>1. file' \in Descriptor \union {Nothing}
        BY <1>0 DEF DiscoveryTypeOK, Announced, Says, Descriptor
    <2>2. QED
        BY <1>0, <2>1 DEF DiscoveryTypeOK, OwnStep
<1>6. QED
    BY <1>2, <1>3, <1>4, <1>5 DEF DiscoveryIInv

\* Election: the daemon starts with its party; nothing was written before.
LEMMA ElectStep ==
    ASSUME DiscoveryIInv, NEW o \in Owner, NEW p \in Party, Elect(o, p)
    PROVE  DiscoveryIInv'
<1>0. DiscoveryTypeOK /\ PublisherInv(o)
    BY DEF DiscoveryIInv
<1>1. own' = [own EXCEPT ![o] = [@ EXCEPT !.pc = "elected", !.party = p]]
      /\ own \in [Owner -> OwnRecord] /\ own[o] \in OwnRecord
    BY <1>0 DEF Elect, DiscoveryTypeOK
<1>2. own'[o] = [own[o] EXCEPT !.pc = "elected", !.party = p]
      /\ \A x \in Owner \ {o} : own'[x] = own[x]
    BY <1>1
<1>3. [own[o] EXCEPT !.pc = "elected", !.party = p] \in OwnRecord
    BY <1>1 DEF OwnRecord
<1>4. own' \in [Owner -> OwnRecord]
    BY <1>1, <1>3
<1>5. own'[o].pc = "elected" /\ own'[o].party = p /\ own'[o].inode = own[o].inode
    BY <1>1, <1>2 DEF OwnRecord
<1>6. own[o].pc = "off" /\ UNCHANGED <<dir, token, file, entries, folds, resolves, look, damage>>
      /\ holder' = o
    BY DEF Elect
<1>7. OwnStep(o)
    BY <1>0, <1>2, <1>4, <1>6 DEF OwnStep, DiscoveryTypeOK
<1>8. PublisherInv(o)'
    BY <1>0, <1>5, <1>6 DEF PublisherInv, Assembled, Prepared, Wrote, Opened, Secured
<1>9. QED
    BY <1>6, <1>7, <1>8, OwnStepEnough

\* It assembles its descriptor.
LEMMA ListenStep ==
    ASSUME DiscoveryIInv, NEW o \in Owner, Listen(o)
    PROVE  DiscoveryIInv'
<1>0. DiscoveryTypeOK /\ PublisherInv(o) /\ own[o].pc = "elected" /\ own[o].party \in Party
    BY DEF DiscoveryIInv, PublisherInv, Listen
<1>a. PICK d : d = Build(o)
    OBVIOUS
<1>1. Says(d) /\ d.by = o /\ d.form = "sound" /\ d.endpoint = "literal"
    BY <1>0, <1>a, Assembles
<1>2. own' = [own EXCEPT ![o] = [@ EXCEPT !.pc = "listening", !.desc = d]]
      /\ own \in [Owner -> OwnRecord] /\ own[o] \in OwnRecord
    BY <1>0, <1>a DEF Listen, DiscoveryTypeOK
<1>3. own'[o] = [own[o] EXCEPT !.pc = "listening", !.desc = d]
      /\ \A x \in Owner \ {o} : own'[x] = own[x]
    BY <1>2
<1>4. [own[o] EXCEPT !.pc = "listening", !.desc = d] \in OwnRecord
    BY <1>1, <1>2 DEF OwnRecord, Assembled, Says
<1>5. own' \in [Owner -> OwnRecord]
    BY <1>2, <1>4
<1>6. own'[o].pc = "listening" /\ own'[o].party = own[o].party /\ own'[o].inode = own[o].inode
      /\ own'[o].desc = d
    BY <1>2, <1>3 DEF OwnRecord
<1>7. UNCHANGED <<holder, dir, token, file, entries, folds, resolves, look, damage>>
    BY DEF Listen
<1>8. OwnStep(o)
    BY <1>0, <1>3, <1>5, <1>6, <1>7 DEF OwnStep, DiscoveryTypeOK
<1>9. Says(d)'
    <2>1. \A x \in Owner : own[x].pc # "off" => own'[x].pc # "off" /\ own'[x].party = own[x].party
        BY <1>0, <1>3, <1>6
    <2>2. QED
        BY <1>1, <1>7, <2>1, SaysStill
<1>10. PublisherInv(o)'
    BY <1>0, <1>1, <1>6, <1>7, <1>9 DEF PublisherInv, Assembled, Prepared, Wrote, Opened, Secured
<1>11. QED
    BY <1>7, <1>8, <1>10, OwnStepEnough

\* The steps of publish that only move the daemon on keep what its descriptor
\* says.
LEMMA SaysOn ==
    ASSUME DiscoveryTypeOK, NEW o \in Owner, PublisherInv(o), own[o].pc \in Assembled,
           folds' = folds, own'[o].pc # "off", own'[o].party = own[o].party,
           own'[o].desc = own[o].desc, \A x \in Owner \ {o} : own'[x] = own[x]
    PROVE  Says(own[o].desc)' /\ own'[o].desc.by = o
           /\ own'[o].desc.form = "sound" /\ own'[o].desc.endpoint = "literal"
<1>1. PICK d : d = own[o].desc
    OBVIOUS
<1>2. Says(d) /\ d.by = o /\ d.form = "sound" /\ d.endpoint = "literal"
    BY <1>1 DEF PublisherInv
<1>3. \A x \in Owner : own[x].pc # "off" => own'[x].pc # "off" /\ own'[x].party = own[x].party
    OBVIOUS
<1>4. Says(d)'
    BY <1>2, <1>3, SaysStill
<1>5. own'[o].desc = d
    BY <1>1
<1>6. Says(own[o].desc)'
    BY <1>4, <1>5
<1>7. QED
    BY <1>2, <1>5, <1>6

\* The steps that move it on towards its descriptor, in the order publish takes
\* them: the directory is made private ...
LEMMA HardenDirectoryStep ==
    ASSUME DiscoveryIInv, NEW o \in Owner, HardenDirectory(o)
    PROVE  DiscoveryIInv'
<1>0. DiscoveryTypeOK /\ PublisherInv(o) /\ own[o].pc = "listening" /\ own[o].pc \in Assembled
    BY DEF DiscoveryIInv, HardenDirectory, Assembled
<1>1. /\ own' \in [Owner -> OwnRecord] /\ \A x \in Owner \ {o} : own'[x] = own[x]
      /\ own'[o].pc = "prepared" /\ own'[o].party = own[o].party
      /\ own'[o].desc = own[o].desc /\ own'[o].inode = own[o].inode
    BY <1>0, GoesOn DEF HardenDirectory, Assembled
<1>2. dir' = "private" /\ UNCHANGED <<holder, token, file, entries, folds, resolves, look, damage>>
    BY DEF HardenDirectory
<1>3. OwnStep(o)
    BY <1>0, <1>1, <1>2 DEF OwnStep, DiscoveryTypeOK
<1>4. Says(own[o].desc)' /\ own'[o].desc.by = o
      /\ own'[o].desc.form = "sound" /\ own'[o].desc.endpoint = "literal"
    BY <1>0, <1>1, <1>2, SaysOn
<1>5. PublisherInv(o)'
    BY <1>0, <1>1, <1>2, <1>4 DEF PublisherInv, Assembled, Prepared, Wrote, Opened, Secured
<1>6. QED
    BY <1>2, <1>3, <1>5, OwnStepEnough

\* ... the token is written into it ...
LEMMA WriteTokenStep ==
    ASSUME DiscoveryIInv, NEW o \in Owner, WriteToken(o)
    PROVE  DiscoveryIInv'
<1>0. DiscoveryTypeOK /\ PublisherInv(o) /\ own[o].pc = "prepared" /\ own[o].pc \in Assembled
      /\ own[o].pc \in Prepared
    BY DEF DiscoveryIInv, WriteToken, Assembled, Prepared
<1>1. /\ own' \in [Owner -> OwnRecord] /\ \A x \in Owner \ {o} : own'[x] = own[x]
      /\ own'[o].pc = "written" /\ own'[o].party = own[o].party
      /\ own'[o].desc = own[o].desc /\ own'[o].inode = own[o].inode
    BY <1>0, GoesOn DEF WriteToken, Assembled
<1>2. UNCHANGED <<holder, dir, file, entries, folds, resolves, look, damage>>
    BY DEF WriteToken
<1>3. PICK alone \in BOOLEAN : token' = [token EXCEPT ![o] = SecureWriteText(@, o, alone)]
    BY DEF WriteToken, TokenPath
<1>4. /\ token' \in [Owner -> TokenRecord] /\ \A x \in Owner \ {o} : token'[x] = token[x]
      /\ token'[o].is = "file" /\ token'[o].text = o /\ token'[o].inode = token[o].inode
    <2>1. token \in [Owner -> TokenRecord] /\ token[o] \in TokenRecord
        BY <1>0 DEF DiscoveryTypeOK
    <2>2. SecureWriteText(token[o], o, alone) =
            [is |-> "file", text |-> o, private |-> alone, inode |-> token[o].inode]
        BY DEF SecureWriteText
    <2>3. SecureWriteText(token[o], o, alone) \in TokenRecord
        BY <2>1, <2>2 DEF TokenRecord
    <2>4. token'[o] = SecureWriteText(token[o], o, alone)
        BY <1>3, <2>1
    <2>5. QED
        BY <1>3, <2>1, <2>2, <2>3, <2>4
<1>5. OwnStep(o)
    BY <1>0, <1>1, <1>2, <1>4 DEF OwnStep, DiscoveryTypeOK
<1>6. Says(own[o].desc)' /\ own'[o].desc.by = o
      /\ own'[o].desc.form = "sound" /\ own'[o].desc.endpoint = "literal"
    BY <1>0, <1>1, <1>2, SaysOn
<1>7. PublisherInv(o)'
    BY <1>0, <1>1, <1>2, <1>4, <1>6
       DEF PublisherInv, Assembled, Prepared, Wrote, Opened, Secured
<1>8. QED
    BY <1>2, <1>5, <1>7, OwnStepEnough

\* ... its file is opened ...
LEMMA OpenTokenStep ==
    ASSUME DiscoveryIInv, NEW o \in Owner, OpenToken(o)
    PROVE  DiscoveryIInv'
<1>0. DiscoveryTypeOK /\ PublisherInv(o) /\ own[o].pc = "written" /\ own[o].pc \in Assembled
      /\ own[o].pc \in Prepared /\ own[o].pc \in Wrote /\ token[o].is = "file"
    BY DEF DiscoveryIInv, OpenToken, Assembled, Prepared, Wrote, TokenPath
<1>1. /\ own' \in [Owner -> OwnRecord] /\ \A x \in Owner \ {o} : own'[x] = own[x]
      /\ own'[o].pc = "opened" /\ own'[o].party = own[o].party
      /\ own'[o].desc = own[o].desc /\ own'[o].inode = token[o].inode
    <2>1. own' = [own EXCEPT ![o] = [@ EXCEPT !.pc = "opened", !.inode = token[o].inode]]
          /\ own \in [Owner -> OwnRecord] /\ own[o] \in OwnRecord /\ token[o].inode \in Nat
        BY <1>0 DEF OpenToken, DiscoveryTypeOK, TokenPath, TokenRecord
    <2>2. own'[o] = [own[o] EXCEPT !.pc = "opened", !.inode = token[o].inode]
          /\ \A x \in Owner \ {o} : own'[x] = own[x]
        BY <2>1
    <2>3. [own[o] EXCEPT !.pc = "opened", !.inode = token[o].inode] \in OwnRecord
        BY <2>1 DEF OwnRecord, Assembled
    <2>4. QED
        BY <2>1, <2>2, <2>3 DEF OwnRecord
<1>2. UNCHANGED <<holder, dir, token, file, entries, folds, resolves, look, damage>>
    BY DEF OpenToken
<1>3. OwnStep(o)
    BY <1>0, <1>1, <1>2 DEF OwnStep, DiscoveryTypeOK
<1>4. Says(own[o].desc)' /\ own'[o].desc.by = o
      /\ own'[o].desc.form = "sound" /\ own'[o].desc.endpoint = "literal"
    BY <1>0, <1>1, <1>2, SaysOn
<1>5. token[o].inode \in Nat
    BY <1>0 DEF DiscoveryTypeOK, TokenRecord
<1>6. PublisherInv(o)'
    BY <1>0, <1>1, <1>2, <1>4, <1>5
       DEF PublisherInv, Assembled, Prepared, Wrote, Opened, Secured
<1>7. QED
    BY <1>2, <1>3, <1>6, OwnStepEnough

\* ... and made private, if the name still means it ...
LEMMA HardenTokenStep ==
    ASSUME DiscoveryIInv, NEW o \in Owner, HardenToken(o)
    PROVE  DiscoveryIInv'
<1>0. DiscoveryTypeOK /\ PublisherInv(o) /\ own[o].pc = "opened" /\ own[o].pc \in Assembled
      /\ own[o].pc \in Prepared /\ own[o].pc \in Wrote /\ own[o].pc \in Opened
    BY DEF DiscoveryIInv, HardenToken, Assembled, Prepared, Wrote, Opened
<1>1. /\ own' \in [Owner -> OwnRecord] /\ \A x \in Owner \ {o} : own'[x] = own[x]
      /\ own'[o].pc = "hardened" /\ own'[o].party = own[o].party
      /\ own'[o].desc = own[o].desc /\ own'[o].inode = own[o].inode
    BY <1>0, GoesOn DEF HardenToken, Assembled
<1>2. UNCHANGED <<holder, dir, file, entries, folds, resolves, look, damage>>
    BY DEF HardenToken
<1>3. token \in [Owner -> TokenRecord] /\ token[o] \in TokenRecord
    BY <1>0 DEF DiscoveryTypeOK
<1>4. /\ token' \in [Owner -> TokenRecord] /\ \A x \in Owner \ {o} : token'[x] = token[x]
      /\ token'[o].is = token[o].is /\ token'[o].text = token[o].text
      /\ token'[o].inode = token[o].inode
      /\ token[o].inode = own[o].inode => token'[o].private
    <2>1. CASE token[o].inode = own[o].inode
        <3>1. PICK took \in BOOLEAN :
                LET t == Hardened(token[o], took)
                IN ReadBack(t) /\ token' = [token EXCEPT ![o] = t]
            BY <2>1 DEF HardenToken, TokenPath
        <3>2. PICK t : t = Hardened(token[o], took)
            OBVIOUS
        <3>3. t = [token[o] EXCEPT !.private = token[o].private \/ took]
            BY <3>2 DEF Hardened
        <3>4. (token[o].private \/ took) \in BOOLEAN
            OBVIOUS
        <3>5. t \in TokenRecord /\ t.is = token[o].is /\ t.text = token[o].text
              /\ t.inode = token[o].inode
            BY <1>3, <3>3, <3>4 DEF TokenRecord
        <3>6. t.private /\ token' = [token EXCEPT ![o] = t]
            BY <3>1, <3>2 DEF ReadBack
        <3>7. QED
            BY <1>3, <3>5, <3>6
    <2>2. CASE token[o].inode # own[o].inode
        BY <1>3, <2>2 DEF HardenToken, TokenPath
    <2>3. QED
        BY <2>1, <2>2
<1>5. OwnStep(o)
    BY <1>0, <1>1, <1>2, <1>4 DEF OwnStep, DiscoveryTypeOK
<1>6. Says(own[o].desc)' /\ own'[o].desc.by = o
      /\ own'[o].desc.form = "sound" /\ own'[o].desc.endpoint = "literal"
    BY <1>0, <1>1, <1>2, SaysOn
<1>7. PublisherInv(o)'
    BY <1>0, <1>1, <1>2, <1>4, <1>6
       DEF PublisherInv, Kept, Assembled, Prepared, Wrote, Opened, Secured
<1>8. QED
    BY <1>2, <1>5, <1>7, OwnStepEnough

\* ... and vouched for.
LEMMA VouchForTokenStep ==
    ASSUME DiscoveryIInv, NEW o \in Owner, VouchForToken(o)
    PROVE  DiscoveryIInv'
<1>0. DiscoveryTypeOK /\ PublisherInv(o) /\ own[o].pc = "hardened" /\ own[o].pc \in Assembled
    BY DEF DiscoveryIInv, VouchForToken, Assembled
<1>1. /\ own' \in [Owner -> OwnRecord] /\ \A x \in Owner \ {o} : own'[x] = own[x]
      /\ own'[o].pc = "vouched" /\ own'[o].party = own[o].party
      /\ own'[o].desc = own[o].desc /\ own'[o].inode = own[o].inode
    BY <1>0, GoesOn DEF VouchForToken, Assembled
<1>2. UNCHANGED <<holder, dir, token, file, entries, folds, resolves, look, damage>>
    BY DEF VouchForToken
<1>3. OwnStep(o)
    BY <1>0, <1>1, <1>2 DEF OwnStep, DiscoveryTypeOK
<1>4. Says(own[o].desc)' /\ own'[o].desc.by = o
      /\ own'[o].desc.form = "sound" /\ own'[o].desc.endpoint = "literal"
    BY <1>0, <1>1, <1>2, SaysOn
<1>5. PublisherInv(o)'
    BY <1>0, <1>1, <1>2, <1>4 DEF PublisherInv, Kept, Assembled, Prepared, Wrote, Opened, Secured
<1>6. QED
    BY <1>2, <1>3, <1>5, OwnStepEnough

\* Only then the descriptor is written: it is announced from now on.
LEMMA WriteDescriptorStep ==
    ASSUME DiscoveryIInv, NEW o \in Owner, WriteDescriptor(o)
    PROVE  DiscoveryIInv'
<1>0. DiscoveryTypeOK /\ PublisherInv(o) /\ own[o].pc = "vouched" /\ own[o].pc \in Assembled
    BY DEF DiscoveryIInv, WriteDescriptor, Assembled
<1>1. /\ own' \in [Owner -> OwnRecord] /\ \A x \in Owner \ {o} : own'[x] = own[x]
      /\ own'[o].pc = "published" /\ own'[o].party = own[o].party
      /\ own'[o].desc = own[o].desc /\ own'[o].inode = own[o].inode
    BY <1>0, GoesOn DEF WriteDescriptor, Assembled
<1>2. UNCHANGED <<holder, dir, token, entries, folds, resolves, look, damage>>
      /\ file' = own[o].desc
    BY DEF WriteDescriptor
<1>3. OwnStep(o)
    BY <1>0, <1>1, <1>2 DEF OwnStep, DiscoveryTypeOK
<1>4. Says(own[o].desc)' /\ own'[o].desc.by = o
      /\ own'[o].desc.form = "sound" /\ own'[o].desc.endpoint = "literal"
    BY <1>0, <1>1, <1>2, SaysOn
<1>5. PublisherInv(o)' /\ Kept(o)'
    BY <1>0, <1>1, <1>2, <1>4 DEF PublisherInv, Kept, Assembled, Prepared, Wrote, Opened, Secured
<1>6. Announced(file)'
    <2>1. file' = own'[o].desc /\ file'.by = o
        BY <1>1, <1>2, <1>4
    <2>2. Says(file)'
        BY <1>4, <2>1
    <2>3. QED
        BY <1>1, <1>4, <1>5, <2>1, <2>2 DEF Announced
<1>7. QED
    BY <1>3, <1>5, <1>6, OwnStepEnough

\* A daemon that gives up, or dies anywhere, leaves what it announced, if it
\* did, with its token.
LEMMA EndSteps ==
    ASSUME DiscoveryIInv, NEW o \in Owner, Fail(o) \/ DaemonDies(o)
    PROVE  DiscoveryIInv'
<1>0. DiscoveryTypeOK /\ PublisherInv(o) /\ own[o].pc # "off"
      /\ token \in [Owner -> TokenRecord] /\ token[o] \in TokenRecord
    BY DEF DiscoveryIInv, DiscoveryTypeOK, Fail, DaemonDies, PublisherInv
<1>1. Gone(o) /\ UNCHANGED <<dir, file, entries, folds, resolves, look, damage>>
    BY DEF Fail, DaemonDies
<1>2. /\ own' \in [Owner -> OwnRecord] /\ \A x \in Owner \ {o} : own'[x] = own[x]
      /\ own'[o].pc = "dead" /\ own'[o].party = own[o].party /\ own'[o].inode = own[o].inode
      /\ holder' = Nothing
    BY <1>0, <1>1, GoneStays
<1>3. /\ token' \in [Owner -> TokenRecord] /\ \A x \in Owner \ {o} : token'[x] = token[x]
      /\ token'[o].text = token[o].text /\ token'[o].inode = token[o].inode
      /\ own[o].pc \in {"published", "dead"} => token' = token
    <2>1. CASE token' = token
        BY <1>0, <2>1
    <2>2. CASE Fail(o) /\ token' = [token EXCEPT ![o].is = "none"]
        <3>1. token'[o] = [token[o] EXCEPT !.is = "none"]
              /\ \A x \in Owner \ {o} : token'[x] = token[x]
            BY <1>0, <2>2
        <3>2. [token[o] EXCEPT !.is = "none"] \in TokenRecord
            BY <1>0 DEF TokenRecord
        <3>3. token'[o].text = token[o].text /\ token'[o].inode = token[o].inode
            BY <1>0, <3>1 DEF TokenRecord
        <3>4. own[o].pc \notin {"published", "dead"}
            BY <2>2 DEF Fail
        <3>5. token' \in [Owner -> TokenRecord]
            BY <1>0, <2>2, <3>2
        <3>6. QED
            BY <3>1, <3>3, <3>4, <3>5
    <2>3. QED
        BY <2>1, <2>2 DEF Fail, DaemonDies, TokenPath
<1>4. OwnStep(o)
    BY <1>0, <1>1, <1>2, <1>3, NothingAssumption DEF OwnStep
<1>5. PublisherInv(o)'
    BY <1>0, <1>1, <1>2, <1>3 DEF PublisherInv, Assembled, Prepared, Wrote, Opened, Secured
<1>6. QED
    BY <1>1, <1>4, <1>5, OwnStepEnough

-----------------------------------------------------------------------------
\* A rotation of the profile changes the listing, which no descriptor consults.
LEMMA RotateStep ==
    ASSUME DiscoveryIInv, Rotate
    PROVE  DiscoveryIInv'
<1>0. DiscoveryTypeOK /\ FileInv /\ LookInv
    BY DEF DiscoveryIInv
<1>1. UNCHANGED <<holder, own, dir, token, file, folds, resolves, look, damage>>
    BY DEF Rotate
<1>2. entries' \subseteq Spelling
    BY <1>0 DEF Rotate, DiscoveryTypeOK
<1>3. Steady
    BY <1>1 DEF Steady
<1>4. DiscoveryTypeOK'
    BY <1>0, <1>1, <1>2 DEF DiscoveryTypeOK
<1>5. \A o \in Owner : PublisherInv(o)'
    BY <1>1, <1>3, OwnerStill DEF DiscoveryIInv
<1>6. FileInv'
    BY <1>0, <1>1, <1>3, AnnouncedStill DEF FileInv
<1>7. LookInv'
    BY <1>0, <1>1, <1>3, LookStill
<1>8. QED
    BY <1>4, <1>5, <1>6, <1>7 DEF DiscoveryIInv

\* What something else put in a token's place is another file: nobody who held
\* the old one takes it for his, and no client takes it for a sound token.
LEMMA DamageKeeps ==
    ASSUME DiscoveryIInv, Damage
    PROVE  /\ UNCHANGED <<holder, own, dir, entries, folds, look>>
           /\ damage' \in Nat /\ damage' > 0
           /\ token' \in [Owner -> TokenRecord]
           /\ \A o \in Owner :
                \/ token'[o] = token[o]
                \/ token'[o].text = Nothing /\ token'[o].inode > own[o].inode
<1>0. DiscoveryTypeOK /\ token \in [Owner -> TokenRecord]
    BY DEF DiscoveryIInv, DiscoveryTypeOK
<1>1. UNCHANGED <<holder, own, dir, entries, folds, look>> /\ damage' = damage + 1
    BY DEF Damage
<1>2. damage' \in Nat /\ damage' > 0
    BY <1>0, <1>1 DEF DiscoveryTypeOK
<1>3. CASE token' = token
    BY <1>0, <1>1, <1>2, <1>3
<1>4. ASSUME NEW o \in Owner, NEW is \in {"none", "file", "link"},
             token' = [token EXCEPT ![o] = [is |-> is, text |-> Nothing, private |-> FALSE,
                                            inode |-> @.inode + 1]]
      PROVE  /\ token' \in [Owner -> TokenRecord]
             /\ \A x \in Owner :
                  \/ token'[x] = token[x]
                  \/ token'[x].text = Nothing /\ token'[x].inode > own[x].inode
    <2>1. token[o] \in TokenRecord /\ token[o].inode \in Nat
        BY <1>0 DEF TokenRecord
    <2>2. PICK t : t = [is |-> is, text |-> Nothing, private |-> FALSE,
                        inode |-> token[o].inode + 1]
        OBVIOUS
    <2>3. t \in TokenRecord /\ t.text = Nothing /\ t.inode = token[o].inode + 1
        BY <2>1, <2>2 DEF TokenRecord
    <2>4. token' = [token EXCEPT ![o] = t]
        BY <1>4, <2>2
    <2>5. own[o].inode <= token[o].inode /\ own[o].inode \in Nat
        BY <1>0 DEF DiscoveryIInv, PublisherInv, DiscoveryTypeOK, OwnRecord
    <2>6. token'[o].inode > own[o].inode
        BY <1>0, <2>1, <2>3, <2>4, <2>5
    <2>7. QED
        BY <1>0, <2>3, <2>4, <2>6
<1>5. QED
    BY <1>1, <1>2, <1>3, <1>4 DEF Damage

LEMMA DamageStep ==
    ASSUME DiscoveryIInv, Damage
    PROVE  DiscoveryIInv'
<1>0. DiscoveryTypeOK /\ FileInv /\ LookInv
    BY DEF DiscoveryIInv
<1>1. /\ UNCHANGED <<holder, own, dir, entries, folds, look>>
      /\ damage' \in Nat /\ damage' > 0
      /\ token' \in [Owner -> TokenRecord]
      /\ \A o \in Owner :
           \/ token'[o] = token[o]
           \/ token'[o].text = Nothing /\ token'[o].inode > own[o].inode
    BY DamageKeeps
<1>2. \A o \in Owner : own[o].inode \in Nat /\ Nothing # o
    BY <1>0, NothingAssumption DEF DiscoveryTypeOK, OwnRecord
<1>3. ASSUME NEW d, Says(d) PROVE Says(d)'
    BY <1>1, <1>3, SaysStill
<1>4. ASSUME NEW o \in Owner, Kept(o) PROVE Kept(o)'
    BY <1>1, <1>2, <1>4 DEF Kept
<1>5. ASSUME NEW o \in Owner PROVE PublisherInv(o)'
    <2>1. PublisherInv(o)
        BY DEF DiscoveryIInv
    <2>2. own[o].pc \in Assembled => Says(own[o].desc)'
        <3>1. PICK d : d = own[o].desc
            OBVIOUS
        <3>2. own[o].pc \in Assembled => Says(d)'
            BY <1>3, <2>1, <3>1 DEF PublisherInv
        <3>3. own'[o].desc = d
            BY <1>1, <3>1
        <3>4. QED
            BY <3>2, <3>3
    <2>3. own'[o].inode <= token'[o].inode
        <3>1. token'[o].inode \in Nat
            BY <1>1 DEF TokenRecord
        <3>2. QED
            BY <1>1, <1>2, <2>1, <3>1 DEF PublisherInv
    <2>4. QED
        BY <1>1, <1>2, <1>4, <2>1, <2>2, <2>3 DEF PublisherInv
<1>6. ASSUME NEW d, Announced(d) PROVE Announced(d)'
    <2>1. Says(d) /\ d.by \in Owner
        BY <1>6 DEF Announced, Says, Descriptor
    <2>2. QED
        BY <1>1, <1>3, <1>4, <1>6, <2>1 DEF Announced
<1>7. LookInv'
    BY <1>0, <1>1, <1>6 DEF LookInv, Compatible, SameDir
<1>8. FileInv' /\ file' \in Descriptor \union {Nothing}
    <2>1. CASE file' = file
        BY <1>0, <1>6, <2>1 DEF FileInv, DiscoveryTypeOK
    <2>2. CASE file' # file
        <3>1. Announced(file)
            BY <1>0, <2>2 DEF FileInv, Damage
        <3>2. file \in Descriptor
            BY <3>1 DEF Announced, Says
        <3>3. PICK f : f = file'
            OBVIOUS
        <3>4. /\ f \in Descriptor /\ f.by = file.by /\ f.runtime = file.runtime
              /\ f.identity = file.identity /\ f.fingerprint = file.fingerprint
            <4>1. CASE \E endpoint \in {"elsewhere", "name"} :
                         f = [file EXCEPT !.endpoint = endpoint]
                BY <3>2, <4>1 DEF Descriptor
            <4>2. CASE \E form \in {"garbled", "versioned"} : f = [file EXCEPT !.form = form]
                BY <3>2, <4>2 DEF Descriptor
            <4>3. QED
                BY <2>2, <3>3, <4>1, <4>2 DEF Damage
        <3>5. Says(f) /\ own[f.by].pc \in {"published", "dead"} /\ Kept(f.by) /\ f.by \in Owner
            BY <3>1, <3>4 DEF Announced, Says, Descriptor
        <3>6. Says(f)' /\ Kept(f.by)'
            BY <1>3, <1>4, <3>5
        <3>7. Announced(f)'
            BY <1>1, <3>5, <3>6 DEF Announced
        <3>8. Announced(file)'
            BY <3>3, <3>7
        <3>9. QED
            BY <3>3, <3>4, <3>8 DEF FileInv
    <2>3. QED
        BY <2>1, <2>2
<1>9. DiscoveryTypeOK'
    BY <1>0, <1>1, <1>8 DEF DiscoveryTypeOK, Damage
<1>10. QED
    BY <1>5, <1>7, <1>8, <1>9 DEF DiscoveryIInv

-----------------------------------------------------------------------------
\* A client's step changes nothing the daemons see: enough to show for it.
LEMMA ClientEnough ==
    ASSUME DiscoveryIInv, look' \in LookRecord, LookInv',
           UNCHANGED <<holder, own, dir, token, file, entries, folds, resolves, damage>>
    PROVE  DiscoveryIInv'
<1>0. DiscoveryTypeOK /\ FileInv
    BY DEF DiscoveryIInv
<1>1. Steady
    BY DEF Steady
<1>2. DiscoveryTypeOK'
    BY <1>0 DEF DiscoveryTypeOK
<1>3. \A o \in Owner : PublisherInv(o)'
    BY <1>1, OwnerStill DEF DiscoveryIInv
<1>4. FileInv'
    BY <1>0, <1>1, AnnouncedStill DEF FileInv
<1>5. QED
    BY <1>2, <1>3, <1>4 DEF DiscoveryIInv

\* What the client holds of a descriptor reads the same after its step.
LEMMA HeldStill ==
    ASSUME NEW d, Announced(d), UNCHANGED <<own, token, folds, damage>>
    PROVE  Announced(d)'
BY AnnouncedStill DEF Steady

\* It starts, over and over, with nothing judged.
LEMMA StartSteps ==
    ASSUME DiscoveryIInv, (\E p \in ClientParty : LookUp(p)) \/ Expire \/ Return
    PROVE  DiscoveryIInv'
<1>0. DiscoveryTypeOK /\ LookInv /\ look \in LookRecord
    BY DEF DiscoveryIInv, DiscoveryTypeOK
<1>1. UNCHANGED <<holder, own, dir, token, file, entries, folds, resolves, damage>>
    BY DEF LookUp, Expire, Return
<1>2. ASSUME NEW p \in ClientParty, NEW expired \in BOOLEAN, look' = Reading(p, expired)
      PROVE  look' \in LookRecord /\ LookInv'
    <2>1. look' = [pc |-> "reading", party |-> p, expired |-> expired, desc |-> Nothing,
                   verdict |-> Nothing]
        BY <1>2 DEF Reading
    <2>2. look' \in LookRecord
        BY <2>1 DEF LookRecord, Working
    <2>3. look'.pc = "reading" /\ look'.party \in ClientParty /\ look'.verdict = Nothing
        BY <2>1
    <2>4. Nothing \notin {"untrusted", "attachable", "incompatible"} => LookInv'
        BY <2>3 DEF LookInv
    <2>5. QED
        BY <2>2, <2>4, NothingAssumption
<1>3. CASE \E p \in ClientParty : LookUp(p)
    BY <1>1, <1>2, <1>3, ClientEnough DEF LookUp
<1>4. ASSUME look'.pc = look.pc \/ (look.pc = "judged" /\ look'.pc = "done"),
             look' \in LookRecord, look'.party = look.party, look'.desc = look.desc,
             look'.verdict = look.verdict
      PROVE  DiscoveryIInv'
    <2>1. Announced(look.desc) => Announced(look.desc)'
        <3>1. PICK d : d = look.desc
            OBVIOUS
        <3>2. look'.desc = d
            BY <1>4, <3>1
        <3>3. Announced(d) => Announced(d)'
            BY <1>1, HeldStill
        <3>4. QED
            BY <3>1, <3>2, <3>3
    <2>2. LookInv'
        BY <1>0, <1>1, <1>4, <2>1 DEF LookInv, Compatible, SameDir, Working
    <2>3. QED
        BY <1>1, <1>4, <2>2, ClientEnough
<1>5. CASE Expire
    <2>1. look' = [look EXCEPT !.expired = TRUE]
        BY <1>5 DEF Expire
    <2>2. look' \in LookRecord /\ look'.pc = look.pc /\ look'.party = look.party
          /\ look'.desc = look.desc /\ look'.verdict = look.verdict
        BY <1>0, <2>1 DEF LookRecord
    <2>3. QED
        BY <1>4, <2>2
<1>6. CASE Return
    <2>1. CASE look' = [look EXCEPT !.pc = "done"]
        <3>1. look' \in LookRecord /\ look'.pc = "done" /\ look'.party = look.party
              /\ look'.desc = look.desc /\ look'.verdict = look.verdict
            BY <1>0, <2>1 DEF LookRecord
        <3>2. QED
            BY <1>4, <1>6, <3>1 DEF Return
    <2>2. CASE look' = Reading(look.party, FALSE)
        <3>1. look.party \in ClientParty
            BY <1>0, <1>6 DEF LookInv, Return, Working
        <3>2. QED
            BY <1>1, <1>2, <2>2, <3>1, ClientEnough
    <2>3. QED
        BY <1>6, <2>1, <2>2 DEF Return
<1>7. QED
    BY <1>3, <1>5, <1>6

\* A look-up ends at once when there is nothing, or nothing sound, to read, and
\* in another runtime; otherwise it goes on with what was announced.
LEMMA ReadDescriptorStep ==
    ASSUME DiscoveryIInv, ReadDescriptor
    PROVE  DiscoveryIInv'
<1>0. DiscoveryTypeOK /\ FileInv /\ LookInv /\ look \in LookRecord /\ look.pc = "reading"
      /\ look.party \in ClientParty /\ file \in Descriptor \union {Nothing}
    BY DEF DiscoveryIInv, DiscoveryTypeOK, LookInv, ReadDescriptor, Working
<1>1. UNCHANGED <<holder, own, dir, token, file, entries, folds, resolves, damage>>
    BY DEF ReadDescriptor
<1>2. PICK d : d = file
    OBVIOUS
<1>3. d # Nothing => Announced(d) /\ Announced(d)'
    BY <1>0, <1>1, <1>2, HeldStill DEF FileInv
<1>4. ASSUME NEW verdict \in {"absent", "untrusted", "incompatible"}, Judged(verdict)
      PROVE  look' \in LookRecord /\ look'.pc = "judged" /\ look'.party = look.party
             /\ look'.desc = d /\ look'.verdict = verdict
    <2>1. look' = [look EXCEPT !.pc = "judged", !.verdict = verdict, !.desc = d]
        BY <1>2, <1>4 DEF Judged
    <2>2. QED
        BY <1>0, <1>2, <2>1 DEF LookRecord, Working
<1>5. CASE file = Nothing /\ Judged("absent")
    <2>1. look' \in LookRecord /\ look'.pc = "judged" /\ look'.party = look.party
          /\ look'.verdict = "absent"
        BY <1>4, <1>5
    <2>2. LookInv'
        BY <1>0, <2>1 DEF LookInv, Working
    <2>3. QED
        BY <1>1, <2>1, <2>2, ClientEnough
<1>6. CASE file # Nothing /\ ~ Trusted(file) /\ Judged("untrusted")
    <2>1. look' \in LookRecord /\ look'.pc = "judged" /\ look'.party = look.party
          /\ look'.verdict = "untrusted"
        BY <1>4, <1>6
    <2>2. damage \in Nat /\ damage # 0
        BY <1>0, <1>2, <1>3, <1>6
           DEF Announced, Trusted, FromMapping, FieldsOfShape, EndpointIsLocal, DiscoveryTypeOK
    <2>3. LookInv'
        BY <1>0, <1>1, <2>1, <2>2 DEF LookInv, Working
    <2>4. QED
        BY <1>1, <2>1, <2>3, ClientEnough
<1>7. CASE file # Nothing /\ file.runtime # look.party.runtime /\ Judged("incompatible")
    <2>1. look' \in LookRecord /\ look'.pc = "judged" /\ look'.party = look.party
          /\ look'.verdict = "incompatible" /\ look'.desc = d
        BY <1>4, <1>7
    <2>2. Announced(look.desc)'
        BY <1>2, <1>3, <1>7, <2>1
    <2>3. own[d.by].party.runtime # look.party.runtime
        BY <1>2, <1>3, <1>7 DEF Announced, Says
    <2>4. ~ Compatible(own[look.desc.by].party, look.party)'
        BY <1>1, <2>1, <2>3 DEF Compatible
    <2>5. LookInv'
        BY <1>0, <2>1, <2>2, <2>4 DEF LookInv, Working
    <2>6. QED
        BY <1>1, <2>1, <2>5, ClientEnough
<1>8. CASE /\ file # Nothing /\ Trusted(file) /\ file.runtime = look.party.runtime
           /\ look' = [look EXCEPT !.pc = "serving", !.desc = file]
    <2>1. look' \in LookRecord /\ look'.pc = "serving" /\ look'.party = look.party
          /\ look'.verdict = look.verdict /\ look'.desc = d
        BY <1>0, <1>2, <1>8 DEF LookRecord, Working
    <2>2. Announced(look.desc)'
        BY <1>2, <1>3, <1>8, <2>1
    <2>3. d.endpoint \in {"literal", "name"}
        BY <1>2, <1>8 DEF Trusted, FromMapping, EndpointIsLocal
    <2>4. look.verdict = Nothing
        BY <1>0 DEF LookInv
    <2>5. LookInv'
        BY <1>0, <1>2, <1>8, <2>1, <2>2, <2>3, <2>4, NothingAssumption DEF LookInv, Working
    <2>6. QED
        BY <1>1, <2>1, <2>5, ClientEnough
<1>9. QED
    BY <1>5, <1>6, <1>7, <1>8 DEF ReadDescriptor

\* Another identity is another profile, where case counts.
LEMMA ServesStep ==
    ASSUME DiscoveryIInv, Serves
    PROVE  DiscoveryIInv'
<1>0. DiscoveryTypeOK /\ LookInv /\ look \in LookRecord /\ look.pc = "serving"
      /\ look.party \in ClientParty
    BY DEF DiscoveryIInv, DiscoveryTypeOK, LookInv, Serves, Working
<1>1. UNCHANGED <<holder, own, dir, token, file, entries, folds, resolves, damage>>
    BY DEF Serves
<1>2. PICK d : d = look.desc
    OBVIOUS
<1>3. Announced(d) /\ Announced(d)' /\ d.endpoint \in {"literal", "name"}
      /\ d.runtime = look.party.runtime /\ Says(d)
    BY <1>0, <1>1, <1>2, HeldStill DEF LookInv, Announced
<1>4. look.party.spelling \in Spelling
    BY <1>0, PartyAssumption
<1>5. SameDir(ProfileIdentity(look.party.spelling), look.party.spelling)
    BY <1>0, <1>4, IdentityNames DEF DiscoveryTypeOK
<1>6. CASE ProfileIdentity(look.party.spelling) = look.desc.identity
    <2>1. look' = [look EXCEPT !.pc = "token"]
        BY <1>6 DEF Serves
    <2>2. look' \in LookRecord /\ look'.pc = "token" /\ look'.party = look.party
          /\ look'.verdict = look.verdict /\ look'.desc = d
        BY <1>0, <1>2, <2>1 DEF LookRecord, Working
    <2>3. Announced(look.desc)'
        BY <1>3, <2>2
    <2>4. SameDir(d.identity, look.party.spelling)
        BY <1>2, <1>5, <1>6
    <2>5. LookInv'
        BY <1>0, <1>1, <1>3, <2>2, <2>3, <2>4, NothingAssumption DEF LookInv, Working, SameDir
    <2>6. QED
        BY <1>1, <2>2, <2>5, ClientEnough
<1>7. CASE ProfileIdentity(look.party.spelling) # look.desc.identity
    <2>1. look' = [look EXCEPT !.pc = "judged", !.verdict = "incompatible"]
        BY <1>7 DEF Serves
    <2>2. look' \in LookRecord /\ look'.pc = "judged" /\ look'.party = look.party
          /\ look'.verdict = "incompatible" /\ look'.desc = d
        BY <1>0, <1>2, <2>1 DEF LookRecord, Working
    <2>3. Announced(look.desc)'
        BY <1>3, <2>2
    <2>4. ~ folds => own[d.by].party.spelling # look.party.spelling
        BY <1>2, <1>3, <1>5, <1>7 DEF Says, SameDir
    <2>5. ~ folds => ~ Compatible(own[d.by].party, look.party)
        BY <2>4 DEF Compatible, SameDir
    <2>6. (~ folds => ~ Compatible(own[look.desc.by].party, look.party))'
        BY <1>1, <2>2, <2>5 DEF Compatible, SameDir
    <2>7. LookInv'
        BY <1>0, <2>2, <2>3, <2>6 DEF LookInv, Working
    <2>8. QED
        BY <1>1, <2>2, <2>7, ClientEnough
<1>8. QED
    BY <1>6, <1>7

\* With the daemon's own token the fingerprints are equal when the parties agree
\* on the settings, and only when they also agree on the directory.
LEMMA FingerprintsAgree ==
    ASSUME DiscoveryIInv, NEW d, Announced(d), NEW p \in ClientParty
    PROVE  LET q == own[d.by].party
           IN /\ ConfigFingerprint(p, d.by) = d.fingerprint =>
                   /\ SameDir(q.spelling, p.spelling)
                   /\ (q.auto = "off") = (p.auto = "off") /\ q.password = p.password
              /\ ~ folds /\ SameDir(q.spelling, p.spelling)
                   /\ (q.auto = "off") = (p.auto = "off") /\ q.password = p.password
                   => ConfigFingerprint(p, d.by) = d.fingerprint
<1> DEFINE q == own[d.by].party
           f == ConfigFingerprint(p, d.by)
           g == d.fingerprint
<1>1. g \in [key : Owner, dir : Spelling, config : Config] /\ g.key = d.by
      /\ SameDir(g.dir, q.spelling) /\ g.config = Normalize(q)
    BY DEF Announced, Says, Descriptor
<1>2. f.key = d.by /\ f.dir = ProfileIdentity(p.spelling) /\ f.config = Normalize(p)
      /\ f = [key |-> d.by, dir |-> ProfileIdentity(p.spelling), config |-> Normalize(p)]
    BY DEF ConfigFingerprint
<1>3. SameDir(ProfileIdentity(p.spelling), p.spelling)
    <2>1. p.spelling \in Spelling
        BY PartyAssumption
    <2>2. QED
        BY <2>1, IdentityNames DEF DiscoveryIInv, DiscoveryTypeOK
<1>4. q \in Party
    <2>1. d.by \in Owner /\ own[d.by].pc # "off"
        BY DEF Announced, Says, Descriptor
    <2>2. QED
        BY <2>1 DEF DiscoveryIInv, PublisherInv
<1>5. Normalize(p) = Normalize(q) <=> (p.auto = "off") = (q.auto = "off") /\ p.password = q.password
    BY <1>4, Normalized
<1> HIDE DEF q, f, g
<1>6. f = g => f.dir = g.dir /\ f.config = g.config
    OBVIOUS
<1>7. f = g => SameDir(q.spelling, p.spelling)
    BY <1>1, <1>2, <1>3, <1>6 DEF SameDir
<1>8. f = g => (q.auto = "off") = (p.auto = "off") /\ q.password = p.password
    BY <1>1, <1>2, <1>5, <1>6
<1>9. ASSUME ~ folds, SameDir(q.spelling, p.spelling),
             (q.auto = "off") = (p.auto = "off"), q.password = p.password
      PROVE  f = g
    <2>1. f.dir = g.dir
        BY <1>1, <1>2, <1>3, <1>9 DEF SameDir
    <2>2. f.config = g.config
        BY <1>1, <1>2, <1>5, <1>9
    <2>3. g = [key |-> g.key, dir |-> g.dir, config |-> g.config]
        BY <1>1
    <2>4. QED
        BY <1>1, <1>2, <2>1, <2>2, <2>3
<1>10. QED
    BY <1>7, <1>8, <1>9 DEF q, f, g

\* The verdict of the last read: corruption only after damage, a refusal only of
\* another party, an attachment only to the client's own.
LEMMA ReadTokenStep ==
    ASSUME DiscoveryIInv, ReadToken
    PROVE  DiscoveryIInv'
<1>0. DiscoveryTypeOK /\ LookInv /\ look \in LookRecord /\ look.pc = "token"
      /\ look.party \in ClientParty
    BY DEF DiscoveryIInv, DiscoveryTypeOK, LookInv, ReadToken, Working
<1>1. UNCHANGED <<holder, own, dir, token, file, entries, folds, resolves, damage>>
    BY DEF ReadToken
<1>2. PICK d : d = look.desc
    OBVIOUS
<1>3. Announced(d) /\ Announced(d)' /\ d.endpoint \in {"literal", "name"}
      /\ d.runtime = look.party.runtime
      /\ SameDir(d.identity, look.party.spelling)
    BY <1>0, <1>1, <1>2, HeldStill DEF LookInv
<1>4. d.by \in Owner /\ d.runtime = own[d.by].party.runtime
    BY <1>3 DEF Announced, Says, Descriptor
<1> DEFINE p == look.party
           q == own[d.by].party
           f == ConfigFingerprint(p, d.by)
<1>5. /\ f = d.fingerprint => /\ SameDir(q.spelling, p.spelling)
                              /\ (q.auto = "off") = (p.auto = "off")
                              /\ q.password = p.password
      /\ ~ folds /\ SameDir(q.spelling, p.spelling)
           /\ (q.auto = "off") = (p.auto = "off") /\ q.password = p.password
           => f = d.fingerprint
    BY <1>0, <1>3, FingerprintsAgree
<1>6. ASSUME NEW verdict \in {"untrusted", "incompatible", "attachable"},
             look' = [look EXCEPT !.pc = "judged", !.verdict = verdict]
      PROVE  look' \in LookRecord /\ look'.pc = "judged" /\ look'.party = look.party
             /\ look'.desc = d /\ look'.verdict = verdict
    BY <1>0, <1>2, <1>6 DEF LookRecord, Working
<1>7. PICK t : t = token[d.by]
    OBVIOUS
<1>8. CASE ~ ReadOwnFile(t) \/ t.text # d.by
    <2>1. look' = [look EXCEPT !.pc = "judged", !.verdict = "untrusted"]
        BY <1>2, <1>7, <1>8 DEF ReadToken, TokenPath
    <2>2. look' \in LookRecord /\ look'.pc = "judged" /\ look'.party = look.party
          /\ look'.verdict = "untrusted"
        BY <1>6, <2>1
    <2>3. damage \in Nat /\ damage # 0
        BY <1>0, <1>3, <1>4, <1>7, <1>8 DEF Announced, Kept, ReadOwnFile, DiscoveryTypeOK
    <2>4. LookInv'
        BY <1>0, <1>1, <2>2, <2>3 DEF LookInv, Working
    <2>5. QED
        BY <1>1, <2>2, <2>4, ClientEnough
<1>9. CASE ReadOwnFile(t) /\ t.text = d.by /\ ~ Fingerprinted(t)
    <2>1. look' = [look EXCEPT !.pc = "judged", !.verdict = "incompatible"]
        BY <1>2, <1>7, <1>9 DEF ReadToken, TokenPath
    <2>2. look' \in LookRecord /\ look'.pc = "judged" /\ look'.party = look.party
          /\ look'.verdict = "incompatible" /\ look'.desc = d
        BY <1>6, <2>1
    <2>3. f # d.fingerprint
        BY <1>2, <1>9 DEF Fingerprinted
    <2>4. ~ folds => ~ Compatible(q, p)
        BY <1>5, <2>3 DEF Compatible
    <2>5. (~ folds => ~ Compatible(own[look.desc.by].party, look.party))'
        BY <1>1, <2>2, <2>4 DEF Compatible, SameDir
    <2>6. Announced(look.desc)'
        BY <1>3, <2>2
    <2>7. LookInv'
        BY <1>0, <2>2, <2>5, <2>6 DEF LookInv, Working
    <2>8. QED
        BY <1>1, <2>2, <2>7, ClientEnough
<1>10. CASE ReadOwnFile(t) /\ t.text = d.by /\ Fingerprinted(t)
    <2>1. look' = [look EXCEPT !.pc = "judged", !.verdict = "attachable"]
        BY <1>2, <1>7, <1>10 DEF ReadToken, TokenPath
    <2>2. look' \in LookRecord /\ look'.pc = "judged" /\ look'.party = look.party
          /\ look'.verdict = "attachable" /\ look'.desc = d
        BY <1>6, <2>1
    <2>3. f = d.fingerprint
        BY <1>2, <1>10 DEF Fingerprinted
    <2>4. Compatible(q, p)
        BY <1>3, <1>4, <1>5, <2>3 DEF Compatible
    <2>5. Compatible(own[look.desc.by].party, look.party)'
        BY <1>1, <2>2, <2>4 DEF Compatible, SameDir
    <2>6. Announced(look.desc)'
        BY <1>3, <2>2
    <2>7. LookInv'
        BY <1>0, <1>3, <2>2, <2>5, <2>6 DEF LookInv, Working
    <2>8. QED
        BY <1>1, <2>2, <2>7, ClientEnough
<1>11. QED
    BY <1>8, <1>9, <1>10

-----------------------------------------------------------------------------
\* Discovery's inductive invariant holds in every reachable state: what is
\* announced says what its daemon was started with and has its token beside it,
\* and what a client has judged it has judged by that.
THEOREM Discovered == DiscoverySpec => []DiscoveryIInv
<1>1. DiscoveryInit => DiscoveryIInv
    <2> SUFFICES ASSUME DiscoveryInit PROVE DiscoveryIInv
        OBVIOUS
    <2>1. DiscoveryTypeOK
        <3>1. own \in [Owner -> OwnRecord]
            BY DEF DiscoveryInit, OwnRecord
        <3>2. token \in [Owner -> TokenRecord]
            BY DEF DiscoveryInit, NoToken, TokenRecord
        <3>3. look \in LookRecord
            BY DEF DiscoveryInit, LookRecord
        <3>4. QED
            BY <3>1, <3>2, <3>3, FoldsAssumption DEF DiscoveryInit, DiscoveryTypeOK
    <2>2. ASSUME NEW o \in Owner PROVE PublisherInv(o)
        BY NothingAssumption DEF DiscoveryInit, NoToken, PublisherInv, Assembled, Prepared, Wrote, Opened,
                                 Secured
    <2>3. FileInv
        BY DEF DiscoveryInit, FileInv
    <2>4. LookInv
        BY NothingAssumption DEF DiscoveryInit, LookInv, Working
    <2>5. QED
        BY <2>1, <2>2, <2>3, <2>4 DEF DiscoveryIInv
<1>2. DiscoveryIInv /\ [DiscoveryNext]_discoveryVars => DiscoveryIInv'
    <2> SUFFICES ASSUME DiscoveryIInv, [DiscoveryNext]_discoveryVars PROVE DiscoveryIInv'
        OBVIOUS
    <2>1. CASE UNCHANGED discoveryVars
        <3>1. look' \in LookRecord /\ Steady /\ LookInv
            BY <2>1 DEF discoveryVars, DiscoveryIInv, DiscoveryTypeOK, Steady
        <3>2. QED
            BY <2>1, <3>1, LookStill, ClientEnough DEF discoveryVars
    <2>2. ASSUME NEW o \in Owner, OwnerStep(o) PROVE DiscoveryIInv'
        BY <2>2, ElectStep, ListenStep, HardenDirectoryStep, WriteTokenStep, OpenTokenStep,
           HardenTokenStep, VouchForTokenStep, WriteDescriptorStep, EndSteps DEF OwnerStep
    <2>3. CASE Rotate \/ Damage
        BY <2>3, RotateStep, DamageStep
    <2>4. CASE (\E p \in ClientParty : LookUp(p)) \/ Expire \/ ClientStep
        BY <2>4, StartSteps, ReadDescriptorStep, ServesStep, ReadTokenStep DEF ClientStep
    <2>5. QED
        BY <2>1, <2>2, <2>3, <2>4 DEF DiscoveryNext
<1>3. QED
    BY <1>1, <1>2, PTL DEF DiscoverySpec

\* look_up_owner never hands out the token of a daemon that was not started for
\* the client's own profile, runtime and settings, whatever died, was elected,
\* rotated or replaced between its reads.
THEOREM AttachesRightly == DiscoverySpec => []AttachedRightly
<1>1. DiscoveryIInv => AttachedRightly
    BY DEF DiscoveryIInv, LookInv, AttachedRightly, Attached
<1>2. QED
    BY <1>1, Discovered, PTL

\* Without damage no daemon is called untrusted; and no daemon the client could
\* use is refused as another's, where case counts.
THEOREM RefusesRightly == DiscoverySpec => []RefusedRightly
<1>1. DiscoveryIInv => RefusedRightly
    BY DEF DiscoveryIInv, LookInv, RefusedRightly
<1>2. QED
    BY <1>1, Discovered, PTL

\* A descriptor on disk has its daemon's own private token beside it, unless
\* something else has come to lie there; a token not yet vouched for lies in a
\* private directory.
THEOREM GuardsToken == DiscoverySpec => []TokenGuarded
<1>1. DiscoveryIInv => TokenGuarded
    <2> SUFFICES ASSUME DiscoveryIInv PROVE TokenGuarded
        OBVIOUS
    <2>1. ASSUME file # Nothing
          PROVE  LET t == token[file.by]
                 IN /\ t.inode = own[file.by].inode => t.is = "file" /\ t.private
                    /\ damage = 0 => t.text = file.by
        BY <2>1 DEF DiscoveryIInv, FileInv, Announced, Kept
    <2>2. ASSUME NEW o \in Owner, token[o].text = o PROVE dir = "private"
        BY <2>2 DEF DiscoveryIInv, PublisherInv
    <2>3. QED
        BY <2>1, <2>2 DEF TokenGuarded
<1>2. QED
    BY <1>1, Discovered, PTL
=============================================================================
