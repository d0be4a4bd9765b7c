--------------------------- MODULE FileLockProofs ---------------------------
(***************************************************************************)
(* What the operations of FileLock on the kernel's table preserve, for any *)
(* processes and descriptors: the lemmas the proofs about the profile      *)
(* lease and the daemon lock share.                                        *)
(***************************************************************************)
EXTENDS FileLock, TLAPS

\* What the operators on the kernel's table do to it: they keep it a table of
\* OFDs ...
LEMMA ClosedTyping ==
  ASSUME ofd \in [Ofd -> OfdRecord], NEW p \in Proc, NEW S
  PROVE  WithClosed(p, S) \in [Ofd -> OfdRecord]
<1>1. Closed \in OfdRecord
  BY DEF Closed, OfdRecord, Mode
<1>2. ASSUME NEW o \in Ofd PROVE [ofd[o] EXCEPT !.open = @ \ {p}] \in OfdRecord
  <2>1. ofd[o] \in OfdRecord
    OBVIOUS
  <2>2. QED
    BY <2>1 DEF OfdRecord
<1>3. QED
  BY <1>1, <1>2 DEF WithClosed

\* ... after an unlock and a close (_release_locked_fd) ...
LEMMA ReleasedTyping ==
  ASSUME ofd \in [Ofd -> OfdRecord], NEW p \in Proc, NEW o
  PROVE  WithReleased(p, o) \in [Ofd -> OfdRecord]
<1> DEFINE t == WithClosed(p, {o})
<1>1. t \in [Ofd -> OfdRecord]
  BY ClosedTyping
<1> HIDE DEF t
<1>2. o \in Ofd => [t[o] EXCEPT !.mode = "none"] \in OfdRecord
  <2>0. SUFFICES ASSUME o \in Ofd PROVE [t[o] EXCEPT !.mode = "none"] \in OfdRecord
    OBVIOUS
  <2>1. t[o] \in OfdRecord
    BY <1>1, <2>0
  <2>2. QED
    BY <2>1 DEF OfdRecord, Mode
<1>3. [t EXCEPT ![o].mode = "none"] \in [Ofd -> OfdRecord]
  BY <1>1, <1>2
<1>4. QED
  BY <1>3 DEF WithReleased, t

\* ... after a fork has duplicated descriptors ...
LEMMA ForkedTyping ==
  ASSUME ofd \in [Ofd -> OfdRecord], NEW p \in Proc, NEW child \in Proc
  PROVE  WithForked(p, child) \in [Ofd -> OfdRecord]
<1>1. ASSUME NEW o \in Ofd PROVE [ofd[o] EXCEPT !.open = @ \union {child}] \in OfdRecord
  <2>1. ofd[o] \in OfdRecord
    OBVIOUS
  <2>2. QED
    BY <2>1 DEF OfdRecord
<1>2. QED
  BY <1>1 DEF WithForked

\* ... after flock has granted a lock (try_lock) ...
LEMMA LockTyping ==
  ASSUME ofd \in [Ofd -> OfdRecord], NEW o, NEW mode \in Mode, Lock(o, mode)
  PROVE  ofd' \in [Ofd -> OfdRecord]
<1>1. ASSUME o \in Ofd PROVE [ofd[o] EXCEPT !.mode = mode] \in OfdRecord
  <2>1. ofd[o] \in OfdRecord
    BY <1>1
  <2>2. QED
    BY <2>1 DEF OfdRecord
<1>2. QED
  BY <1>1 DEF Lock

\* ... and after a lock file was opened (open_lock_file).
LEMMA OpenTyping ==
  ASSUME FileLockTypeOK, NEW p \in Proc, NEW f \in File, NEW o \in Ofd, OpenFile(p, f, o)
  PROVE  ofd' \in [Ofd -> OfdRecord]
<1>1. [file |-> f, gen |-> at[f], mode |-> "none", by |-> p, open |-> {p}] \in OfdRecord
  BY DEF OfdRecord, Mode, FileLockTypeOK
<1>2. QED
  BY <1>1 DEF OpenFile, FileLockTypeOK

-----------------------------------------------------------------------------
\* The new table t locks o as the old one did.
SameLock(t, o) ==
  t[o].file = ofd[o].file /\ t[o].gen = ofd[o].gen /\ t[o].by = ofd[o].by
  /\ t[o].mode = ofd[o].mode

\* The new table t grants nothing the old one did not.
Weaker(t) == \A o \in Ofd : t[o].mode = "none" \/ SameLock(t, o)

\* Weaker locks cannot conflict when the old ones did not.
LEMMA WeakerNoConflict ==
  ASSUME NoConflict, Weaker(ofd')
  PROVE  NoConflict'
BY DEF NoConflict, Weaker, SameLock, SameFile, Conflict

\* A lock lasts as long as some process has its OFD open, and no longer.
LocksOpen(t) == \A o \in Ofd : t[o].mode # "none" => t[o].open # {}

\* To process q the new table t is as the old one: the same descriptors, on
\* the same files with the same locks, and its own alone what was its own.
Untouched(t, q) ==
  \A o \in Ofd :
    /\ q \in t[o].open <=> q \in ofd[o].open
    /\ q \in ofd[o].open => SameLock(t, o)
    /\ ofd[o].open = {q} => t[o].open = {q}

\* Closing descriptors of p (release, the at-fork hooks, exit): p's are gone,
\* everything else stays.
LEMMA ClosedTable ==
  ASSUME ofd \in [Ofd -> OfdRecord], NEW p \in Proc, NEW S
  PROVE  LET t == WithClosed(p, S)
         IN  /\ Weaker(t)
             /\ LocksOpen(ofd) => LocksOpen(t)
             /\ \A q \in Proc \ {p} : Untouched(t, q)
             /\ \A o \in Ofd : p \in t[o].open <=> o \notin S /\ p \in ofd[o].open
             /\ \A o \in Ofd \ S : t[o] = ofd[o]
             /\ \A o \in Ofd : t[o].open # {} => SameLock(t, o)
<1> DEFINE t == WithClosed(p, S)
<1>1. ASSUME NEW o \in Ofd PROVE t[o].mode = "none" \/ SameLock(t, o)
  BY DEF WithClosed, SameLock, Closed, OfdRecord
<1>2. ASSUME LocksOpen(ofd) PROVE LocksOpen(t)
  <2>1. ASSUME NEW o \in Ofd, t[o].mode # "none" PROVE t[o].open # {}
    BY <1>2, <2>1 DEF WithClosed, Closed, OfdRecord, LocksOpen
  <2>2. QED
    BY <2>1 DEF LocksOpen
<1>3. ASSUME NEW q \in Proc \ {p}, NEW o \in Ofd
      PROVE  /\ q \in t[o].open <=> q \in ofd[o].open
             /\ q \in ofd[o].open => SameLock(t, o)
             /\ ofd[o].open = {q} => t[o].open = {q}
  BY DEF WithClosed, SameLock, Closed, OfdRecord
<1>4. ASSUME NEW o \in Ofd
      PROVE  p \in t[o].open <=> o \notin S /\ p \in ofd[o].open
  BY DEF WithClosed, Closed, OfdRecord
<1>5. ASSUME NEW o \in Ofd, t[o].open # {} PROVE SameLock(t, o)
  BY <1>5 DEF WithClosed, SameLock, Closed, OfdRecord
<1>6. ASSUME NEW o \in Ofd \ S PROVE t[o] = ofd[o]
  BY DEF WithClosed
<1>7. QED
  BY <1>1, <1>2, <1>3, <1>4, <1>5, <1>6 DEF Weaker, Untouched

\* Unlocking and closing an OFD that only p has open is closing it.
LEMMA ReleasedAlone ==
  ASSUME ofd \in [Ofd -> OfdRecord], NEW p \in Proc, NEW o \in Ofd, ofd[o].open = {p}
  PROVE  WithReleased(p, o) = WithClosed(p, {o})
<1> DEFINE t == WithClosed(p, {o})
<1>1. t \in [Ofd -> OfdRecord]
  BY ClosedTyping
<1>2. t[o] = Closed
  BY DEF WithClosed
<1>3. [t[o] EXCEPT !.mode = "none"] = t[o]
  BY <1>2 DEF Closed
<1> HIDE DEF t
<1>4. [t EXCEPT ![o].mode = "none"] = t
  BY <1>1, <1>3
<1>5. QED
  BY <1>4 DEF WithReleased, t

\* Opening a lock file takes an OFD nobody has open.
LEMMA OpenedTable ==
  ASSUME ofd \in [Ofd -> OfdRecord], NEW p \in Proc, NEW f \in File, NEW o \in Ofd,
         OpenFile(p, f, o)
  PROVE  /\ Weaker(ofd')
         /\ LocksOpen(ofd) => LocksOpen(ofd')
         /\ \A q \in Proc \ {p} : Untouched(ofd', q)
         /\ \A other \in Ofd \ {o} : ofd'[other] = ofd[other]
         /\ ofd[o].open = {} /\ ofd'[o].open = {p}
         /\ ofd'[o].mode = "none" /\ ofd'[o].file = f
<1>1. \A other \in Ofd \ {o} : ofd'[other] = ofd[other]
  BY DEF OpenFile
<1>2. ofd[o].open = {} /\ ofd'[o].open = {p} /\ ofd'[o].mode = "none" /\ ofd'[o].file = f
  BY DEF OpenFile, IsOpen
<1>3. Weaker(ofd')
  BY <1>1, <1>2 DEF Weaker, SameLock
<1>4. LocksOpen(ofd) => LocksOpen(ofd')
  BY <1>1, <1>2 DEF LocksOpen
<1>5. \A q \in Proc \ {p} : Untouched(ofd', q)
  BY <1>1, <1>2 DEF Untouched, SameLock
<1>6. QED
  BY <1>1, <1>2, <1>3, <1>4, <1>5

\* A granted lock conflicts with nobody's, and is seen only by the processes
\* that have the OFD open.
LEMMA LockedTable ==
  ASSUME ofd \in [Ofd -> OfdRecord], NEW o \in Ofd, NEW mode \in Mode,
         Grantable(o, mode), Lock(o, mode)
  PROVE  /\ NoConflict => NoConflict'
         /\ ofd[o].open # {} /\ LocksOpen(ofd) => LocksOpen(ofd')
         /\ \A q \in Proc : q \notin ofd[o].open => Untouched(ofd', q)
         /\ \A other \in Ofd \ {o} : ofd'[other] = ofd[other]
         /\ ofd'[o].mode = mode /\ ofd'[o].open = ofd[o].open
         /\ ofd'[o].file = ofd[o].file /\ ofd'[o].gen = ofd[o].gen
         /\ ofd'[o].by = ofd[o].by
<1>1. \A other \in Ofd \ {o} : ofd'[other] = ofd[other]
  BY DEF Lock
<1>2. /\ ofd'[o].mode = mode /\ ofd'[o].open = ofd[o].open
      /\ ofd'[o].file = ofd[o].file /\ ofd'[o].gen = ofd[o].gen
      /\ ofd'[o].by = ofd[o].by
  <2>1. ofd'[o] = [ofd[o] EXCEPT !.mode = mode]
    BY DEF Lock
  <2>2. ofd[o] \in OfdRecord
    OBVIOUS
  <2>3. QED
    BY <2>1, <2>2 DEF OfdRecord
<1>3. ASSUME NoConflict PROVE NoConflict'
  <2>1. ASSUME NEW o1 \in Ofd, NEW o2 \in Ofd, o1 # o2, SameFile(o1, o2)'
        PROVE  ~ Conflict(ofd'[o1].mode, ofd'[o2].mode)
    <3>1. SameFile(o1, o2)
      BY <1>1, <1>2, <2>1 DEF SameFile
    <3>2. ~ Conflict(ofd[o1].mode, ofd[o2].mode)
      BY <1>3, <2>1, <3>1 DEF NoConflict
    <3>3. CASE o1 = o
      BY <1>1, <1>2, <2>1, <3>1, <3>3 DEF Grantable, Conflict
    <3>4. CASE o2 = o
      BY <1>1, <1>2, <2>1, <3>1, <3>4 DEF Grantable, Conflict, SameFile
    <3>5. CASE o1 # o /\ o2 # o
      BY <1>1, <3>2, <3>5
    <3>6. QED
      BY <3>3, <3>4, <3>5
  <2>2. QED
    BY <2>1 DEF NoConflict
<1>4. ofd[o].open # {} /\ LocksOpen(ofd) => LocksOpen(ofd')
  BY <1>1, <1>2 DEF LocksOpen
<1>5. \A q \in Proc : q \notin ofd[o].open => Untouched(ofd', q)
  BY <1>1, <1>2 DEF Untouched, SameLock
<1>6. QED
  BY <1>1, <1>2, <1>3, <1>4, <1>5

\* A descriptor passed to another process (a fork, a launch) takes nothing
\* from those that have the OFD open; the newcomer had none.
SharedWith(t, s, S) ==
  \A o \in Ofd : /\ SameLock(t, o)
                 /\ t[o].open = IF o \in S THEN ofd[o].open \union {s} ELSE ofd[o].open

\* Sharing an OFD with another process locks and unlocks nothing.
LEMMA SharedTable ==
  ASSUME ofd \in [Ofd -> OfdRecord], NEW s \in Proc, NEW S, NEW t, SharedWith(t, s, S),
         NEW p \in Proc, \A o \in S : o \in Ofd => p \in ofd[o].open
  PROVE  /\ Weaker(t)
         /\ LocksOpen(ofd) => LocksOpen(t)
         /\ \A q \in Proc \ {s, p} : Untouched(t, q)
<1>1. Weaker(t)
  BY DEF SharedWith, Weaker
<1>2. LocksOpen(ofd) => LocksOpen(t)
  BY DEF SharedWith, SameLock, LocksOpen
<1>3. \A q \in Proc \ {s, p} : Untouched(t, q)
  BY DEF SharedWith, Untouched
<1>4. QED
  BY <1>1, <1>2, <1>3

\* A fork shares what p has open with the child ...
LEMMA ForkShares ==
  ASSUME ofd \in [Ofd -> OfdRecord], NEW p \in Proc, NEW child \in Proc
  PROVE  SharedWith(WithForked(p, child), child, {o \in Ofd : p \in ofd[o].open})
<1> DEFINE t == WithForked(p, child)
<1>1. ASSUME NEW o \in Ofd
      PROVE  /\ SameLock(t, o)
             /\ t[o].open = IF p \in ofd[o].open THEN ofd[o].open \union {child}
                                                  ELSE ofd[o].open
  <2>1. CASE p \in ofd[o].open
    <3>1. t[o] = [ofd[o] EXCEPT !.open = @ \union {child}]
      BY <2>1 DEF WithForked
    <3>2. ofd[o] \in OfdRecord
      OBVIOUS
    <3>3. QED
      BY <2>1, <3>1, <3>2 DEF SameLock, OfdRecord
  <2>2. CASE p \notin ofd[o].open
    BY <2>2 DEF WithForked, SameLock
  <2>3. QED
    BY <2>1, <2>2
<1>2. QED
  BY <1>1 DEF SharedWith

\* ... and a launched program shares the OFD it was given.
LEMMA LaunchShares ==
  ASSUME ofd \in [Ofd -> OfdRecord], NEW o \in Ofd, NEW s \in Proc
  PROVE  LET t == [ofd EXCEPT ![o].open = @ \union {s}]
         IN  t \in [Ofd -> OfdRecord] /\ SharedWith(t, s, {o})
<1> DEFINE t == [ofd EXCEPT ![o].open = @ \union {s}]
<1>1. [ofd[o] EXCEPT !.open = @ \union {s}] \in OfdRecord
  <2>1. ofd[o] \in OfdRecord
    OBVIOUS
  <2>2. QED
    BY <2>1 DEF OfdRecord
<1>2. t \in [Ofd -> OfdRecord]
  BY <1>1
<1>3. t[o] = [ofd[o] EXCEPT !.open = @ \union {s}] /\ ofd[o] \in OfdRecord
  OBVIOUS
<1>4. \A other \in Ofd \ {o} : t[other] = ofd[other]
  OBVIOUS
<1>5. SameLock(t, o) /\ t[o].open = ofd[o].open \union {s}
  BY <1>3 DEF SameLock, OfdRecord
<1> HIDE DEF t
<1>6. SharedWith(t, s, {o})
  BY <1>4, <1>5 DEF SharedWith, SameLock
<1>7. QED
  BY <1>2, <1>6 DEF t
=============================================================================
