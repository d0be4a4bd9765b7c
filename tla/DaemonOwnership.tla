-------------------------- MODULE DaemonOwnership ---------------------------
(***************************************************************************)
(* What daemon_lock.py promises: one owner at a time, in one line of       *)
(* succession.  A process that is there already gets into the line only    *)
(* while it is empty.  From then on nobody joins but a process that a      *)
(* member starts, and through the very lock the member has: there is no    *)
(* moment in a hand-over at which an outsider could become an owner too.   *)
(***************************************************************************)
CONSTANTS
  Proc,
  LockId  \* the locks a line can be held by

VARIABLES
  line,    \* the processes that hold the daemon's lock or are handed it
  lock,    \* the locks they have: one, or none when there is no line
  started  \* the processes there are, or were

vars == <<line, lock, started>>

Init == line = {} /\ lock = {} /\ started \in SUBSET Proc

\* A process that is there takes the lock nobody has.
Elect(p) ==
  /\ line = {} /\ p \in started
  /\ line' = {p}
  /\ \E l \in LockId : lock' = {l}
  /\ UNCHANGED started

\* A member starts a process with the lock it has.
HandOver(p, q) ==
  /\ p \in line /\ q \notin started
  /\ line' = line \union {q}
  /\ started' = started \union {q}
  /\ UNCHANGED lock

\* A process is started with nothing.
Start(q) ==
  /\ q \notin started
  /\ started' = started \union {q}
  /\ UNCHANGED <<line, lock>>

\* Members let go, the last of them with the lock.
Leave(S) ==
  /\ S # {}
  /\ line' = line \ S
  /\ lock' = IF line' = {} THEN {} ELSE lock
  /\ UNCHANGED started

Next ==
  \/ \E p \in Proc : Elect(p) \/ Start(p)
  \/ \E p, q \in Proc : HandOver(p, q)
  \/ \E S \in SUBSET line : Leave(S)

Spec == Init /\ [][Next]_vars
=============================================================================
