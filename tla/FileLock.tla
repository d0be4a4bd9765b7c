------------------------------ MODULE FileLock ------------------------------
(***************************************************************************)
(* Whole-file advisory locks as profile_lease.py takes them: flock(2) on   *)
(* an open file description reached through a path that somebody may       *)
(* replace between the open and the lock.                                  *)
(*                                                                         *)
(* A file is its path; replacing it gives the path a new generation, so    *)
(* <<file, generation>> plays the part of the inode.  A lock belongs to    *)
(* an open file description (OFD), not to a process: after a fork several  *)
(* processes hold descriptors of one OFD, and the lock lasts until one of  *)
(* them unlocks it or the last of them closes it.                          *)
(***************************************************************************)
EXTENDS Naturals, FiniteSets

CONSTANTS
  Proc,         \* the server processes
  Ofd,          \* the pool open file descriptions are taken from
  File,         \* the lock files
  MaxReplaced,  \* how often each path may be replaced (bounds the model)
  None

ASSUME FileLockAssumption ==
  /\ None \notin Proc \union Ofd \union File
  /\ MaxReplaced \in Nat

VARIABLES
  ofd,  \* the kernel's table of open file descriptions
  at    \* the generation of the file each path names now

Mode == {"none", "sh", "ex"}

OfdRecord == [file: File \union {None}, gen: Nat, mode: Mode,
              by: Proc \union {None}, open: SUBSET Proc]

Closed == [file |-> None, gen |-> 0, mode |-> "none", by |-> None, open |-> {}]

FileLockTypeOK ==
  /\ ofd \in [Ofd -> OfdRecord]
  /\ at \in [File -> Nat]

FileLockInit ==
  /\ ofd = [o \in Ofd |-> Closed]
  /\ at = [f \in File |-> 0]

IsOpen(o) == ofd[o].open # {}

SameFile(o1, o2) == ofd[o1].file = ofd[o2].file /\ ofd[o1].gen = ofd[o2].gen

\* is_still_at: the descriptor is still the file its path names.
IsStillAt(o) == ofd[o].gen = at[ofd[o].file]

Conflict(m1, m2) == (m1 = "ex" /\ m2 # "none") \/ (m1 # "none" /\ m2 = "ex")

\* The kernel grants a lock that conflicts with no lock on the same file.
Grantable(o, mode) ==
  \A other \in Ofd \ {o} : SameFile(o, other) => ~ Conflict(mode, ofd[other].mode)

OpenFile(p, f, o) ==
  /\ ~ IsOpen(o)
  /\ ofd' = [ofd EXCEPT ![o] = [file |-> f, gen |-> at[f], mode |-> "none",
                                by |-> p, open |-> {p}]]

Lock(o, mode) == ofd' = [ofd EXCEPT ![o].mode = mode]

\* The table once process p has closed its descriptors of the OFDs in S; the
\* last close of an OFD takes the lock with it.
WithClosed(p, S) ==
  [o \in Ofd |-> IF o \notin S \/ p \notin ofd[o].open THEN ofd[o]
                 ELSE IF ofd[o].open = {p} THEN Closed
                 ELSE [ofd[o] EXCEPT !.open = @ \ {p}]]

\* ... and once p has unlocked and closed o: unlocking acts on the OFD, so it
\* takes the lock from every process that shares it.
WithReleased(p, o) ==
  [WithClosed(p, {o}) EXCEPT ![o].mode = "none"]

\* A forked child holds a descriptor of everything its parent had open.
WithForked(p, child) ==
  [o \in Ofd |-> IF p \in ofd[o].open THEN [ofd[o] EXCEPT !.open = @ \union {child}]
                 ELSE ofd[o]]

\* Somebody outside the program replaces the file a path names.
Replace(f) ==
  /\ at[f] < MaxReplaced
  /\ at' = [at EXCEPT ![f] = @ + 1]

\* flock's own guarantee: no two OFDs hold conflicting locks on one file.
NoConflict ==
  \A o1, o2 \in Ofd :
    o1 # o2 /\ SameFile(o1, o2) => ~ Conflict(ofd[o1].mode, ofd[o2].mode)
=============================================================================
