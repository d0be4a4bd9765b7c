---------------------------- MODULE MCDaemonLock ----------------------------
(***************************************************************************)
(* Instances of DaemonLock for TLC.                                        *)
(***************************************************************************)
EXTENDS DaemonLock, TLC

Files == {"daemon"}

\* Processes and descriptors are interchangeable.
Symmetry == Permutations(Proc) \union Permutations(Ofd)
=============================================================================
