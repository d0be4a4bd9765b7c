--------------------------- MODULE MCProfileLease ---------------------------
(***************************************************************************)
(* Instances of ProfileLease for TLC.                                      *)
(***************************************************************************)
EXTENDS ProfileLease, TLC

Files == {"lease", "handoff"}

\* Processes, callers and descriptors are interchangeable.
Symmetry == Permutations(Proc) \union Permutations(Ofd) \union Permutations(Caller)
=============================================================================
