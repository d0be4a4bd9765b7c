--------------------------- MODULE MCBrowserServer ---------------------------
(***************************************************************************)
(* Instances of BrowserServer for TLC.                                     *)
(***************************************************************************)
EXTENDS BrowserServer, TLC

\* Servers are interchangeable.
Symmetry == Permutations(Proc \ Cli)
=============================================================================
