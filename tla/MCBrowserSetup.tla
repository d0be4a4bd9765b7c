--------------------------- MODULE MCBrowserSetup ---------------------------
(***************************************************************************)
(* Instances of BrowserSetup for TLC.                                      *)
(***************************************************************************)
EXTENDS BrowserSetup
=============================================================================
