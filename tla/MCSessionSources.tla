-------------------------- MODULE MCSessionSources --------------------------
(***************************************************************************)
(* Instances of SessionSources for TLC.                                    *)
(***************************************************************************)
EXTENDS SessionSources, TLC

\* The probe off, as it is by default, and on with each way out.
MCConfigs ==
  {[probe |-> FALSE, egress |-> "bare"]} \union {[probe |-> TRUE, egress |-> e] : e \in {"fleet", "proxy", "bare"}}

\* Sessions are interchangeable.
Symmetry == Permutations(Session)
=============================================================================
