-------------------------- MODULE ProfileOwnership --------------------------
(***************************************************************************)
(* What the profile lease promises, whatever files and locks it is made    *)
(* of: at any time at most one process owns the browser profile, and it    *)
(* never passes from one process to another without being free between.    *)
(***************************************************************************)
CONSTANT Proc

VARIABLE owners

Init == owners = {}

Take(p) == owners = {} /\ owners' = {p}

Drop(p) == owners = {p} /\ owners' = {}

Next == \E p \in Proc : Take(p) \/ Drop(p)

Spec == Init /\ [][Next]_owners
=============================================================================
