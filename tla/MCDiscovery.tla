---------------------------- MODULE MCDiscovery ----------------------------
(* One client, and daemons that differ from it: one in the spelling of the  *)
(* profile, one in a container, one with an empty proxy password, and one   *)
(* only in how its settings are written.                                    *)
EXTENDS Discovery

Base == [spelling |-> "profile", runtime |-> "host", auto |-> "unset",
         password |-> "unset", agent |-> "unset"]

MCClientParty == {Base}

MCParty == {[Base EXCEPT !.spelling = "Profile"],
            [Base EXCEPT !.runtime = "container"],
            [Base EXCEPT !.password = "empty"],
            [Base EXCEPT !.auto = "on", !.agent = "empty"]}
=============================================================================
