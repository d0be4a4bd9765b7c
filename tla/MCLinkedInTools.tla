---------------------------- MODULE MCLinkedInTools ----------------------------
(***************************************************************************)
(* Instances of LinkedInTools for TLC.                                     *)
(***************************************************************************)
EXTENDS LinkedInTools

CONSTANTS ann, anna, main, more

Sections == <<main, more>>
PartNames == {<<ann, anna>>}

\* Each kind that a page can show, and both may be follow-only.
AllRelations == [p \in Person |-> IF p = anna THEN {"open", "hidden", "follow"}
                   ELSE {"incoming", "connected", "pending", "self", "follow"}]
=============================================================================
