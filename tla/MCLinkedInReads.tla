---------------------------- MODULE MCLinkedInReads ----------------------------
(***************************************************************************)
(* An instance of LinkedInReads for TLC: two members of one name, and ben. *)
(***************************************************************************)
EXTENDS LinkedInReads

CONSTANTS ann, anna, ben, main, more, j1, j2, j3

Sections == <<main, more>>
Names == [p \in Person |-> IF p = ben THEN "Ben" ELSE "Ann"]
Newest == <<Thread(ben, main), Thread(anna, main), Thread(ann, main)>>
Finds == [p \in Person |-> SelectSeq(Newest, LAMBDA t : Names[t.who] = Names[p])]

\* The second page repeats a job of the first, and has one more than it says.
Jobs == [q \in Person |->
          [s \in Section |-> IF q = ben THEN (IF s = main THEN <<j3>> ELSE <<>>)
                             ELSE IF s = main THEN <<j1, j2>> ELSE <<j2, j3>>]]
Counts == [q \in Person |-> IF q = ben THEN 1 ELSE 2]
=============================================================================
