----------------------------- MODULE MCHelpers -----------------------------
(***************************************************************************)
(* Instances of Helpers for TLC.                                           *)
(***************************************************************************)
EXTENDS Helpers

\* A link of main to LinkedIn, with one label.
Link(place, id, n) ==
  [wraps |-> 0, scheme |-> "http", host |-> "linkedin", place |-> place, id |-> id,
   suffix |-> FALSE, labels |-> {[whole |-> n, head |-> n]}, heading |-> "",
   article |-> FALSE, chrome |-> FALSE, main |-> TRUE]

\* Two links to one member, the second one better described; a job; a post
\* without a label, in a nav too; a site behind redirects, once too many; a part
\* of a profile; a link without an address; and one beside main.
MCAnchor ==
  {Link("in", 1, 5), [Link("in", 1, 9) EXCEPT !.heading = "about"],
   [Link("jobs", 1, 2) EXCEPT !.main = FALSE],
   Link("update", 1, 0), [Link("update", 2, 0) EXCEPT !.chrome = TRUE],
   [Link("", 3, 6) EXCEPT !.host = "other", !.place = "site", !.wraps = 5],
   [Link("", 3, 6) EXCEPT !.host = "other", !.place = "site", !.wraps = 6],
   [Link("in", 1, 5) EXCEPT !.suffix = TRUE], Link("", 1, 0)}

MCPermalink == {[post |-> TRUE, id |-> 1], [post |-> TRUE, id |-> 2], [post |-> FALSE, id |-> 1]}

MCCaps == [search_results |-> 2, main_profile |-> 2, feed |-> 2]
=============================================================================
