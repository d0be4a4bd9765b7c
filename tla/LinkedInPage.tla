----------------------------- MODULE LinkedInPage -----------------------------
(***************************************************************************)
(* The one page of the server's browser and how scraping/extractor.py      *)
(* moves it: _goto_with_auth_checks with its single retry after the        *)
(* engine's own 30 s deadline.  After a second miss the code goes on with  *)
(* whatever the page shows, and the load that missed may still come.       *)
(***************************************************************************)
EXTENDS Naturals, FiniteSets, Sequences

CONSTANTS
  Person,   \* members of LinkedIn by user name; also companies and searches
  Section,  \* sections of their pages, pages of a listing, threads with a member
  Main,     \* main_profile, one of them
  None

ASSUME PageAssumption == Main \in Section /\ None \notin Person /\ None \notin Section

VARIABLES
  page,    \* the document the browser shows
  dialog,  \* the invitation dialog open in it
  late,    \* a load that missed its deadline and has not been superseded
  nav,     \* where _goto_with_auth_checks is
  goal     \* the url it was asked for

pageVars == <<page, dialog, late>>
navVars == <<nav, goal>>

Kind == {"other", "wall", "profile", "invite", "picker", "compose",
         "list", "inbox", "search", "thread", "feed"}
Page == [kind : Kind, who : Person \union {None}, sec : Section \union {None}]

Plain(k) == [kind |-> k, who |-> None, sec |-> None]
About(k, p) == [kind |-> k, who |-> p, sec |-> None]
Profile(p, s) == [kind |-> "profile", who |-> p, sec |-> s]

Other == Plain("other")  \* the feed, an error page, about:blank
Wall == Plain("wall")    \* the login, authwall, checkpoint and challenge urls

Dialog == {"none", "invite", "noted", "upsell"}
Nav == {"idle", "first", "retry", "landed", "arrived", "refused", "broken"}

PageTypeOK ==
  /\ page \in Page
  /\ dialog \in Dialog
  /\ late \in Page \union {None}
  /\ nav \in Nav
  /\ goal \in Page

PageInit ==
  /\ page = Other /\ dialog = "none" /\ late = None
  /\ nav = "idle" /\ goal = Other

\* Only the invitation page opens a dialog, for those in "may", and not always
\* by the time the code looks.
Load(p, may) ==
  /\ page' = p
  /\ dialog' \in IF p.kind = "invite" /\ p.who \in may THEN {"none", "invite"}
                 ELSE {"none"}

Stays == UNCHANGED <<page, dialog>>

-----------------------------------------------------------------------------
(***************************************************************************)
(* _goto_with_auth_checks.                                                 *)
(***************************************************************************)

Goto(p) ==
  /\ nav' = "first" /\ goal' = p
  /\ late' = None
  /\ Stays

\* LinkedIn answers with the page, with a page of its own or with a barrier.
Lands(may) ==
  /\ nav \in {"first", "retry"}
  /\ \E p \in {goal, Other, Wall} : Load(p, may)
  /\ nav' = "landed" /\ late' = None
  /\ UNCHANGED goal

\* "navigation exceeded 30000ms deadline": one more goto.
Deadline(may) ==
  /\ nav = "first"
  /\ Stays \/ Load(goal, may)
  /\ nav' = "retry"
  /\ UNCHANGED <<goal, late>>

\* The second miss falls through to whatever the page shows.
DeadlineAgain(may) ==
  /\ nav = "retry"
  /\ \/ Load(goal, may) /\ late' = None
     \/ Stays /\ late' = goal
  /\ nav' = "landed"
  /\ UNCHANGED goal

\* A proxy failure, a redirect storm and a barrier raise one of the
\* LinkedInScraperExceptions; any other error is raised as it is.
GotoFails(may) ==
  /\ nav \in {"first", "retry"}
  /\ \E e \in {"proxy", "Too many redirects", "else"} :
       /\ Stays \/ \E p \in {Other, Wall} : Load(p, may)
       /\ nav' = IF e # "else" \/ page'.kind = "wall" THEN "refused" ELSE "broken"
  /\ UNCHANGED <<goal, late>>

\* detect_auth_barrier_quick: the page's url, also when it is an old one.
BarrierCheck ==
  /\ nav = "landed"
  /\ nav' = IF page.kind = "wall" THEN "refused" ELSE "arrived"
  /\ UNCHANGED <<goal, pageVars>>

\* A load that missed its deadline replaces the page under the code.
LateLoad(may) ==
  /\ late # None
  /\ nav \notin {"first", "retry"}
  /\ Load(late, may)
  /\ late' = None
  /\ UNCHANGED navVars

Navigates(may) ==
  \/ Lands(may)
  \/ Deadline(may)
  \/ DeadlineAgain(may)
  \/ GotoFails(may)
  \/ BarrierCheck
  \/ LateLoad(may)

=============================================================================
