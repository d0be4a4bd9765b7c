----------------------------- MODULE ProfileScrape -----------------------------
(***************************************************************************)
(* One tool call at a time (sequential_tool_middleware.py) on that page,   *)
(* and scrape_person, which the calls share: the sections of a profile in  *)
(* order, each with one repetition when the page holds nothing but         *)
(* LinkedIn's chrome.  A section that fails is left out of the answer.     *)
(***************************************************************************)
EXTENDS LinkedInPage

CONSTANT Order  \* the keys of PERSON_SECTIONS, in their order

ASSUME OrderAssumption == Order \in Seq(Section)

VARIABLES
  pc,      \* where the call is
  who,     \* the user name it was given
  status,  \* what the last call answered
  done,    \* history: what the call has typed, accepted and sent, in order
  back,    \* where it goes on after a scrape
  queue,   \* the sections still to come
  again,   \* the section is being read a second time
  got      \* the page each section was read from, None without one

callVars == <<pc, who, status, done>>
scrapeVars == <<back, queue, again, got>>

\* "unseen" is an invitation the code takes for not sent, "note" and "typed" are
\* texts put into an invitation and into a compose box.
Written == {"invite", "unseen", "accept", "message"}
Effect == [kind : Written \union {"note", "typed"}, who : Person]

ScrapeTypeOK ==
  /\ who \in Person \union {None}
  /\ queue \in Seq(Section)
  /\ again \in BOOLEAN
  /\ got \in [Section -> Page \union {None}]

ScrapeInit ==
  /\ pc = "idle" /\ who = None /\ status = "none" /\ done = <<>>
  /\ back = "idle" /\ queue = <<>> /\ again = FALSE
  /\ got = [s \in Section |-> None]

\* The call answers, or an exception ends it.
End(s) ==
  /\ pc' = "idle" /\ status' = s
  /\ nav' = "idle"
  /\ UNCHANGED <<who, done, scrapeVars, goal>>

Begin(p) ==
  /\ pc = "idle"
  /\ who' = p /\ done' = <<>> /\ status' = "running"

\* scrape_person(username, secs)
Scrape(secs, then) ==
  /\ pc' = "scrape" /\ back' = then
  /\ queue' = SelectSeq(Order, LAMBDA s : s \in secs \union {Main})
  /\ again' = FALSE
  /\ got' = [s \in Section |-> None]

\* A mistake: any page of the member counts as loaded already.
ReadSectionReused ==
  /\ pc = "scrape" /\ nav = "idle" /\ queue # <<>>
  /\ IF page.kind = "profile" /\ page.who = who
     THEN nav' = "arrived" /\ UNCHANGED <<goal, pageVars>>
     ELSE Goto(Profile(who, Head(queue)))
  /\ UNCHANGED <<callVars, scrapeVars>>

\* extract_page navigates first, on the second reading too.
ReadSection ==
  /\ pc = "scrape" /\ nav = "idle" /\ queue # <<>>
  /\ Goto(Profile(who, Head(queue)))
  /\ UNCHANGED <<callVars, scrapeVars>>

Arrived == pc = "scrape" /\ nav = "arrived"

\* handle_modal_close, at best.
ClosesModal == dialog' \in {dialog, "none"} /\ UNCHANGED <<page, late>>

\* The innerText of whatever page this is becomes the section.
TextRead ==
  /\ Arrived
  /\ ClosesModal
  /\ got' = [got EXCEPT ![Head(queue)] = page]
  /\ queue' = Tail(queue) /\ again' = FALSE
  /\ nav' = "idle"
  /\ UNCHANGED <<callVars, back, goal>>

\* Only chrome, the mark of a soft rate limit: wait and read once more.
ChromeOnly ==
  /\ Arrived /\ ~again
  /\ ClosesModal
  /\ again' = TRUE
  /\ nav' = "idle"
  /\ UNCHANGED <<callVars, back, queue, got, goal>>

\* Chrome again, no text, or an error that extract_page keeps to the section.
SectionLost ==
  /\ pc = "scrape" /\ nav \in {"arrived", "broken"}
  /\ ClosesModal
  /\ queue' = Tail(queue) /\ again' = FALSE
  /\ nav' = "idle"
  /\ UNCHANGED <<callVars, back, got, goal>>

ScrapeEnds ==
  /\ pc = "scrape" /\ nav = "idle" /\ queue = <<>>
  /\ pc' = back
  /\ UNCHANGED <<who, status, done, scrapeVars, pageVars, navVars>>

\* detect_rate_limit, which every reader calls when it has arrived.
Throttled ==
  /\ pc \in {"scrape", "named", "surface", "loaded", "sidebar", "expand", "list",
            "messages", "thread", "feed"}
  /\ nav = "arrived"
  /\ End("raised")
  /\ UNCHANGED pageVars

\* A LinkedInScraperException ends the call, any other error only where it is
\* not kept to the section.  What follows "Show all" ends with neither.
Raises ==
  /\ pc \notin {"idle", "expand"}
  /\ \/ nav = "refused"
     \/ nav = "broken" /\ pc \notin {"scrape", "list", "feed"}
  /\ End("raised")
  /\ UNCHANGED pageVars

\* The tool's timeout or a cancel ends the call and leaves the page as it is,
\* with a goto under way that may still load.
Cancel ==
  /\ pc # "idle"
  /\ late' \in IF nav \in {"first", "retry"} THEN {late, goal} ELSE {late}
  /\ UNCHANGED <<page, dialog>>
  /\ End("cancelled")

\* get_person_profile
StartPerson(p, secs) ==
  /\ Begin(p)
  /\ Scrape(secs, "answer")
  /\ UNCHANGED <<pageVars, navVars>>

Answer ==
  /\ pc = "answer"
  /\ End("answered")
  /\ UNCHANGED pageVars

Scrapes ==
  \/ ReadSection
  \/ TextRead
  \/ ChromeOnly
  \/ SectionLost
  \/ ScrapeEnds
  \/ Throttled
  \/ Raises
  \/ Cancel
  \/ Answer

=============================================================================
