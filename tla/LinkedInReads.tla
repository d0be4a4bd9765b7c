----------------------------- MODULE LinkedInReads -----------------------------
(***************************************************************************)
(* The tools that read LinkedIn, called one after another on one page:     *)
(* profiles, companies and searches (ProfileScrape), job lists             *)
(* (JobLists), the inbox and its conversations (Conversations), the feed   *)
(* (FeedScroll).                                                           *)
(***************************************************************************)
EXTENDS JobLists, Conversations, FeedScroll

CONSTANTS
  MaxCalls,  \* bound on the calls
  Me,        \* the account's own member
  Wants      \* what callers pass for num_posts

ASSUME ReadsAssumption == MaxCalls \in Nat /\ Me \in Person /\ Wants \subseteq Nat

VARIABLES
  calls,  \* the calls so far
  missed  \* history: the page of this call was left old, or replaced late

vars == <<calls, missed, callVars, scrapeVars, pageVars, navVars, listVars, convVars, feedVars>>

Pc == {"idle", "scrape", "answer", "me", "loaded", "sidebar", "expand", "list", "total", "ids",
       "named", "messages", "labels", "rows", "click", "thread",
       "feed", "wheel", "tick", "posts"}
Status == {"none", "running", "raised", "cancelled", "answered", "rejected",
           "messaging_route_empty", "unavailable", "failed"}

\* The values of every variable.
TypeOK ==
  /\ PageTypeOK /\ ScrapeTypeOK /\ ListTypeOK /\ ConversationTypeOK /\ FeedTypeOK
  /\ pc \in Pc /\ status \in Status /\ done = <<>>
  /\ calls \in 0..MaxCalls /\ missed \in BOOLEAN

Init ==
  /\ PageInit /\ ScrapeInit /\ ListInit /\ ConversationInit /\ FeedInit
  /\ calls = 0 /\ missed = FALSE

-----------------------------------------------------------------------------
(***************************************************************************)
(* Tools of one page or one scrape.                                        *)
(***************************************************************************)

\* get_company_profile: the about page and what else was asked for.
StartCompany(c, secs) == StartPerson(c, secs)

\* One page each, whatever it shows.
StartOnePage(q) == StartPerson(q, {})
CompanyEmployees(q) == StartOnePage(q)
ScrapeJob(q) == StartOnePage(q)
SearchCompanies(q) == StartOnePage(q)

NoScrape == back' = "idle" /\ queue' = <<>> /\ again' = FALSE /\ got' = [s \in Section |-> None]

\* A filter LinkedIn would ignore is refused before anything is navigated to.
Refused(q) ==
  /\ pc = "idle"
  /\ who' = q /\ done' = <<>> /\ status' = "rejected"
  /\ NoScrape
  /\ UNCHANGED <<pc, pageVars, navVars>>

\* Its network and currentCompany, and the date of a post.
SearchPeople(q, valid) == IF valid THEN StartOnePage(q) ELSE Refused(q)
SearchPosts(q, valid) == IF valid THEN StartOnePage(q) ELSE Refused(q)

\* get_my_profile: /in/me/, which LinkedIn turns into the member's own url.
StartMe(secs) ==
  /\ Begin(Me)
  /\ pc' = "me" /\ back' = "answer"
  /\ queue' = SelectSeq(Order, LAMBDA s : s \in secs \union {Main})
  /\ again' = FALSE /\ got' = [s \in Section |-> None]
  /\ nav' = "first" /\ goal' = Profile(Me, Main) /\ late' = None
  /\ Stays

\* The user name in the url the page has now.
NameInUrl == IF page.kind = "profile" THEN page.who ELSE Me

\* The page is the root of that profile, so its text need not be loaded again.
Loaded == page = Profile(NameInUrl, Main)

MeResolved ==
  /\ pc = "me" /\ nav = "arrived"
  /\ who' = NameInUrl
  /\ IF Loaded THEN pc' = "loaded" /\ UNCHANGED nav
     ELSE pc' = "scrape" /\ nav' = "idle"
  /\ UNCHANGED <<status, done, scrapeVars, pageVars, goal>>

\* _extract_loaded_section alone; chrome falls back to extract_page.
LoadedRead ==
  /\ pc = "loaded" /\ nav = "arrived"
  /\ ClosesModal
  /\ \/ got' = [got EXCEPT ![Main] = page] /\ queue' = Tail(queue)
     \/ queue' = Tail(queue) /\ UNCHANGED got
     \/ UNCHANGED <<queue, got>>
  /\ pc' = "scrape" /\ nav' = "idle"
  /\ UNCHANGED <<who, status, done, back, again, goal>>

\* get_sidebar_profiles: a profile, then each "Show all" that it links to.
StartSidebar(p) ==
  /\ Begin(p)
  /\ Goto(Profile(p, Main))
  /\ pc' = "sidebar"
  /\ NoScrape

SidebarRead ==
  /\ pc = "sidebar" /\ nav = "arrived"
  /\ ClosesModal
  /\ \E secs \in SUBSET (Section \ {Main}) :
       queue' = SelectSeq(Order, LAMBDA s : s \in secs)
  /\ pc' = "expand" /\ nav' = "idle"
  /\ UNCHANGED <<who, status, done, back, again, got, goal>>

SidebarNext ==
  /\ pc = "expand" /\ nav = "idle" /\ queue # <<>>
  /\ Goto([kind |-> "search", who |-> who, sec |-> Head(queue)])
  /\ UNCHANGED <<callVars, scrapeVars>>

\* Any exception of the navigation and a redirect to /premium skip the section.
SidebarSkips ==
  /\ pc = "expand"
  /\ nav \in {"refused", "broken"} \/ (nav = "arrived" /\ page = Other)
  /\ queue' = Tail(queue) /\ nav' = "idle"
  /\ UNCHANGED <<callVars, back, again, got, goal, pageVars>>

SidebarExpanded ==
  /\ pc = "expand" /\ nav = "arrived"
  /\ ClosesModal
  /\ got' = [got EXCEPT ![Head(queue)] = page]
  /\ queue' = Tail(queue) /\ nav' = "idle"
  /\ UNCHANGED <<callVars, back, again, goal>>

SidebarEnds ==
  /\ pc = "expand" /\ nav = "idle" /\ queue = <<>>
  /\ End("answered")
  /\ UNCHANGED pageVars

OnePage ==
  \/ MeResolved
  \/ LoadedRead
  \/ SidebarRead
  \/ SidebarNext
  \/ SidebarSkips
  \/ SidebarExpanded
  \/ SidebarEnds

-----------------------------------------------------------------------------

StartScrape ==
  /\ \/ \E p \in Person, secs \in SUBSET Section : StartCompany(p, secs)
     \/ \E q \in Person : CompanyEmployees(q) \/ ScrapeJob(q) \/ SearchCompanies(q)
     \/ \E q \in Person, valid \in BOOLEAN : SearchPeople(q, valid) \/ SearchPosts(q, valid)
     \/ \E secs \in SUBSET Section : StartMe(secs)
     \/ \E p \in Person : StartSidebar(p)
  /\ NoList /\ NoConversation /\ NoFeed

StartLists ==
  /\ \E q \in Person, n \in 1..Len(Order) : StartList(q, n)
  /\ NoScrape /\ NoConversation /\ NoFeed

StartMessaging ==
  /\ \/ StartInbox
     \/ \E p \in Person : StartSearch(p)
     \/ \E t \in Threads : StartThread(t)
     \/ \E p \in Person, i \in 0..1 : StartConversation(p, i)
  /\ queue' = <<>> /\ again' = FALSE /\ got' = [s \in Section |-> None]
  /\ NoList /\ NoFeed

StartFeeds ==
  /\ \E n \in Wants : StartFeed(n)
  /\ NoScrape /\ NoList /\ NoConversation

Start ==
  /\ calls < MaxCalls
  /\ calls' = calls + 1 /\ missed' = FALSE
  /\ StartScrape \/ StartLists \/ StartMessaging \/ StartFeeds

\* A second miss leaves the old page.
LeftOld == nav = "retry" /\ nav' = "landed" /\ late' = goal

\* An old page left by a second miss, or a new one that comes late.
Navigating ==
  /\ Navigates({})
  /\ pc \notin {"rows", "click"}
  /\ missed' = (missed \/ LeftOld \/ late' # late)
  /\ UNCHANGED <<calls, callVars, scrapeVars, listVars, convVars, feedVars>>

Reading ==
  /\ \/ (Scrapes \/ OnePage) /\ UNCHANGED <<listVars, convVars, feedVars>>
     \/ Lists /\ UNCHANGED <<convVars, feedVars>>
     \/ Converses /\ UNCHANGED <<listVars, feedVars>>
     \/ Feeds /\ UNCHANGED <<listVars, convVars>>
  /\ UNCHANGED <<calls, missed>>

Next == Start \/ Navigating \/ Reading

\* What the code does by itself: gotos and waits have deadlines, the evaluations
\* end, and the tools' timeout is never needed.  LinkedIn's responses and reads
\* that hang are not waited for.
Progress == Navigating \/ (Reading /\ status' # "cancelled" /\ ~Arrives)

Spec == Init /\ [][Next]_vars /\ WF_vars(Progress)

-----------------------------------------------------------------------------
(***************************************************************************)
(* Properties.                                                             *)
(***************************************************************************)

\* "sections": on time, the text under a section is of that section of the member
\* the answer names, or of a page LinkedIn put in its place: no section is filed
\* under another, not with retries, reused pages and failed ones between.
\* job_ids: each id once, and on time none but those of the listing asked for, on
\* the pages whose text is in the answer; these are its first pages without a gap.
FiledAsAsked ==
  /\ ~missed => \A s \in Section : got[s] # None =>
       got[s] \in {Profile(who, s), [kind |-> "search", who |-> who, sec |-> s], Other}
  /\ IsInjective(ids)
  /\ ~missed =>
       /\ \A n \in 1..Len(listed) : listed[n] \in {ListPage(who, n), Other}
       /\ Range(ids) \subseteq UNION {Range(JobsOf(listed[n])) : n \in 1..Len(listed)}

\* A conversation looked up by its member's name was read on time.
Looked == status = "answered" /\ ByName /\ ~missed /\ shown.kind = "thread"

\* _resolve_conversation_thread_urls: the conversation read is one with a member
\* of the name of the one asked for.  Another is read only when a click was not
\* answered within the wait, and then it is the one the app had open by itself.
ConversationAsked ==
  Looked => NameOf[shown.who] = NameOf[who] \/ (slow /\ shown = opened)

\* "All thread URLs whose participant name matches display_name"
\* (extractor.py:2879), "rather than returning a wrong-thread match"
\* (extractor.py:2896).  This does not hold.
NoWrongThread == Looked => NameOf[shown.who] = NameOf[who]

\* get_conversation: "click-visits only the row(s) matching the participant's
\* display name" (extractor.py:4057), for a click marks a conversation as read.
OwnRowsClicked == ByName /\ ~missed => \A r \in clicked : NameOf[r.who] = NameOf[who]

\* get_feed: "producing false-stale verdicts" (extractor.py:1538): the scrolling
\* ends as stale only if no response that could be read at once came in the last
\* rounds, the time after their last drain apart.
StaleMeansQuiet == stale = MaxStale => lately \notin scrolls - MaxStale + 1..scrolls

\* Every call ends by itself: no loop over pages, rows, sections, retries or
\* scrolls goes on for ever.
EveryCallEnds == pc # "idle" ~> pc = "idle"

=============================================================================
