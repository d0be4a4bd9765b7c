-------------------------- MODULE LinkedInReadsProofs --------------------------
(***************************************************************************)
(* Proofs about LinkedInReads: whatever misses its deadline, loads late,   *)
(* fails or is cancelled, what is on time is filed under what it is of,    *)
(* only rows of the name asked for are clicked and only a conversation of  *)
(* that name is read, and the feed is not given up while posts come.       *)
(***************************************************************************)
EXTENDS LinkedInReads, TLAPS

-----------------------------------------------------------------------------
(***************************************************************************)
(* The inductive invariant.                                                *)
(***************************************************************************)

\* A page about somebody is about a member, and a page of a listing exists.
Sound(p) ==
  /\ p.kind \in {"list", "profile", "search", "thread"} => p.who \in Person
  /\ p.kind = "list" => p.sec \in Section

\* Where the pages come from: each is one that was asked for.
PageInv ==
  /\ Sound(page) /\ Sound(goal)
  /\ late # None => Sound(late)
  /\ open # None => Sound(open)
  /\ coming # None => Sound(coming)
  /\ rows \in Seq(Threads)
  /\ refs \in Seq(Range(refs)) /\ \A i \in DOMAIN refs : Sound(refs[i].thread)
  /\ index \in Nat

\* On time, the page that has arrived is the one asked for or LinkedIn's own.
NavInv ==
  /\ ~missed =>
       /\ nav \in {"first", "retry", "landed", "arrived"} => late = None
       /\ nav = "landed" => page \in {goal, Other, Wall}
       /\ nav = "arrived" => page \in {goal, Other}
  /\ pc \in {"idle", "total", "ids"} => nav = "idle"

Named == {"scrape", "me", "loaded", "sidebar", "expand", "list", "total", "ids", "named"}

\* Which calls are for whom, and which of them look a conversation up.
CallInv ==
  /\ back \in {"idle", "answer", "thread"}
  /\ ByName => pc \in {"idle", "named", "messages", "labels", "rows", "click", "thread"}
  /\ pc \in {"named", "thread"} => ByName
  /\ pc \in Named \/ ByName => who \in Person
  /\ pc # "idle" => status = "running"
  /\ pc = "click" => rows # <<>>
  /\ who \in Person \union {None}

\* A section is asked for, read and filed before the next one is.
Filed ==
  ~missed => \A s \in Section : got[s] # None =>
    got[s] \in {Profile(who, s), [kind |-> "search", who |-> who, sec |-> s], Other}

ScrapeInv ==
  /\ got = [s \in Section |-> got[s]]
  /\ pc = "me" => (\A s \in Section : got[s] = None) /\ listed = <<>>
  /\ pc = "scrape" /\ nav # "idle" => goal = Profile(who, Head(queue))
  /\ pc = "expand" /\ nav # "idle" =>
       goal = [kind |-> "search", who |-> who, sec |-> Head(queue)]
  /\ pc = "loaded" => nav = "arrived" /\ (~missed => page = Profile(who, Main))
  /\ Filed

\* The same of a listing: its pages are read in turn, and text, route and ids
\* are of one page unless a load came late.
ListInv ==
  /\ most \in 0..Len(Order)
  /\ listed \in Seq(Range(listed)) /\ ids \in Seq(Job) /\ IsInjective(ids)
  /\ pc = "list" /\ nav # "idle" => goal = ListPage(who, Len(listed) + 1)
  /\ pc \in {"total", "ids"} /\ ~missed =>
       text \in {ListPage(who, Len(listed) + 1), Other} /\ page = text
  /\ ~missed =>
       /\ \A n \in 1..Len(listed) : listed[n] \in {ListPage(who, n), Other}
       /\ Range(ids) \subseteq UNION {Range(JobsOf(listed[n])) : n \in 1..Len(listed)}

\* The name is read from the profile asked for, or not at all.
RowsInv ==
  /\ pc = "named" => goal = Profile(who, Main)
  /\ ByName /\ ~missed =>
       name \in {None, NameOf[who]} /\ \A r \in clicked : NameOf[r.who] = NameOf[who]

\* A thread with a member of the name that was read.
Own(t) == t \in Threads /\ NameOf[t.who] = name

\* By name the app shows the thread it had open or one of that name, and a row is
\* taken for the former only before the app has answered a click.
ThreadInv ==
  /\ pc = "named" => refs = <<>>
  /\ pc \in {"rows", "click"} /\ ByName => open = opened \/ Own(open)
  /\ pc \in {"rows", "click"} /\ ByName => coming = None \/ Own(coming)
  /\ pc = "click" =>
       /\ rows # <<>> /\ Wanted(Head(rows))
       /\ coming = None => open = Head(rows)
       /\ coming # None => coming = Head(rows)
  /\ ByName => \A i \in DOMAIN refs :
       Own(refs[i].thread) \/ (slow /\ refs[i].thread = opened)
  /\ pc = "thread" /\ ~missed =>
       NameOf[goal.who] = NameOf[who] \/ (slow /\ goal = opened)
  /\ ConversationAsked

\* The rounds since the last post are at least the stale ones; the current round
\* is not yet judged, and a post that came in it will be found.
FeedInv ==
  /\ {captured, reading, stuck, count, scrolls, ticks, lately} \subseteq Nat
  /\ stale \in 0..MaxStale
  /\ pc \in {"feed", "wheel", "tick"} => stale < MaxStale
  /\ pc = "feed" => scrolls = 0 /\ stale = 0 /\ lately = 0
  /\ pc \in {"wheel", "posts"} =>
       /\ lately <= scrolls + 1 /\ lately \notin scrolls - stale + 1..scrolls
       /\ lately = scrolls + 1 => captured + reading > count
  /\ pc = "tick" =>
       /\ lately <= scrolls /\ lately \notin scrolls - stale..scrolls - 1
       /\ lately = scrolls => captured + reading > count
       /\ captured >= count
  /\ pc \in {"wheel", "posts"} => captured >= count
  /\ StaleMeansQuiet

Base == PageInv /\ NavInv /\ CallInv
IInv == Base /\ ScrapeInv /\ ListInv /\ RowsInv /\ FeedInv

\* A sequence of anything, and one element more.
LEMMA Appended ==
  ASSUME NEW s, s \in Seq(Range(s)), NEW x
  PROVE  LET t == Append(s, x) IN
         /\ t \in Seq(Range(t)) /\ Len(t) = Len(s) + 1 /\ DOMAIN t = 1..Len(t)
         /\ \A i \in DOMAIN s : t[i] = s[i]
         /\ t[Len(s) + 1] = x
         /\ \A i \in DOMAIN t : i = Len(s) + 1 \/ i \in DOMAIN s
<1> DEFINE t == Append(s, x)
<1>1. s \in Seq(Range(s) \union {x})
  OBVIOUS
<1>2. /\ t \in Seq(Range(s) \union {x}) /\ Len(t) = Len(s) + 1 /\ Len(s) \in Nat
      /\ DOMAIN t = 1..Len(t) /\ DOMAIN s = 1..Len(s)
      /\ \A i \in DOMAIN s : t[i] = s[i]
      /\ t[Len(s) + 1] = x
  BY <1>1
<1> HIDE DEF t
<1>3. \A i \in 1..Len(t) : t[i] \in Range(t)
  BY <1>2 DEF Range
<1>4. t \in Seq(Range(t))
  BY <1>2, <1>3
<1>5. QED
  BY <1>2, <1>4 DEF t
-----------------------------------------------------------------------------
(***************************************************************************)
(* Pages, navigations and calls.                                           *)
(***************************************************************************)

LEMMA NavStart == NavInv /\ Start => NavInv'
BY PageAssumption
   DEF Start, StartScrape, StartLists, StartMessaging, StartFeeds, NavInv,
       StartCompany, StartOnePage, CompanyEmployees, ScrapeJob, SearchCompanies, Refused,
       SearchPeople, SearchPosts, StartMe, StartSidebar, StartPerson, Scrape, Begin, Goto, Stays,
       StartList, StartInbox, StartSearch, StartThread, StartConversation, StartFeed,
       NoScrape, NoList, NoConversation, NoFeed, pageVars, navVars

LEMMA NavNavigating == NavInv /\ Navigating => NavInv'
<1> SUFFICES ASSUME NavInv, Navigating PROVE NavInv'
  OBVIOUS
<1>0. /\ missed' = (missed \/ LeftOld \/ late' # late)
      /\ pc' = pc /\ Navigates({})
  BY DEF Navigating, callVars
<1> USE <1>0 DEF NavInv
<1>1. CASE Lands({})
  BY <1>1 DEF Lands, Load
<1>2. CASE Deadline({})
  BY <1>2 DEF Deadline, Load, Stays
<1>3. CASE DeadlineAgain({})
  BY <1>3 DEF DeadlineAgain, Load, Stays, LeftOld
<1>4. CASE GotoFails({})
  BY <1>4 DEF GotoFails
<1>5. CASE BarrierCheck
  <2>1. Wall.kind = "wall"
    BY DEF Wall, Plain
  <2>2. nav = "landed" /\ goal' = goal /\ page' = page /\ late' = late
    BY <1>5 DEF BarrierCheck, pageVars
  <2>3. nav' \in {"refused", "arrived"} /\ (nav' = "arrived" => page # Wall)
    BY <1>5, <2>1 DEF BarrierCheck
  <2>4. QED
    BY <2>2, <2>3
<1>6. CASE LateLoad({})
  BY <1>6 DEF LateLoad, navVars
<1>7. QED
  BY <1>1, <1>2, <1>3, <1>4, <1>5, <1>6 DEF Navigates

LEMMA NavScrapes == NavInv /\ Scrapes /\ UNCHANGED missed => NavInv'
BY DEF Scrapes, ReadSection, TextRead, ChromeOnly, SectionLost, ScrapeEnds, Throttled, Raises,
       Cancel, Answer, Goto, Stays, End, ClosesModal, NavInv, callVars, navVars, pageVars

LEMMA NavOnePage == NavInv /\ OnePage /\ UNCHANGED missed => NavInv'
<1>1. NavInv /\ MeResolved /\ UNCHANGED missed => NavInv'
  BY DEF MeResolved, NavInv, pageVars
<1>2. NavInv /\ (SidebarNext \/ SidebarEnds) /\ UNCHANGED missed => NavInv'
  BY DEF SidebarNext, SidebarEnds, Goto, Stays, End, NavInv, callVars, pageVars
<1>3. LoadedRead \/ SidebarRead \/ SidebarSkips \/ SidebarExpanded =>
        nav' = "idle"
  BY DEF LoadedRead, SidebarRead, SidebarSkips, SidebarExpanded
<1>4. QED
  BY <1>1, <1>2, <1>3 DEF OnePage, NavInv

LEMMA NavLists == NavInv /\ Lists /\ UNCHANGED missed => NavInv'
BY DEF Lists, ListNavigates, ListEnds, ListTextRead, ListChromeOnly, ListTextMissing, Routed,
       OffRoute, IdsRead, NothingNew, IdsFail, ListArrived,
       Goto, Stays, End, ClosesModal, NavInv, callVars, navVars, pageVars

LEMMA NavConverses == NavInv /\ Converses /\ UNCHANGED missed => NavInv'
BY DEF Converses, NameFound, NameMissing, Painted, Unpainted, RawStream, Labels, Click, RowSkipped,
       Opens, Captured, Takes, RowsLost, RowsAnswered, Falls, NotFound, OpensThread, ConversationRead,
       Goto, Stays, Steps, Ends, End, ClosesModal, NavInv, callVars, navVars, pageVars

LEMMA NavFeeds == NavInv /\ Feeds /\ UNCHANGED missed => NavInv'
BY DEF Feeds, Arrives, ReadEnds, FeedShown, Wheel, Tick, FeedRead, FeedFails, Round, FeedSteps,
       Looping, End, ClosesModal, NavInv, callVars, navVars, pageVars

LEMMA NavStep == NavInv /\ [Next]_vars => NavInv'
<1>1. UNCHANGED vars => UNCHANGED <<missed, pc, navVars, pageVars>>
  BY DEF vars, callVars
<1>2. NavInv /\ UNCHANGED vars => NavInv'
  BY <1>1 DEF NavInv, navVars, pageVars
<1>3. QED
  BY <1>2, NavStart, NavNavigating, NavScrapes, NavOnePage, NavLists, NavConverses, NavFeeds
     DEF Next, Reading

LEMMA CallStart == CallInv /\ Start => CallInv'
<1> USE ConversationAssumption, ReadsAssumption
    DEF CallInv, Named, ByName, Begin, NoScrape, callVars
<1>2. StartScrape => CallInv'
  BY DEF StartScrape, StartCompany, StartOnePage, CompanyEmployees, ScrapeJob, SearchCompanies,
         Refused, SearchPeople, SearchPosts, StartMe, StartSidebar, StartPerson, Scrape
<1>3. StartLists => CallInv'
  BY DEF StartLists, StartList
<1>4. \A t \in Threads : t.who \in Person
  BY DEF Threads, Thread
<1>5. StartMessaging => CallInv'
  BY <1>4 DEF StartMessaging, StartInbox, StartSearch, StartThread, StartConversation
<1>6. StartFeeds => CallInv'
  BY DEF StartFeeds, StartFeed
<1>7. QED
  BY <1>2, <1>3, <1>5, <1>6 DEF Start

LEMMA CallReads == CallInv /\ PageInv /\ Reading => CallInv'
<1> SUFFICES ASSUME CallInv, PageInv, Reading PROVE CallInv'
  OBVIOUS
<1> USE DEF CallInv, Named, ByName, callVars, scrapeVars, End
<1>1. CASE Scrapes /\ UNCHANGED rows
  BY <1>1 DEF Scrapes, ReadSection, TextRead, ChromeOnly, SectionLost, ScrapeEnds, Throttled,
       Raises, Cancel, Answer
<1>2. CASE OnePage
  <2>1. CASE MeResolved
    <3>1. who' \in Person
      BY <2>1, ReadsAssumption DEF MeResolved, NameInUrl, PageInv, Sound
    <3>2. QED
      BY <2>1, <3>1 DEF MeResolved
  <2>2. QED
    BY <1>2, <2>1 DEF OnePage, LoadedRead, SidebarRead, SidebarNext, SidebarSkips,
       SidebarExpanded, SidebarEnds
<1>3. CASE Lists
  BY <1>3 DEF Lists, ListNavigates, ListEnds, ListTextRead, ListChromeOnly, ListTextMissing, Routed,
       OffRoute, IdsRead, NothingNew, IdsFail, ListArrived
<1>4. CASE Converses
  BY <1>4 DEF Converses, NameFound, NameMissing, Painted, Unpainted, RawStream, Labels, Click,
       RowSkipped, Opens, Captured, Takes, RowsLost, RowsAnswered, Falls, NotFound, OpensThread,
       ConversationRead, Steps, Ends
<1>5. CASE Feeds
  BY <1>5 DEF Feeds, Arrives, ReadEnds, FeedShown, Wheel, Tick, FeedRead, FeedFails, Round, FeedSteps,
       Looping
<1>6. QED
  BY <1>1, <1>2, <1>3, <1>4, <1>5 DEF Reading, convVars

LEMMA CallStep == CallInv /\ PageInv /\ [Next]_vars => CallInv'
<1>1. UNCHANGED vars \/ Navigating => UNCHANGED <<callVars, scrapeVars, rows>>
  BY DEF vars, Navigating, convVars
<1>2. CallInv /\ UNCHANGED <<callVars, scrapeVars, rows>> => CallInv'
  BY DEF CallInv, ByName, callVars, scrapeVars
<1>3. QED
  BY <1>1, <1>2, CallStart, CallReads DEF Next

\* The pages that are asked for.
LEMMA SoundPages ==
  /\ Sound(Other) /\ Sound(Wall) /\ Sound(Plain("inbox")) /\ Sound(Plain("feed"))
  /\ \A p \in Person : /\ Sound(About("search", p))
                       /\ \A s : /\ Sound(Profile(p, s))
                                 /\ Sound([kind |-> "search", who |-> p, sec |-> s])
  /\ \A t \in Threads : Sound(t)
BY DEF Sound, Other, Wall, Plain, About, Profile, Threads, Thread

LEMMA SoundListing ==
  ASSUME ListInv, who \in Person, PageAhead
  PROVE  Sound(ListPage(who, Len(listed) + 1))
<1>1. Order \in Seq(Section) /\ most \in 0..Len(Order) /\ Len(listed) \in Nat
  BY OrderAssumption DEF ListInv
<1>2. Len(listed) + 1 \in 1..Len(Order)
  BY <1>1 DEF PageAhead
<1>3. Order[Len(listed) + 1] \in Section
  BY <1>1, <1>2
<1>4. QED
  BY <1>3 DEF Sound, ListPage

\* What a step must keep of the pages that the messaging app and the rows name.
Messaging == UNCHANGED <<rows, open, coming, refs, index>>

LEMMA KeepsPages ==
  ASSUME PageInv, Messaging, Sound(page'), Sound(goal'), late' # None => Sound(late')
  PROVE  PageInv'
BY DEF PageInv, Messaging, Sound

LEMMA PageStart == PageInv /\ Start => PageInv'
<1> SUFFICES ASSUME PageInv, Start PROVE PageInv'
  OBVIOUS
<1>1. /\ page' = page
      /\ late' # None => late' = late
      /\ Sound(goal')
  <2> USE SoundPages, ReadsAssumption, ConversationAssumption
      DEF PageInv, Goto, Stays, pageVars, navVars
  <2>1. CASE StartScrape
    BY <2>1 DEF StartScrape, StartCompany, StartOnePage, CompanyEmployees, ScrapeJob, SearchCompanies,
         Refused, SearchPeople, SearchPosts, StartMe, StartSidebar, StartPerson, Begin
  <2>2. CASE StartLists
    BY <2>2 DEF StartLists, StartList
  <2>3. CASE StartMessaging
    BY <2>3 DEF StartMessaging, StartInbox, StartSearch, StartThread, StartConversation
  <2>4. CASE StartFeeds
    BY <2>4 DEF StartFeeds, StartFeed
  <2>5. QED
    BY <2>1, <2>2, <2>3, <2>4 DEF Start
<1>2. rows' = <<>> /\ open' = None /\ coming' = None /\ refs' = <<>> /\ index' \in Nat
  BY DEF Start, StartScrape, StartLists, StartMessaging, StartFeeds, NoConversation,
         StartInbox, StartSearch, StartThread, StartConversation
<1>3. Sound(page') /\ (late' # None => Sound(late'))
  BY <1>1 DEF PageInv, Sound
<1>4. refs' \in Seq(Range(refs')) /\ rows' \in Seq(Threads) /\ DOMAIN refs' = {}
  BY <1>2
<1>5. QED
  BY <1>1, <1>2, <1>3, <1>4 DEF PageInv, Sound

LEMMA PageNavigating == PageInv /\ Navigating => PageInv'
<1> SUFFICES ASSUME PageInv, Navigating PROVE PageInv'
  OBVIOUS
<1>1. page' \in {page, goal, late, Other, Wall}
  BY DEF Navigating, Navigates, Lands, Deadline, DeadlineAgain, GotoFails, BarrierCheck, LateLoad,
         Load, Stays, pageVars
<1>2. page' = late => late # None \/ page' \in {page, goal, Other, Wall}
  BY DEF Navigating, Navigates, Lands, Deadline, DeadlineAgain, GotoFails, BarrierCheck, LateLoad,
         Load, Stays, pageVars
<1>3. goal' = goal /\ late' \in {None, late, goal} /\ Messaging
  BY DEF Navigating, Navigates, Lands, Deadline, DeadlineAgain, GotoFails, BarrierCheck, LateLoad,
         navVars, pageVars, Messaging, convVars
<1>4. Sound(page')
  BY <1>1, <1>2, SoundPages DEF PageInv
<1>5. Sound(goal') /\ (late' # None => Sound(late'))
  BY <1>3 DEF PageInv, Sound
<1>6. QED
  BY <1>3, <1>4, <1>5, KeepsPages

\* A step of a call keeps the page or shows the open thread, and asks for pages
\* that exist.
LEMMA PageConverses == PageInv /\ CallInv /\ Converses => PageInv'
<1> SUFFICES ASSUME PageInv, CallInv, Converses PROVE PageInv'
  OBVIOUS
<1>0. /\ Sound(page) /\ Sound(goal)
      /\ late # None => Sound(late)
      /\ open # None => Sound(open)
      /\ coming # None => Sound(coming)
      /\ rows \in Seq(Threads)
      /\ refs \in Seq(Range(refs)) /\ \A i \in DOMAIN refs : Sound(refs[i].thread)
      /\ index \in Nat
      /\ who \in Person \union {None} /\ (ByName => who \in Person)
  BY DEF PageInv, CallInv
<1>1. CASE NameFound \/ NameMissing
  BY <1>0, <1>1, SoundPages, KeepsPages
     DEF NameFound, NameMissing, Goto, Stays, Ends, End, Messaging, convVars
<1>2. CASE Painted \/ Unpainted \/ RawStream \/ RowsAnswered \/ NotFound \/ ConversationRead
  BY <1>0, <1>2, KeepsPages
     DEF Painted, Unpainted, RawStream, RowsAnswered, NotFound, ConversationRead,
         Ends, End, ClosesModal, Messaging, pageVars, convVars
<1>3. CASE Labels
  <2>1. PICK s \in Sidebar : /\ rows' = s
                             /\ open' \in IF page.kind = "thread" THEN {page}
                                  ELSE {None} \union (IF s = <<>> THEN {} ELSE {Head(s)})
    BY <1>3 DEF Labels
  <2>2. s \in Seq(Threads)
    <3>1. \A k \in 0..Len(Inbox) : SubSeq(Inbox, 1, k) \in Seq(Threads)
      BY ConversationAssumption
    <3>2. page.kind = "search" => Found[page.who] \in Seq(Threads)
      BY <1>0, ConversationAssumption DEF Sound
    <3>3. CASE page.kind \in {"inbox", "thread"}
      BY <2>1, <3>1, <3>3 DEF Sidebar
    <3>4. CASE page.kind \notin {"inbox", "thread"}
      <4>1. s = <<>> \/ (page.kind = "search" /\ s = Found[page.who])
        BY <2>1, <3>4 DEF Sidebar
      <4>2. CASE s = <<>>
        BY <4>2
      <4>3. QED
        BY <3>2, <4>1, <4>2
    <3>5. QED
      BY <3>3, <3>4
  <2>3. s # <<>> => Head(s) \in Threads
    BY <2>2
  <2>4. open' # None => Sound(open')
    BY <1>0, <2>1, <2>3, SoundPages
  <2>5. /\ page' = page /\ goal' = goal /\ late' = late /\ index' = index
        /\ refs' = <<>> /\ coming' = None
    BY <1>3 DEF Labels, pageVars, navVars
  <2>6. refs' \in Seq(Range(refs')) /\ DOMAIN refs' = {}
    BY <2>5
  <2>7. QED
    BY <1>0, <2>1, <2>2, <2>4, <2>5, <2>6 DEF PageInv, Sound
<1>4. CASE Click
  <2>1. Head(rows) \in Threads
    BY <1>0, <1>4 DEF Click
  <2>2. Sound(coming')
    BY <1>4, <2>1, SoundPages DEF Click, Sound
  <2>3. /\ page' = page /\ goal' = goal /\ late' = late /\ index' = index
        /\ refs' = refs /\ rows' = rows /\ open' = open
    BY <1>4 DEF Click, pageVars, navVars
  <2>4. QED
    BY <1>0, <2>2, <2>3 DEF PageInv, Sound
<1>5. CASE RowSkipped
  <2>1. rows' \in Seq(Threads)
    BY <1>0, <1>5 DEF RowSkipped
  <2>2. QED
    BY <1>0, <1>5, <2>1 DEF RowSkipped, pageVars, navVars, PageInv, Sound
<1>6. CASE Opens
  BY <1>0, <1>6 DEF Opens, pageVars, navVars, PageInv, Sound
<1>7. CASE Captured
  <2>1. PICK ref : ref = [row |-> Head(rows), thread |-> open]
    OBVIOUS
  <2>2. refs' = IF open = None THEN refs ELSE Append(refs, ref)
    BY <1>7, <2>1 DEF Captured, Takes
  <2>3. refs' \in Seq(Range(refs')) /\ \A i \in DOMAIN refs' : Sound(refs'[i].thread)
    <3>1. CASE open = None
      BY <1>0, <2>2, <3>1
    <3>2. CASE open # None
      <4>1. refs' = Append(refs, ref) /\ Sound(ref.thread)
        BY <1>0, <2>1, <2>2, <3>2
      <4>2. QED
        BY <1>0, <4>1, Appended
    <3>3. QED
      BY <3>1, <3>2
  <2>4. Tail(rows) \in Seq(Threads)
    BY <1>0, <1>7 DEF Captured, Takes, Steps, CallInv
  <2>5. /\ page' = page /\ goal' = goal /\ late' = late /\ index' = index
        /\ coming' = coming /\ rows' = Tail(rows) /\ open' = open
    BY <1>7 DEF Captured, Takes, Steps, pageVars, navVars
  <2>6. QED
    BY <1>0, <2>3, <2>4, <2>5 DEF PageInv, Sound
<1>8. CASE RowsLost
  BY <1>0, <1>8, KeepsPages DEF RowsLost, Load, End, Messaging, convVars
<1>9. CASE Falls
  BY <1>0, <1>9, SoundPages, KeepsPages DEF Falls, Messaging, convVars
<1>10. CASE OpensThread
  <2>1. Sound(refs[index + 1].thread)
    <3>1. index + 1 \in DOMAIN refs
      BY <1>0, <1>10 DEF OpensThread
    <3>2. QED
      BY <1>0, <3>1
  <2>2. QED
    BY <1>0, <1>10, <2>1, KeepsPages DEF OpensThread, Messaging, convVars, Sound
<1>11. QED
  BY <1>1, <1>2, <1>3, <1>4, <1>5, <1>6, <1>7, <1>8, <1>9, <1>10 DEF Converses

LEMMA PageReads == PageInv /\ CallInv /\ ListInv /\ Reading => PageInv'
<1> SUFFICES ASSUME PageInv, CallInv, ListInv, Reading PROVE PageInv'
  OBVIOUS
<1>0. /\ Sound(page) /\ Sound(goal)
      /\ late # None => Sound(late)
      /\ pc \in Named => who \in Person
  BY DEF PageInv, CallInv
<1>1. CASE Scrapes /\ UNCHANGED convVars
  BY <1>0, <1>1, SoundPages, KeepsPages
     DEF Scrapes, ReadSection, TextRead, ChromeOnly, SectionLost, ScrapeEnds, Throttled, Raises,
         Cancel, Answer, Goto, Stays, End, ClosesModal, Messaging, Named,
         convVars, navVars, pageVars
<1>2. CASE OnePage /\ UNCHANGED convVars
  BY <1>0, <1>2, SoundPages, KeepsPages
     DEF OnePage, MeResolved, LoadedRead, SidebarRead, SidebarNext, SidebarSkips, SidebarExpanded,
         SidebarEnds, Goto, Stays, End, ClosesModal, Messaging, Named,
         convVars, navVars, pageVars
<1>3. CASE Lists /\ UNCHANGED convVars
  <2>1. CASE ListNavigates
    BY <1>0, <1>3, <2>1, SoundListing, KeepsPages
       DEF ListNavigates, Goto, Stays, Messaging, Named, convVars
  <2>2. CASE ~ ListNavigates
    <3>1. page' = page /\ late' = late /\ goal' = goal
      BY <1>3, <2>2
         DEF Lists, ListEnds, ListTextRead, ListChromeOnly, ListTextMissing, Routed, OffRoute,
             IdsRead, NothingNew, IdsFail, End, ClosesModal, navVars, pageVars
    <3>2. QED
      BY <1>0, <1>3, <3>1, KeepsPages DEF Messaging, convVars
  <2>3. QED
    BY <2>1, <2>2
<1>4. CASE Converses
  BY <1>4, PageConverses
<1>5. CASE Feeds /\ UNCHANGED convVars
  <2>1. page' = page /\ late' = late /\ goal' = goal
    BY <1>5
       DEF Feeds, Arrives, ReadEnds, FeedShown, Wheel, Tick, FeedRead, FeedFails,
           End, ClosesModal, navVars, pageVars
  <2>2. QED
    BY <1>0, <1>5, <2>1, KeepsPages DEF Messaging, convVars
<1>6. QED
  BY <1>1, <1>2, <1>3, <1>4, <1>5 DEF Reading

LEMMA PageStep == PageInv /\ CallInv /\ ListInv /\ [Next]_vars => PageInv'
<1>1. PageInv /\ UNCHANGED vars => PageInv'
  BY KeepsPages DEF vars, pageVars, navVars, convVars, Messaging, PageInv, Sound
<1>2. QED
  BY <1>1, PageStart, PageNavigating, PageReads DEF Next

-----------------------------------------------------------------------------
(***************************************************************************)
(* The feed.                                                               *)
(***************************************************************************)

Scrolling == {"feed", "wheel", "tick", "posts"}

\* A step of another tool leaves the counts alone, and no scrolling begins.
LEMMA FeedQuiet ==
  ASSUME FeedInv, UNCHANGED feedVars, pc' \notin Scrolling \/ pc' = pc
  PROVE  FeedInv'
<1>1. StaleMeansQuiet'
  BY DEF FeedInv, StaleMeansQuiet, feedVars
<1>2. QED
  BY <1>1 DEF FeedInv, feedVars, Scrolling

LEMMA FeedStart == Start => FeedInv'
<1> SUFFICES ASSUME Start PROVE FeedInv'
  OBVIOUS
<1>1. /\ captured' = 0 /\ reading' = 0 /\ stuck' = 0 /\ count' = 0
      /\ scrolls' = 0 /\ ticks' = 0 /\ stale' = 0 /\ lately' = 0
  BY DEF Start, StartScrape, StartLists, StartMessaging, StartFeeds, StartFeed, NoFeed
<1>2. pc' \notin {"wheel", "tick", "posts"}
  BY DEF Start, StartScrape, StartLists, StartMessaging, StartFeeds, StartCompany, StartOnePage,
         CompanyEmployees, ScrapeJob, SearchCompanies, Refused, SearchPeople, SearchPosts, StartMe,
         StartSidebar, StartPerson, Scrape, StartList, StartInbox, StartSearch, StartThread,
         StartConversation, StartFeed
<1>3. MaxStale \in Nat /\ MaxStale > 0
  BY FeedAssumption
<1>4. QED
  BY <1>1, <1>2, <1>3 DEF FeedInv, StaleMeansQuiet

\* A round that begins is not stale yet; one that ends is, or starts anew.
LEMMA FeedTick == FeedInv /\ Tick => FeedInv'
<1> SUFFICES ASSUME FeedInv, Tick PROVE FeedInv'
  OBVIOUS
<1>0. /\ captured \in Nat /\ reading \in Nat /\ stuck \in Nat /\ count \in Nat
      /\ scrolls \in Nat /\ ticks \in Nat /\ lately \in Nat
      /\ stale \in 0..MaxStale /\ stale < MaxStale
      /\ MaxStale \in Nat /\ MaxStale > 0
  BY FeedAssumption DEF FeedInv, Tick
<1>1. /\ lately <= scrolls /\ lately \notin scrolls - stale..scrolls - 1
      /\ lately = scrolls => captured + reading > count
      /\ captured >= count
  BY DEF FeedInv, Tick
<1>2. /\ captured' = captured + reading /\ reading' = 0 /\ ticks' = ticks + 1
      /\ scrolls' = scrolls /\ lately' = lately /\ stuck' = stuck
  BY DEF Tick, Drain
<1>3. CASE captured' > count /\ stale' = 0 /\ Round(scrolls)
  <2>1. count' = captured' /\ pc' \in {"posts", "wheel"}
    BY <1>3 DEF Round, FeedSteps
  <2>2. QED
    BY <1>0, <1>1, <1>2, <1>3, <2>1 DEF FeedInv, StaleMeansQuiet
<1>4. CASE captured' = count /\ stale' = stale + 1 /\ Round(scrolls)
  <2>1. count' = captured' /\ pc' \in {"posts", "wheel"} /\ (pc' = "wheel" => stale' # MaxStale)
    BY <1>4 DEF Round, FeedSteps
  <2>2. lately # scrolls
    BY <1>0, <1>1, <1>2, <1>4
  <2>3. lately \notin scrolls - stale..scrolls
    BY <1>0, <1>1, <2>2
  <2>4. scrolls - stale' + 1 = scrolls - stale
    BY <1>0, <1>4
  <2>5. StaleMeansQuiet'
    BY <1>2, <2>3, <2>4 DEF StaleMeansQuiet
  <2>6. QED
    BY <1>0, <1>1, <1>2, <1>4, <2>1, <2>2, <2>3, <2>4, <2>5 DEF FeedInv
<1>5. CASE captured' = count /\ FeedSteps("tick") /\ UNCHANGED <<count, stale>>
  <2>1. StaleMeansQuiet'
    BY <1>0, <1>5 DEF StaleMeansQuiet
  <2>2. QED
    BY <1>0, <1>1, <1>2, <1>5, <2>1 DEF FeedInv, FeedSteps
<1>6. QED
  BY <1>3, <1>4, <1>5 DEF Tick

LEMMA FeedFeeds == FeedInv /\ Feeds => FeedInv'
<1> SUFFICES ASSUME FeedInv, Feeds PROVE FeedInv'
  OBVIOUS
<1>0. /\ captured \in Nat /\ reading \in Nat /\ stuck \in Nat /\ count \in Nat
      /\ scrolls \in Nat /\ ticks \in Nat /\ lately \in Nat
      /\ stale \in 0..MaxStale /\ MaxStale \in Nat /\ MaxStale > 0
  BY FeedAssumption DEF FeedInv
<1>1. CASE Arrives
  <2>1. StaleMeansQuiet'
    BY <1>0, <1>1 DEF Arrives, Looping, FeedInv, StaleMeansQuiet
  <2>2. QED
    BY <1>0, <1>1, <2>1 DEF Arrives, Looping, FeedInv, callVars
<1>2. CASE ReadEnds
  <2>1. StaleMeansQuiet'
    BY <1>2 DEF ReadEnds, FeedInv, StaleMeansQuiet
  <2>2. /\ pc' = pc /\ scrolls' = scrolls /\ ticks' = ticks /\ count' = count
        /\ stale' = stale /\ lately' = lately /\ captured' = captured + 1
    BY <1>2 DEF ReadEnds, callVars
  <2>3. CASE reading > 0 /\ reading' = reading - 1 /\ stuck' = stuck
    BY <1>0, <2>1, <2>2, <2>3 DEF FeedInv
  <2>4. CASE stuck > 0 /\ stuck' = stuck - 1 /\ reading' = reading
    BY <1>0, <2>1, <2>2, <2>4 DEF FeedInv
  <2>5. QED
    BY <1>2, <2>3, <2>4 DEF ReadEnds
<1>3. CASE FeedShown
  <2>1. /\ count' = captured' /\ captured' = captured /\ reading' = reading /\ stuck' = stuck
        /\ scrolls' = scrolls /\ ticks' = ticks /\ stale' = stale /\ lately' = lately
        /\ pc' \in {"posts", "wheel"} /\ pc = "feed"
    BY <1>3 DEF FeedShown, Round, FeedSteps
  <2>2. scrolls = 0 /\ stale = 0 /\ lately = 0
    BY <2>1 DEF FeedInv
  <2>3. QED
    BY <1>0, <2>1, <2>2 DEF FeedInv, StaleMeansQuiet
<1>4. CASE Wheel
  <2>1. StaleMeansQuiet'
    BY <1>0, <1>4 DEF Wheel, FeedInv, StaleMeansQuiet
  <2>2. QED
    BY <1>0, <1>4, <2>1 DEF Wheel, FeedSteps, FeedInv
<1>5. CASE Tick
  BY <1>5, FeedTick
<1>6. CASE FeedRead \/ FeedFails
  <2>1. StaleMeansQuiet'
    BY <1>6 DEF FeedRead, FeedFails, FeedInv, StaleMeansQuiet
  <2>2. captured' \in Nat
    BY <1>0, <1>6 DEF FeedRead, FeedFails
  <2>3. QED
    BY <1>0, <1>6, <2>1, <2>2 DEF FeedRead, FeedFails, End, FeedInv
<1>7. QED
  BY <1>1, <1>2, <1>3, <1>4, <1>5, <1>6 DEF Feeds

LEMMA FeedStep == FeedInv /\ CallInv /\ [Next]_vars => FeedInv'
<1> SUFFICES ASSUME FeedInv, CallInv, [Next]_vars PROVE FeedInv'
  OBVIOUS
<1> USE DEF Scrolling
<1>1. CASE Start
  BY <1>1, FeedStart
<1>2. CASE Navigating \/ UNCHANGED vars
  BY <1>2, FeedQuiet DEF Navigating, vars, callVars
<1>3. CASE Scrapes /\ UNCHANGED feedVars
  BY <1>3, FeedQuiet DEF Scrapes, ReadSection, TextRead, ChromeOnly, SectionLost, ScrapeEnds,
     Throttled, Raises, Cancel, Answer, End, callVars, CallInv
<1>4. CASE OnePage /\ UNCHANGED feedVars
  BY <1>4, FeedQuiet DEF OnePage, MeResolved, LoadedRead, SidebarRead, SidebarNext, SidebarSkips,
     SidebarExpanded, SidebarEnds, End, callVars
<1>5. CASE Lists /\ UNCHANGED feedVars
  BY <1>5, FeedQuiet DEF Lists, ListNavigates, ListEnds, ListTextRead, ListChromeOnly,
     ListTextMissing, Routed, OffRoute, IdsRead, NothingNew, IdsFail, End, callVars
<1>6. CASE Converses /\ UNCHANGED feedVars
  BY <1>6, FeedQuiet DEF Converses, NameFound, NameMissing, Painted, Unpainted, RawStream, Labels,
     Click, RowSkipped, Opens, Captured, Takes, RowsLost, RowsAnswered, Falls, NotFound, OpensThread,
     ConversationRead, Steps, Ends, End, callVars
<1>7. CASE Feeds
  BY <1>7, FeedFeeds
<1>8. QED
  BY <1>1, <1>2, <1>3, <1>4, <1>5, <1>6, <1>7 DEF Next, Reading

-----------------------------------------------------------------------------
(***************************************************************************)
(* The sections of an answer.                                              *)
(***************************************************************************)

\* What may be filed under section s of p.
Filing(p, s) == {Profile(p, s), [kind |-> "search", who |-> p, sec |-> s], Other}

\* Filing one page more.
LEMMA FilesOne ==
  ASSUME ScrapeInv, NEW x, got' = [got EXCEPT ![x] = page], who' = who, missed' = missed,
         ~missed => page \in Filing(who, x)
  PROVE  got' = [s \in Section |-> got'[s]] /\ Filed'
<1>1. got = [s \in Section |-> got[s]]
  BY DEF ScrapeInv
<1>2. got' = [s \in Section |-> IF s = x THEN page ELSE got[s]]
  BY <1>1
<1>3. \A s \in Section : got'[s] = IF s = x THEN page ELSE got[s]
  BY <1>2
<1>4. got' = [s \in Section |-> got'[s]]
  BY <1>2, <1>3
<1>5. Filed'
  BY <1>3 DEF Filed, ScrapeInv, Filing
<1>6. QED
  BY <1>4, <1>5

\* A step that files nothing.
LEMMA FilesNone ==
  ASSUME ScrapeInv, UNCHANGED <<got, who, missed>>
  PROVE  got' = [s \in Section |-> got'[s]] /\ Filed'
BY DEF ScrapeInv, Filed

\* A step of another tool.
LEMMA ScrapeQuiet ==
  ASSUME ScrapeInv, UNCHANGED <<got, who, missed>>, pc' \notin {"me", "scrape", "expand", "loaded"}
  PROVE  ScrapeInv'
<1>1. got' = [s \in Section |-> got'[s]] /\ Filed'
  BY FilesNone
<1>2. QED
  BY <1>1 DEF ScrapeInv

LEMMA ScrapeStart == ScrapeInv /\ NavInv /\ Start => ScrapeInv'
<1> SUFFICES ASSUME ScrapeInv, NavInv, Start PROVE ScrapeInv'
  OBVIOUS
<1>1. got' = [s \in Section |-> None]
  BY DEF Start, StartScrape, StartLists, StartMessaging, StartFeeds, StartCompany, StartOnePage,
         CompanyEmployees, ScrapeJob, SearchCompanies, Refused, SearchPeople, SearchPosts, StartMe,
         StartSidebar, StartPerson, Scrape, NoScrape
<1>2. got' = [s \in Section |-> got'[s]] /\ Filed' /\ \A s \in Section : got'[s] = None
  BY <1>1 DEF Filed
<1>3. /\ pc' \notin {"expand", "loaded"}
      /\ pc' = "me" => listed' = <<>>
      /\ pc' = "scrape" => nav' = nav /\ pc = "idle"
  BY DEF Start, StartScrape, StartLists, StartMessaging, StartFeeds, StartCompany, StartOnePage,
         CompanyEmployees, ScrapeJob, SearchCompanies, Refused, SearchPeople, SearchPosts, StartMe,
         StartSidebar, StartPerson, Scrape, Begin, StartList, StartInbox, StartSearch, StartThread,
         StartConversation, StartFeed, NoList, navVars
<1>4. QED
  BY <1>2, <1>3 DEF ScrapeInv, NavInv

LEMMA ScrapeNavigating == ScrapeInv /\ NavInv /\ Navigating => ScrapeInv'
<1> SUFFICES ASSUME ScrapeInv, NavInv, Navigating PROVE ScrapeInv'
  OBVIOUS
<1>1. UNCHANGED <<pc, who, got, queue, listed, goal>> /\ (missed => missed')
  BY DEF Navigating, Navigates, Lands, Deadline, DeadlineAgain, GotoFails, BarrierCheck, LateLoad,
         callVars, scrapeVars, listVars, navVars
<1>2. nav = "idle" => nav' = "idle"
  BY DEF Navigating, Navigates, Lands, Deadline, DeadlineAgain, GotoFails, BarrierCheck, LateLoad,
         navVars
<1>3. nav = "arrived" => nav' = nav /\ late # None
  BY DEF Navigating, Navigates, Lands, Deadline, DeadlineAgain, GotoFails, BarrierCheck, LateLoad,
         navVars
<1>4. got' = [s \in Section |-> got'[s]] /\ Filed'
  BY <1>1 DEF ScrapeInv, Filed
<1>5. QED
  BY <1>1, <1>2, <1>3, <1>4 DEF ScrapeInv, NavInv

LEMMA ScrapeScrapes ==
  ScrapeInv /\ NavInv /\ CallInv /\ Scrapes /\ UNCHANGED <<missed, listed>> => ScrapeInv'
<1> SUFFICES ASSUME ScrapeInv, NavInv, CallInv, Scrapes, UNCHANGED <<missed, listed>>
             PROVE  ScrapeInv'
  OBVIOUS
<1>1. CASE ReadSection
  <2>1. got' = [s \in Section |-> got'[s]] /\ Filed'
    BY <1>1, FilesNone DEF ReadSection, callVars, scrapeVars
  <2>2. QED
    BY <1>1, <2>1 DEF ReadSection, Goto, callVars, scrapeVars, ScrapeInv
<1>2. CASE TextRead
  <2>1. pc = "scrape" /\ nav = "arrived" /\ pc' = pc /\ nav' = "idle" /\ who' = who
    BY <1>2 DEF TextRead, Arrived, callVars
  <2>2. ~missed => page \in Filing(who, Head(queue))
    BY <2>1 DEF ScrapeInv, NavInv, Filing
  <2>3. got' = [s \in Section |-> got'[s]] /\ Filed'
    BY <1>2, <2>1, <2>2, FilesOne DEF TextRead
  <2>4. QED
    BY <2>1, <2>3 DEF ScrapeInv
<1>3. CASE ChromeOnly \/ SectionLost \/ ScrapeEnds
  <2>1. got' = [s \in Section |-> got'[s]] /\ Filed'
    BY <1>3, FilesNone DEF ChromeOnly, SectionLost, ScrapeEnds, callVars, scrapeVars
  <2>2. QED
    BY <1>3, <2>1
       DEF ChromeOnly, SectionLost, ScrapeEnds, Arrived, callVars, navVars, ScrapeInv, CallInv
<1>4. CASE Throttled \/ Raises \/ Cancel \/ Answer
  BY <1>4, ScrapeQuiet DEF Throttled, Raises, Cancel, Answer, End, scrapeVars
<1>5. QED
  BY <1>1, <1>2, <1>3, <1>4 DEF Scrapes

LEMMA ScrapeOnePage ==
  ScrapeInv /\ NavInv /\ OnePage /\ UNCHANGED <<missed, listed>> => ScrapeInv'
<1> SUFFICES ASSUME ScrapeInv, NavInv, OnePage, UNCHANGED <<missed, listed>>
             PROVE  ScrapeInv'
  OBVIOUS
<1>1. CASE MeResolved
  <2>1. pc = "me" /\ got' = got /\ nav = "arrived" /\ page' = page /\ who' = NameInUrl
    BY <1>1 DEF MeResolved, scrapeVars, pageVars
  <2>2. got' = [s \in Section |-> got'[s]] /\ Filed'
    BY <2>1 DEF ScrapeInv, Filed
  <2>3. \/ pc' = "loaded" /\ nav' = nav /\ Loaded
        \/ pc' = "scrape" /\ nav' = "idle"
    BY <1>1 DEF MeResolved
  <2>4. QED
    BY <2>1, <2>2, <2>3 DEF ScrapeInv, Loaded
<1>2. CASE LoadedRead
  <2>1. pc = "loaded" /\ pc' = "scrape" /\ nav' = "idle" /\ who' = who
    BY <1>2 DEF LoadedRead
  <2>2. ~missed => page \in Filing(who, Main)
    BY <2>1 DEF ScrapeInv, Filing
  <2>3. got' = [s \in Section |-> got'[s]] /\ Filed'
    <3>1. CASE got' = [got EXCEPT ![Main] = page]
      BY <2>1, <2>2, <3>1, FilesOne
    <3>2. CASE got' = got
      BY <2>1, <3>2, FilesNone
    <3>3. QED
      BY <1>2, <3>1, <3>2 DEF LoadedRead
  <2>4. QED
    BY <2>1, <2>3 DEF ScrapeInv
<1>3. CASE SidebarRead \/ SidebarNext \/ SidebarSkips
  <2>1. got' = [s \in Section |-> got'[s]] /\ Filed'
    BY <1>3, FilesNone DEF SidebarRead, SidebarNext, SidebarSkips, callVars, scrapeVars
  <2>2. QED
    BY <1>3, <2>1
       DEF SidebarRead, SidebarNext, SidebarSkips, Goto, callVars, scrapeVars, ScrapeInv
<1>4. CASE SidebarExpanded
  <2>1. pc = "expand" /\ nav = "arrived" /\ pc' = pc /\ nav' = "idle" /\ who' = who
    BY <1>4 DEF SidebarExpanded, callVars
  <2>2. ~missed => page \in Filing(who, Head(queue))
    BY <2>1 DEF ScrapeInv, NavInv, Filing
  <2>3. got' = [s \in Section |-> got'[s]] /\ Filed'
    BY <1>4, <2>1, <2>2, FilesOne DEF SidebarExpanded
  <2>4. QED
    BY <2>1, <2>3 DEF ScrapeInv
<1>5. CASE SidebarEnds
  BY <1>5, ScrapeQuiet DEF SidebarEnds, End, scrapeVars
<1>6. QED
  BY <1>1, <1>2, <1>3, <1>4, <1>5 DEF OnePage

LEMMA ScrapeStep == ScrapeInv /\ NavInv /\ CallInv /\ [Next]_vars => ScrapeInv'
<1> SUFFICES ASSUME ScrapeInv, NavInv, CallInv, [Next]_vars PROVE ScrapeInv'
  OBVIOUS
<1>1. CASE UNCHANGED vars
  BY <1>1, FilesNone DEF vars, callVars, scrapeVars, pageVars, navVars, listVars, ScrapeInv
<1>2. CASE Lists /\ UNCHANGED missed
  BY <1>2, ScrapeQuiet DEF Lists, ListNavigates, ListEnds, ListTextRead, ListChromeOnly,
     ListTextMissing, Routed, OffRoute, IdsRead, NothingNew, IdsFail, ListArrived, End,
     callVars, scrapeVars
<1>3. CASE Converses /\ UNCHANGED missed
  BY <1>3, ScrapeQuiet DEF Converses, NameFound, NameMissing, Painted, Unpainted, RawStream, Labels,
     Click, RowSkipped, Opens, Captured, Takes, RowsLost, RowsAnswered, Falls, NotFound, OpensThread,
     ConversationRead, Steps, Ends, End, callVars, scrapeVars
<1>4. CASE Feeds /\ UNCHANGED missed
  BY <1>4, ScrapeQuiet DEF Feeds, Arrives, ReadEnds, FeedShown, Wheel, Tick, FeedRead, FeedFails,
     Round, FeedSteps, Looping, End, callVars, scrapeVars
<1>5. QED
  BY <1>1, <1>2, <1>3, <1>4, ScrapeStart, ScrapeNavigating, ScrapeScrapes, ScrapeOnePage
     DEF Next, Reading, listVars

-----------------------------------------------------------------------------
(***************************************************************************)
(* The pages and ids of a listing.                                         *)
(***************************************************************************)

\* The first elements of a page's ids are ids of the page, each once.
LEMMA ShownOf ==
  ASSUME NEW L \in Seq(Job), IsInjective(L), NEW s \in Shown(L)
  PROVE  /\ s \in Seq(Job) /\ Range(s) \subseteq Range(L)
         /\ \A k, l \in DOMAIN s : s[k] = s[l] => k = l
<1>1. PICK n \in 0..Len(L) : s = SubSeq(L, 1, n)
  BY DEF Shown
<1>2. /\ s \in Seq(Job) /\ Len(s) = n /\ DOMAIN s = 1..n /\ n <= Len(L)
      /\ \A i \in 1..n : s[i] = L[i]
  BY <1>1
<1>3. 1..n \subseteq DOMAIN L
  BY <1>2
<1>4. Range(s) \subseteq Range(L)
  BY <1>2, <1>3 DEF Range
<1>5. \A k, l \in DOMAIN s : s[k] = s[l] => k = l
  BY <1>2, <1>3 DEF IsInjective
<1>6. QED
  BY <1>2, <1>4, <1>5

\* The new ids are each new, and each one once.
LEMMA NewOnes ==
  ASSUME NEW L \in Seq(Job), IsInjective(L), NEW s \in Shown(L), NEW new \in NewIds(s)
  PROVE  /\ new \in Seq(Job) /\ Range(new) \subseteq Range(L) \ Range(ids)
         /\ \A i, j \in DOMAIN new : new[i] = new[j] => i = j
<1>1. /\ s \in Seq(Job) /\ Range(s) \subseteq Range(L)
      /\ \A k, l \in DOMAIN s : s[k] = s[l] => k = l
      /\ DOMAIN s = 1..Len(s) /\ Len(s) \in Nat
  BY ShownOf
<1>2. PICK m \in 0..Len(s) : new \in [1..m -> Fresh(s)]
  BY DEF NewIds, SeqOf
<1>3. Range(new) = Fresh(s) /\ KeepsOrder(new, s)
  BY DEF NewIds
<1>4. Fresh(s) \subseteq Job
  <2>1. \A k \in DOMAIN s : s[k] \in Job
    BY <1>1
  <2>2. QED
    BY <2>1 DEF Fresh, Range
<1>5. m \in Nat /\ new \in Seq(Job) /\ DOMAIN new = 1..m
  BY <1>1, <1>2, <1>4
<1>6. ASSUME NEW i \in DOMAIN new, NEW j \in DOMAIN new, i < j
      PROVE  new[i] # new[j]
  <2>1. PICK k \in DOMAIN s, l \in DOMAIN s : k < l /\ new[i] = s[k] /\ new[j] = s[l]
    BY <1>3, <1>6 DEF KeepsOrder
  <2>2. k # l
    BY <1>1, <2>1
  <2>3. QED
    BY <1>1, <2>1, <2>2
<1>7. \A i, j \in DOMAIN new : new[i] = new[j] => i = j
  <2>1. \A i, j \in DOMAIN new : i < j \/ j < i \/ i = j
    BY <1>5
  <2>2. QED
    BY <1>6, <2>1
<1>8. Range(new) \subseteq Range(L) \ Range(ids)
  BY <1>1, <1>3 DEF Fresh
<1>9. QED
  BY <1>5, <1>7, <1>8

\* The ids with the new ones behind them.
LEMMA MoreIds ==
  ASSUME NEW L \in Seq(Job), IsInjective(L), NEW s \in Shown(L), NEW new \in NewIds(s),
         ids \in Seq(Job), IsInjective(ids)
  PROVE  /\ ids \o new \in Seq(Job) /\ IsInjective(ids \o new)
         /\ Range(ids \o new) \subseteq Range(ids) \union Range(L)
<1> DEFINE all == ids \o new
           a == Len(ids)
           b == Len(new)
<1>1. /\ new \in Seq(Job) /\ Range(new) \subseteq Range(L) \ Range(ids)
      /\ \A i, j \in DOMAIN new : new[i] = new[j] => i = j
  BY NewOnes
<1>2. a \in Nat /\ b \in Nat /\ DOMAIN ids = 1..a /\ DOMAIN new = 1..b
  BY <1>1
<1>3. /\ all \in Seq(Job) /\ DOMAIN all = 1..a + b
      /\ \A i \in 1..a : all[i] = ids[i]
      /\ \A i \in a + 1..a + b : i - a \in 1..b /\ all[i] = new[i - a]
  BY <1>1, <1>2
<1> HIDE DEF all, a, b
<1>4. \A i \in 1..a : all[i] \in Range(ids)
  BY <1>2, <1>3 DEF Range
<1>5. \A i \in a + 1..a + b : all[i] \in Range(new)
  BY <1>2, <1>3 DEF Range
<1>6. \A i \in DOMAIN all : i \in 1..a \/ i \in a + 1..a + b
  BY <1>2, <1>3
<1>7. Range(all) \subseteq Range(ids) \union Range(L)
  BY <1>1, <1>4, <1>5, <1>6 DEF Range
<1>8. ASSUME NEW i \in DOMAIN all, NEW j \in DOMAIN all, all[i] = all[j]
      PROVE  i = j
  <2>1. CASE i \in 1..a /\ j \in 1..a
    BY <1>2, <1>3, <1>8, <2>1 DEF IsInjective
  <2>2. CASE i \in a + 1..a + b /\ j \in a + 1..a + b
    <3>1. i - a \in DOMAIN new /\ j - a \in DOMAIN new /\ new[i - a] = new[j - a]
      BY <1>2, <1>3, <1>8, <2>2
    <3>2. i - a = j - a
      BY <1>1, <3>1
    <3>3. QED
      BY <1>2, <2>2, <3>2
  <2>3. ~ (i \in 1..a /\ j \in a + 1..a + b) /\ ~ (j \in 1..a /\ i \in a + 1..a + b)
    BY <1>1, <1>4, <1>5, <1>8
  <2>4. QED
    BY <1>6, <2>1, <2>2, <2>3
<1>9. IsInjective(all)
  BY <1>8 DEF IsInjective
<1>10. QED
  BY <1>3, <1>7, <1>9 DEF all

\* The parts of ListInv that speak of what the answer has.
Listed ==
  ~missed =>
    /\ \A n \in 1..Len(listed) : listed[n] \in {ListPage(who, n), Other}
    /\ Range(ids) \subseteq UNION {Range(JobsOf(listed[n])) : n \in 1..Len(listed)}

Shape ==
  /\ most \in 0..Len(Order)
  /\ listed \in Seq(Range(listed)) /\ ids \in Seq(Job) /\ IsInjective(ids)

\* A step that adds nothing to the answer, whoever it is for.
LEMMA ListsNone ==
  ASSUME ListInv, UNCHANGED <<most, listed, ids, missed>>, who' = who \/ listed = <<>>
  PROVE  Shape' /\ Listed'
<1>1. Shape'
  BY DEF ListInv, Shape
<1>2. CASE who' = who
  BY <1>1, <1>2 DEF ListInv, Listed, ListPage
<1>3. CASE listed = <<>>
  <2>1. Len(listed) = 0 /\ 1..Len(listed) = {}
    BY <1>3
  <2>2. QED
    BY <1>1, <2>1 DEF ListInv, Listed
<1>4. QED
  BY <1>2, <1>3

\* A page more, with ids that it has.
LEMMA ListsOne ==
  ASSUME ListInv, UNCHANGED <<most, missed, who>>, listed' = Append(listed, text),
         ids' \in Seq(Job), IsInjective(ids'),
         ~missed => /\ text \in {ListPage(who, Len(listed) + 1), Other}
                    /\ Range(ids') \subseteq Range(ids) \union Range(JobsOf(text))
  PROVE  Shape' /\ Listed'
<1>1. PICK t : t = Append(listed, text)
  OBVIOUS
<1>2. /\ t \in Seq(Range(t)) /\ Len(t) = Len(listed) + 1 /\ DOMAIN t = 1..Len(t)
      /\ \A i \in DOMAIN listed : t[i] = listed[i]
      /\ t[Len(listed) + 1] = text
      /\ \A i \in DOMAIN t : i = Len(listed) + 1 \/ i \in DOMAIN listed
  BY <1>1, Appended DEF ListInv
<1>3. listed \in Seq(Range(listed)) /\ Len(listed) \in Nat /\ DOMAIN listed = 1..Len(listed)
  BY DEF ListInv
<1>4. listed' = t
  BY <1>1
<1>5. Shape'
  BY <1>2, <1>4 DEF ListInv, Shape
<1>6. ASSUME ~missed PROVE \A n \in 1..Len(t) : t[n] \in {ListPage(who, n), Other}
  BY <1>2, <1>3, <1>6 DEF ListInv
<1>7. ASSUME ~missed PROVE Range(ids') \subseteq UNION {Range(JobsOf(t[n])) : n \in 1..Len(t)}
  <2>1. Range(ids') \subseteq Range(ids) \union Range(JobsOf(text))
    BY <1>7
  <2>2. Range(ids) \subseteq UNION {Range(JobsOf(listed[n])) : n \in 1..Len(listed)}
    BY <1>7 DEF ListInv
  <2>3. ASSUME NEW x \in Range(ids') PROVE \E n \in 1..Len(t) : x \in Range(JobsOf(t[n]))
    <3>1. CASE x \in Range(JobsOf(text))
      <4>1. Len(t) \in 1..Len(t) /\ t[Len(t)] = text
        BY <1>2, <1>3
      <4>2. QED
        BY <3>1, <4>1
    <3>2. CASE x \in Range(ids)
      <4>1. PICK n \in 1..Len(listed) : x \in Range(JobsOf(listed[n]))
        BY <2>2, <3>2
      <4>2. n \in 1..Len(t) /\ t[n] = listed[n]
        BY <1>2, <1>3
      <4>3. QED
        BY <4>1, <4>2
    <3>3. QED
      BY <2>1, <3>1, <3>2
  <2>4. QED
    BY <2>3
<1>8. Listed'
  <2>1. ~missed => \A n \in 1..Len(listed') : listed'[n] \in {ListPage(who, n), Other}
    BY <1>4, <1>6
  <2>2. ~missed => Range(ids') \subseteq UNION {Range(JobsOf(listed'[n])) : n \in 1..Len(listed')}
    BY <1>4, <1>7
  <2>3. QED
    BY <2>1, <2>2 DEF Listed, ListPage, JobsOf
<1>9. QED
  BY <1>5, <1>8

\* A step of another tool.
LEMMA ListQuiet ==
  ASSUME ListInv, UNCHANGED <<listVars, missed>>, who' = who \/ listed = <<>>,
         pc' \notin {"list", "total", "ids"}
  PROVE  ListInv'
<1>1. Shape' /\ Listed'
  BY ListsNone DEF listVars
<1>2. QED
  BY <1>1 DEF Shape, Listed, ListInv

LEMMA ListStart == ListInv /\ NavInv /\ Start => ListInv'
<1> SUFFICES ASSUME ListInv, NavInv, Start PROVE ListInv'
  OBVIOUS
<1>0. Len(Order) \in Nat
  BY OrderAssumption
<1>1. listed' = <<>> /\ ids' = <<>> /\ most' \in 0..Len(Order)
  BY <1>0 DEF Start, StartScrape, StartLists, StartMessaging, StartFeeds, StartList, NoList
<1>2. /\ pc' \notin {"total", "ids"}
      /\ pc' = "list" => nav' = nav /\ pc = "idle"
  BY DEF Start, StartScrape, StartLists, StartMessaging, StartFeeds, StartCompany, StartOnePage,
         CompanyEmployees, ScrapeJob, SearchCompanies, Refused, SearchPeople, SearchPosts, StartMe,
         StartSidebar, StartPerson, Scrape, Begin, StartList, StartInbox, StartSearch, StartThread,
         StartConversation, StartFeed, navVars
<1>3. listed' \in Seq(Range(listed')) /\ ids' \in Seq(Job) /\ IsInjective(ids')
  BY <1>1 DEF IsInjective
<1>4. Len(listed') = 0 /\ Range(ids') = {}
  BY <1>1 DEF Range
<1>5. QED
  BY <1>1, <1>2, <1>3, <1>4 DEF ListInv, NavInv

LEMMA ListNavigating == ListInv /\ NavInv /\ Navigating => ListInv'
<1> SUFFICES ASSUME ListInv, NavInv, Navigating PROVE ListInv'
  OBVIOUS
<1>1. UNCHANGED <<pc, who, listVars, goal>> /\ (missed => missed')
  BY DEF Navigating, Navigates, Lands, Deadline, DeadlineAgain, GotoFails, BarrierCheck, LateLoad,
         callVars, navVars
<1>2. nav = "idle" => nav' = nav /\ late # None /\ late' = None
  BY DEF Navigating, Navigates, Lands, Deadline, DeadlineAgain, GotoFails, BarrierCheck, LateLoad,
         navVars
<1>3. pc \in {"total", "ids"} => missed'
  BY <1>2 DEF NavInv, Navigating
<1>4. Shape'
  BY <1>1 DEF ListInv, Shape, listVars
<1>5. Listed'
  BY <1>1 DEF ListInv, Listed, listVars, ListPage
<1>6. QED
  BY <1>1, <1>2, <1>3, <1>4, <1>5 DEF ListInv, Shape, Listed, listVars, ListPage

LEMMA ListLists ==
  ListInv /\ NavInv /\ PageInv /\ Lists /\ UNCHANGED missed => ListInv'
<1> SUFFICES ASSUME ListInv, NavInv, PageInv, Lists, UNCHANGED missed PROVE ListInv'
  OBVIOUS
<1>0. Shape' /\ Listed' => ListInv' \/ pc' \in {"list", "total", "ids"}
  BY DEF ListInv, Shape, Listed
<1>1. CASE ListNavigates
  <2>1. Shape' /\ Listed'
    BY <1>1, ListsNone DEF ListNavigates, callVars, listVars
  <2>2. QED
    BY <1>1, <2>1 DEF ListNavigates, Goto, callVars, listVars, ListInv, Shape, Listed, ListPage
<1>2. CASE ListEnds \/ ListTextMissing \/ IdsFail
  <2>1. Shape' /\ Listed'
    BY <1>2, ListsNone DEF ListEnds, ListTextMissing, IdsFail, End, listVars
  <2>2. QED
    BY <1>0, <1>2, <2>1 DEF ListEnds, ListTextMissing, IdsFail, End
<1>3. CASE ListTextRead
  <2>1. Shape' /\ Listed'
    BY <1>3, ListsNone DEF ListTextRead
  <2>2. /\ pc = "list" /\ nav = "arrived" /\ pc' = "total" /\ nav' = "idle" /\ who' = who
        /\ text' = page /\ page' = page /\ listed' = listed
    BY <1>3 DEF ListTextRead, ListArrived, ClosesModal
  <2>3. ~missed => page \in {ListPage(who, Len(listed) + 1), Other}
    BY <2>2 DEF NavInv, ListInv
  <2>4. QED
    BY <2>1, <2>2, <2>3 DEF ListInv, Shape, Listed, ListPage
<1>4. CASE ListChromeOnly
  <2>1. Shape' /\ Listed'
    BY <1>4, ListsNone DEF ListChromeOnly, callVars, listVars
  <2>2. pc' = "list" /\ nav' = "idle"
    BY <1>4 DEF ListChromeOnly, ListArrived, callVars
  <2>3. QED
    BY <2>1, <2>2 DEF ListInv, Shape, Listed
<1>5. CASE Routed
  <2>1. Shape' /\ Listed'
    BY <1>5, ListsNone DEF Routed
  <2>2. /\ pc = "total" /\ pc' = "ids" /\ who' = who
        /\ text' = text /\ page' = page /\ listed' = listed
    BY <1>5 DEF Routed, pageVars
  <2>3. QED
    BY <2>1, <2>2 DEF ListInv, Shape, Listed, ListPage
<1>6. CASE OffRoute \/ NothingNew
  <2>1. /\ pc \in {"total", "ids"} /\ pc' = "idle" /\ who' = who /\ most' = most /\ ids' = ids
        /\ listed' = Append(listed, text)
    BY <1>6 DEF OffRoute, NothingNew, End
  <2>2. ids' \in Seq(Job) /\ IsInjective(ids')
    BY <2>1 DEF ListInv
  <2>3. ~missed => text \in {ListPage(who, Len(listed) + 1), Other}
    BY <2>1 DEF ListInv
  <2>4. Shape' /\ Listed'
    BY <2>1, <2>2, <2>3, ListsOne
  <2>5. QED
    BY <1>0, <2>1, <2>4
<1>7. CASE IdsRead
  <2>1. /\ pc = "ids" /\ pc' = "list" /\ who' = who /\ most' = most /\ nav' = nav
        /\ listed' = Append(listed, text)
    BY <1>7 DEF IdsRead, navVars
  <2>2. PICK s \in Shown(JobsOf(page)) : \E new \in NewIds(s) : ids' = ids \o new
    BY <1>7 DEF IdsRead
  <2>3. JobsOf(page) \in Seq(Job) /\ IsInjective(JobsOf(page))
    <3>1. CASE page.kind = "list"
      BY <3>1, ListAssumption DEF JobsOf, PageInv, Sound
    <3>2. CASE page.kind # "list"
      BY <3>2 DEF JobsOf, IsInjective
    <3>3. QED
      BY <3>1, <3>2
  <2>4. ids \in Seq(Job) /\ IsInjective(ids)
    BY DEF ListInv
  <2>5. /\ ids' \in Seq(Job) /\ IsInjective(ids')
        /\ Range(ids') \subseteq Range(ids) \union Range(JobsOf(page))
    BY <2>2, <2>3, <2>4, MoreIds
  <2>6. ~missed => text \in {ListPage(who, Len(listed) + 1), Other} /\ page = text
    BY <2>1 DEF ListInv
  <2>7. Shape' /\ Listed'
    BY <2>1, <2>5, <2>6, ListsOne
  <2>8. nav' = "idle"
    BY <2>1 DEF NavInv
  <2>9. QED
    BY <2>1, <2>7, <2>8 DEF ListInv, Shape, Listed
<1>8. QED
  BY <1>1, <1>2, <1>3, <1>4, <1>5, <1>6, <1>7 DEF Lists

LEMMA ListStep == ListInv /\ Base /\ ScrapeInv /\ [Next]_vars => ListInv'
<1> SUFFICES ASSUME ListInv, Base, ScrapeInv, [Next]_vars PROVE ListInv'
  OBVIOUS
<1>0. NavInv /\ PageInv /\ CallInv
  BY DEF Base
<1>1. CASE UNCHANGED vars
  <2>1. Shape' /\ Listed'
    BY <1>1, ListsNone DEF vars, callVars, listVars
  <2>2. QED
    BY <1>1, <2>1 DEF vars, callVars, pageVars, navVars, listVars, ListInv, Shape, Listed, ListPage
<1>2. CASE Scrapes /\ UNCHANGED <<listVars, missed>>
  BY <1>0, <1>2, ListQuiet DEF Scrapes, ReadSection, TextRead, ChromeOnly, SectionLost, ScrapeEnds,
     Throttled, Raises, Cancel, Answer, Arrived, End, callVars, CallInv
<1>3. CASE OnePage /\ UNCHANGED <<listVars, missed>>
  BY <1>3, ListQuiet DEF OnePage, MeResolved, LoadedRead, SidebarRead, SidebarNext, SidebarSkips,
     SidebarExpanded, SidebarEnds, End, callVars, ScrapeInv
<1>4. CASE Converses /\ UNCHANGED <<listVars, missed>>
  BY <1>4, ListQuiet DEF Converses, NameFound, NameMissing, Painted, Unpainted, RawStream, Labels,
     Click, RowSkipped, Opens, Captured, Takes, RowsLost, RowsAnswered, Falls, NotFound, OpensThread,
     ConversationRead, Steps, Ends, End, callVars
<1>5. CASE Feeds /\ UNCHANGED <<listVars, missed>>
  BY <1>5, ListQuiet DEF Feeds, Arrives, ReadEnds, FeedShown, Wheel, Tick, FeedRead, FeedFails,
     Round, FeedSteps, Looping, End, callVars
<1>6. QED
  BY <1>0, <1>1, <1>2, <1>3, <1>4, <1>5, ListStart, ListNavigating, ListLists DEF Next, Reading
-----------------------------------------------------------------------------
(***************************************************************************)
(* Rows and threads.                                                       *)
(***************************************************************************)

\* A step that reads no name and clicks no row.
LEMMA RowsQuiet ==
  ASSUME RowsInv, UNCHANGED <<who, back, name, clicked>>, missed => missed',
         pc' = "named" => pc = "named" /\ goal' = goal
  PROVE  RowsInv'
BY DEF RowsInv, ByName, Profile

LEMMA RowsStart == RowsInv /\ Start => RowsInv'
<1> SUFFICES ASSUME RowsInv, Start PROVE RowsInv'
  OBVIOUS
<1>1. name' = None /\ clicked' = {}
  BY DEF Start, StartScrape, StartLists, StartMessaging, StartFeeds, StartInbox, StartSearch,
         StartThread, StartConversation, NoConversation
<1>2. pc' = "named" => goal' = Profile(who', Main)
  BY DEF Start, StartScrape, StartLists, StartMessaging, StartFeeds, StartCompany, StartOnePage,
         CompanyEmployees, ScrapeJob, SearchCompanies, Refused, SearchPeople, SearchPosts, StartMe,
         StartSidebar, StartPerson, Scrape, Begin, StartList, StartInbox, StartSearch, StartThread,
         StartConversation, StartFeed, Goto
<1>3. QED
  BY <1>1, <1>2 DEF RowsInv

LEMMA ThreadsOf == \A t \in Threads : t.who \in Person
BY DEF Threads, Thread

LEMMA RowsConverses == RowsInv /\ Base /\ Converses /\ UNCHANGED missed => RowsInv'
<1> SUFFICES ASSUME RowsInv, Base, Converses, UNCHANGED missed PROVE RowsInv'
  OBVIOUS
<1>0. NavInv /\ PageInv /\ CallInv
  BY DEF Base
<1>1. CASE NameFound
  <2>1. /\ pc = "named" /\ nav = "arrived" /\ page.kind = "profile" /\ name' = NameOf[page.who]
        /\ pc' = "messages" /\ UNCHANGED <<who, back, clicked>>
    BY <1>1 DEF NameFound, Steps
  <2>2. goal = Profile(who, Main)
    BY <2>1 DEF RowsInv
  <2>3. ~missed => page.who = who
    BY <1>0, <2>1, <2>2 DEF NavInv, Profile, Other, Plain
  <2>4. QED
    BY <2>1, <2>3 DEF RowsInv, ByName
<1>2. CASE Click
  <2>1. /\ pc = "rows" /\ rows # <<>> /\ Wanted(Head(rows))
        /\ clicked' = clicked \union {Head(rows)} /\ name' = name
        /\ pc' = "click" /\ UNCHANGED <<who, back>>
    BY <1>2 DEF Click, Steps
  <2>2. Head(rows) \in Threads
    BY <1>0, <2>1 DEF PageInv
  <2>3. Head(rows).who \in Person
    BY <2>2, ThreadsOf
  <2>4. NameOf[Head(rows).who] # None
    BY <2>3, ConversationAssumption
  <2>5. ASSUME ByName, ~missed PROVE NameOf[Head(rows).who] = NameOf[who]
    BY <2>1, <2>4, <2>5 DEF RowsInv, Wanted
  <2>6. QED
    BY <2>1, <2>5 DEF RowsInv, ByName
<1>3. CASE OpensThread \/ Falls \/ NameMissing \/ Painted \/ Labels \/ Captured \/ ConversationRead
  <2>1. UNCHANGED <<who, back, name, clicked>> /\ pc' # "named"
    BY <1>3 DEF OpensThread, Falls, NameMissing, Painted, Labels, Captured, Takes, ConversationRead,
       Steps, Ends, End, scrapeVars, convVars
  <2>2. QED
    BY <2>1, RowsQuiet
<1>4. CASE Unpainted \/ RawStream \/ RowSkipped \/ Opens \/ RowsLost \/ RowsAnswered \/ NotFound
  <2>1. UNCHANGED <<who, back, name, clicked>> /\ pc' # "named"
    BY <1>4 DEF Unpainted, RawStream, RowSkipped, Opens, RowsLost, RowsAnswered, NotFound,
       Ends, End, callVars, scrapeVars, convVars
  <2>2. QED
    BY <2>1, RowsQuiet
<1>5. QED
  BY <1>1, <1>2, <1>3, <1>4 DEF Converses

LEMMA RowsStep == RowsInv /\ Base /\ [Next]_vars => RowsInv'
<1> SUFFICES ASSUME RowsInv, Base, [Next]_vars PROVE RowsInv'
  OBVIOUS
<1>0. CallInv
  BY DEF Base
<1>1. CASE UNCHANGED vars
  BY <1>1, RowsQuiet DEF vars, callVars, scrapeVars, navVars, convVars
<1>2. CASE Navigating
  BY <1>2, RowsQuiet DEF Navigating, Navigates, Lands, Deadline, DeadlineAgain, GotoFails,
     BarrierCheck, LateLoad, callVars, scrapeVars, navVars, convVars
<1>3. CASE Scrapes /\ UNCHANGED <<convVars, missed>>
  <2>1. /\ UNCHANGED <<who, back, name, clicked, missed>>
        /\ pc' = "named" => pc = "named" /\ goal' = goal
    BY <1>0, <1>3 DEF Scrapes, ReadSection, TextRead, Arrived, ChromeOnly, SectionLost, ScrapeEnds,
       Throttled, Raises, Cancel, Answer, End, callVars, scrapeVars, convVars, CallInv
  <2>2. QED
    BY <2>1, RowsQuiet
<1>4. CASE MeResolved /\ UNCHANGED convVars
  <2>1. ~ByName' /\ pc' # "named"
    BY <1>0, <1>4 DEF MeResolved, CallInv, ByName, scrapeVars
  <2>2. QED
    BY <2>1 DEF RowsInv
<1>5. CASE OnePage /\ ~MeResolved /\ UNCHANGED <<convVars, missed>>
  <2>1. UNCHANGED <<who, back, name, clicked, missed>> /\ pc' # "named"
    BY <1>5 DEF OnePage, LoadedRead, SidebarRead, SidebarNext, SidebarSkips, SidebarExpanded,
       SidebarEnds, End, callVars, scrapeVars, convVars
  <2>2. QED
    BY <2>1, RowsQuiet
<1>6. CASE Lists /\ UNCHANGED <<convVars, missed>>
  <2>1. UNCHANGED <<who, back, name, clicked, missed>> /\ pc' # "named"
    BY <1>6 DEF Lists, ListNavigates, ListEnds, ListTextRead, ListChromeOnly, ListTextMissing,
       Routed, OffRoute, IdsRead, NothingNew, IdsFail, ListArrived, End, callVars, scrapeVars, convVars
  <2>2. QED
    BY <2>1, RowsQuiet
<1>7. CASE Feeds /\ UNCHANGED <<convVars, missed>>
  <2>1. /\ UNCHANGED <<who, back, name, clicked, missed>>
        /\ pc' = "named" => pc = "named" /\ goal' = goal
    BY <1>7 DEF Feeds, Arrives, ReadEnds, FeedShown, Wheel, Tick, FeedRead, FeedFails, Round,
       FeedSteps, Looping, End, callVars, scrapeVars, convVars, navVars
  <2>2. QED
    BY <2>1, RowsQuiet
<1>8. QED
  BY <1>1, <1>2, <1>3, <1>4, <1>5, <1>6, <1>7, RowsStart, RowsConverses DEF Next, Reading

\* A step that leaves the rows and what is taken from them alone.
LEMMA ThreadQuiet ==
  ASSUME ThreadInv, UNCHANGED <<who, back, name, refs, shown, opened, slow>>, missed => missed',
         status' = "answered" => status = "answered" \/ back # "thread",
         pc' \in {"rows", "click"} => pc' = pc /\ UNCHANGED <<coming, open, before, rows>>,
         pc' \in {"named", "thread"} => pc = pc' /\ goal' = goal
  PROVE  ThreadInv'
<1>1. ConversationAsked'
  BY DEF ThreadInv, ConversationAsked, Looked, ByName
<1>2. QED
  BY <1>1 DEF ThreadInv, Own, Wanted, ByName

LEMMA ThreadStart == Start => ThreadInv'
<1> SUFFICES ASSUME Start PROVE ThreadInv'
  OBVIOUS
<1>1. refs' = <<>>
  BY DEF Start, StartScrape, StartLists, StartMessaging, StartFeeds, StartInbox, StartSearch,
         StartThread, StartConversation, NoConversation
<1>2. /\ pc' \notin {"rows", "click"}
      /\ status' # "answered"
      /\ pc' = "thread" => goal'.who = who'
  BY DEF Start, StartScrape, StartLists, StartMessaging, StartFeeds, StartCompany, StartOnePage,
         CompanyEmployees, ScrapeJob, SearchCompanies, Refused, SearchPeople, SearchPosts, StartMe,
         StartSidebar, StartPerson, Scrape, Begin, StartList, StartInbox, StartSearch, StartThread,
         StartConversation, StartFeed, Goto
<1>3. QED
  BY <1>1, <1>2 DEF ThreadInv, ConversationAsked, Looked

\* The route taken for a row's thread is that thread's.
LEMMA ThreadCaptured ==
  ThreadInv /\ Base /\ Captured /\ UNCHANGED missed => ThreadInv'
<1> SUFFICES ASSUME ThreadInv, Base, Captured, UNCHANGED missed PROVE ThreadInv'
  OBVIOUS
<1>0. PageInv /\ CallInv
  BY DEF Base
<1>1. /\ pc = "click" /\ pc' = "rows" /\ slow' = (slow \/ coming # None)
      /\ refs' = IF open = None THEN refs
                 ELSE Append(refs, [row |-> Head(rows), thread |-> open])
      /\ UNCHANGED <<who, back, name, shown, status, opened, open, coming>>
  BY DEF Captured, Takes, Steps
<1>2. rows # <<>> /\ Wanted(Head(rows)) /\ Head(rows) \in Threads
  BY <1>0, <1>1 DEF ThreadInv, PageInv
<1>3. ByName => Own(open) \/ (slow' /\ open = opened)
  <2> SUFFICES ASSUME ByName PROVE Own(open) \/ (slow' /\ open = opened)
    OBVIOUS
  <2>1. CASE coming = None
    BY <1>1, <1>2, <2>1 DEF ThreadInv, Own, Wanted
  <2>2. CASE coming # None
    BY <1>1, <2>2 DEF ThreadInv
  <2>3. QED
    BY <2>1, <2>2
<1>4. PICK e : e = [row |-> Head(rows), thread |-> open]
  OBVIOUS
<1>5. e.thread = open /\ (refs' = refs \/ refs' = Append(refs, e))
  BY <1>1, <1>4
<1>6. ByName => \A i \in DOMAIN refs' :
        Own(refs'[i].thread) \/ (slow' /\ refs'[i].thread = opened)
  <2>1. CASE refs' = refs
    BY <1>1, <2>1 DEF ThreadInv
  <2>2. CASE refs' = Append(refs, e)
    <3>1. refs \in Seq(Range(refs))
      BY <1>0 DEF PageInv
    <3>2. PICK t : t = Append(refs, e)
      OBVIOUS
    <3>3. /\ \A i \in DOMAIN refs : t[i] = refs[i]
          /\ t[Len(refs) + 1] = e
          /\ \A i \in DOMAIN t : i = Len(refs) + 1 \/ i \in DOMAIN refs
      BY <3>1, <3>2, Appended
    <3>4. ByName => \A i \in DOMAIN t : Own(t[i].thread) \/ (slow' /\ t[i].thread = opened)
      <4> SUFFICES ASSUME ByName, NEW i \in DOMAIN t
                   PROVE  Own(t[i].thread) \/ (slow' /\ t[i].thread = opened)
        OBVIOUS
      <4>1. CASE i = Len(refs) + 1
        BY <1>3, <1>5, <3>3, <4>1
      <4>2. CASE i \in DOMAIN refs
        BY <1>1, <3>3, <4>2 DEF ThreadInv
      <4>3. QED
        BY <3>3, <4>1, <4>2
    <3>5. QED
      BY <2>2, <3>2, <3>4
  <2>3. QED
    BY <1>5, <2>1, <2>2
<1>7. ConversationAsked'
  BY <1>0, <1>1 DEF CallInv, ConversationAsked, Looked
<1>8. (ByName => \A i \in DOMAIN refs :
        Own(refs[i].thread) \/ (slow /\ refs[i].thread = opened))'
  BY <1>1, <1>6 DEF ByName, Own
<1>9. ByName' => (open' = opened' \/ Own(open)') /\ (coming' = None \/ Own(coming)')
  BY <1>1 DEF ThreadInv, ByName, Own
<1>10. QED
  BY <1>1, <1>7, <1>8, <1>9 DEF ThreadInv

LEMMA ThreadConverses ==
  ThreadInv /\ Base /\ RowsInv /\ Converses /\ UNCHANGED missed => ThreadInv'
<1> SUFFICES ASSUME ThreadInv, Base, RowsInv, Converses, UNCHANGED missed
             PROVE  ThreadInv'
  OBVIOUS
<1>0. NavInv /\ PageInv /\ CallInv
  BY DEF Base
<1>1. CASE NameFound
  <2>1. /\ pc = "named" /\ pc' = "messages" /\ UNCHANGED <<who, back, refs, shown, status>>
    BY <1>1 DEF NameFound, Steps
  <2>2. refs' = <<>> /\ ConversationAsked'
    BY <1>0, <2>1 DEF ThreadInv, ConversationAsked, Looked, CallInv
  <2>3. QED
    BY <2>1, <2>2 DEF ThreadInv
<1>2. CASE Painted
  <2>1. pc' = "labels" /\ UNCHANGED <<who, back, name, status, refs, opened, slow>> /\ pc # "idle"
    BY <1>0, <1>2 DEF Painted, Steps
  <2>2. ConversationAsked'
    BY <1>0, <2>1 DEF ConversationAsked, Looked, CallInv
  <2>3. QED
    BY <2>1, <2>2 DEF ThreadInv, Own, ByName
<1>12. CASE Labels
  <2>1. /\ pc' = "rows" /\ coming' = None /\ refs' = <<>> /\ opened' = open'
        /\ UNCHANGED <<who, back, name, status>> /\ pc # "idle"
    BY <1>12 DEF Labels, Steps
  <2>2. ConversationAsked'
    BY <1>0, <2>1 DEF ConversationAsked, Looked, CallInv
  <2>3. QED
    BY <2>1, <2>2 DEF ThreadInv, ByName
<1>3. CASE Click
  <2>1. /\ pc = "rows" /\ rows # <<>> /\ Wanted(Head(rows)) /\ pc' = "click"
        /\ before' = open /\ coming' = Head(rows)
        /\ UNCHANGED <<who, back, name, refs, shown, status, rows, open, opened, slow>>
    BY <1>3 DEF Click, Steps
  <2>2. ConversationAsked'
    BY <2>1 DEF ThreadInv, ConversationAsked, Looked, ByName
  <2>3. rows' # <<>> /\ Wanted(Head(rows))' /\ coming' = Head(rows') /\ coming' # None
    BY <1>0, <2>1, ThreadsOf, ConversationAssumption DEF Wanted, ByName, PageInv
  <2>4. ByName => Own(coming)'
    BY <1>0, <2>1 DEF Own, Wanted, PageInv
  <2>5. QED
    BY <2>1, <2>2, <2>3, <2>4 DEF ThreadInv, Own, ByName
<1>4. CASE RowSkipped
  BY <1>4 DEF RowSkipped, callVars, scrapeVars, ThreadInv, Own, ConversationAsked, Looked, ByName
<1>5. CASE Opens
  <2>1. /\ pc \in {"rows", "click"} /\ coming # None /\ open' = coming /\ coming' = None
        /\ UNCHANGED <<pc, who, back, name, refs, shown, status, rows, goal, opened, slow>>
    BY <1>5 DEF Opens, callVars, scrapeVars, navVars
  <2>2. ByName => Own(open)'
    BY <2>1 DEF ThreadInv, Own
  <2>3. pc = "click" =>
          rows' # <<>> /\ Wanted(Head(rows))' /\ open' = Head(rows') /\ coming' = None
    BY <2>1 DEF ThreadInv, Wanted, ByName
  <2>4. ConversationAsked'
    BY <2>1 DEF ThreadInv, ConversationAsked, Looked, ByName
  <2>5. QED
    BY <2>1, <2>2, <2>3, <2>4 DEF ThreadInv, Own, ByName
<1>6. CASE Captured
  BY <1>6, ThreadCaptured
<1>7. CASE OpensThread
  <2>1. /\ pc = "rows" /\ ByName /\ index < Len(refs) /\ pc' = "thread"
        /\ goal' = refs[index + 1].thread
        /\ UNCHANGED <<who, back, name, refs, shown, status, opened, slow>>
    BY <1>7 DEF OpensThread, Steps, convVars
  <2>2. index \in Nat /\ refs \in Seq(Range(refs)) /\ index + 1 \in DOMAIN refs
    BY <1>0, <2>1 DEF PageInv
  <2>3. Own(goal') \/ (slow /\ goal' = opened)
    BY <2>1, <2>2 DEF ThreadInv
  <2>4. Own(goal') /\ ~missed => NameOf[goal'.who] = NameOf[who]
    BY <2>1, ThreadsOf, ConversationAssumption DEF RowsInv, Own
  <2>5. ConversationAsked'
    BY <2>1 DEF ThreadInv, ConversationAsked, Looked, ByName
  <2>6. QED
    BY <2>1, <2>3, <2>4, <2>5 DEF ThreadInv, Own, ByName
<1>8. CASE ConversationRead
  <2>1. /\ pc = "thread" /\ nav = "arrived" /\ shown' = page /\ pc' = "idle"
        /\ UNCHANGED <<who, back, name, refs, opened, slow>>
    BY <1>8 DEF ConversationRead, End, scrapeVars
  <2>2. ~missed => /\ page \in {goal, Other}
                   /\ NameOf[goal.who] = NameOf[who] \/ (slow /\ goal = opened)
    BY <1>0, <2>1 DEF NavInv, ThreadInv
  <2>3. Other.kind # "thread"
    BY DEF Other, Plain
  <2>4. ConversationAsked'
    BY <2>1, <2>2, <2>3 DEF ConversationAsked, Looked
  <2>5. QED
    BY <2>1, <2>4 DEF ThreadInv, Own, ByName
<1>9. CASE NameMissing \/ Falls
  <2>1. /\ UNCHANGED <<who, back, name, refs, shown, opened, slow>> /\ pc' \in {"messages", "idle"}
        /\ status' = "answered" => status = "answered"
    BY <1>9 DEF NameMissing, Falls, Steps, Ends, End, scrapeVars, convVars
  <2>2. QED
    BY <2>1, ThreadQuiet
<1>10. CASE Unpainted \/ RawStream \/ RowsLost \/ RowsAnswered \/ NotFound
  <2>1. /\ UNCHANGED <<who, back, name, refs, shown, opened, slow>> /\ pc' = "idle"
        /\ status' = "answered" => back # "thread"
    BY <1>10 DEF Unpainted, RawStream, RowsLost, RowsAnswered, NotFound, Ends, End, scrapeVars,
       convVars, ByName
  <2>2. QED
    BY <2>1, ThreadQuiet
<1>11. QED
  BY <1>1, <1>2, <1>3, <1>4, <1>5, <1>6, <1>7, <1>8, <1>9, <1>10, <1>12 DEF Converses

LEMMA ThreadStep == ThreadInv /\ Base /\ RowsInv /\ [Next]_vars => ThreadInv'
<1> SUFFICES ASSUME ThreadInv, Base, RowsInv, [Next]_vars PROVE ThreadInv'
  OBVIOUS
<1>0. CallInv
  BY DEF Base
<1>1. CASE UNCHANGED vars
  BY <1>1, ThreadQuiet DEF vars, callVars, scrapeVars, navVars, convVars
<1>2. CASE Navigating
  BY <1>2, ThreadQuiet DEF Navigating, Navigates, Lands, Deadline, DeadlineAgain, GotoFails,
     BarrierCheck, LateLoad, callVars, scrapeVars, navVars, convVars
<1>3. CASE Scrapes /\ UNCHANGED <<convVars, missed>>
  <2>1. /\ UNCHANGED <<who, back, convVars, missed>>
        /\ status' = "answered" => status = "answered" \/ back # "thread"
        /\ pc' \in {"rows", "click", "named"} => pc' = pc /\ goal' = goal
        /\ pc' = "thread" => pc' = pc /\ goal' = goal
    BY <1>0, <1>3 DEF Scrapes, ReadSection, TextRead, Arrived, ChromeOnly, SectionLost, ScrapeEnds,
       Throttled, Raises, Cancel, Answer, End, callVars, scrapeVars, CallInv, ByName
  <2>2. QED
    BY <2>1, ThreadQuiet DEF convVars
<1>4. CASE MeResolved /\ UNCHANGED <<convVars, missed>>
  <2>1. ~ByName' /\ pc' \in {"loaded", "scrape"}
    BY <1>0, <1>4 DEF MeResolved, CallInv, ByName, scrapeVars
  <2>2. QED
    BY <2>1 DEF ThreadInv, ConversationAsked, Looked
<1>5. CASE OnePage /\ ~MeResolved /\ UNCHANGED <<convVars, missed>>
  <2>1. /\ UNCHANGED <<who, back, missed>>
        /\ pc' \in {"idle", "scrape", "expand"}
        /\ status' = "answered" => status = "answered" \/ back # "thread"
    BY <1>0, <1>5 DEF OnePage, LoadedRead, SidebarRead, SidebarNext, SidebarSkips, SidebarExpanded,
       SidebarEnds, End, callVars, scrapeVars, CallInv, ByName
  <2>2. QED
    BY <1>5, <2>1, ThreadQuiet DEF convVars
<1>6. CASE Lists /\ UNCHANGED <<convVars, missed>>
  <2>1. /\ UNCHANGED <<who, back, missed>>
        /\ pc' \in {"idle", "list", "total", "ids"}
        /\ status' = "answered" => status = "answered" \/ back # "thread"
    BY <1>0, <1>6 DEF Lists, ListNavigates, ListEnds, ListTextRead, ListChromeOnly, ListTextMissing,
       Routed, OffRoute, IdsRead, NothingNew, IdsFail, ListArrived, End, callVars, scrapeVars,
       CallInv, ByName
  <2>2. QED
    BY <1>6, <2>1, ThreadQuiet DEF convVars
<1>7. CASE Feeds /\ UNCHANGED <<convVars, missed>>
  <2>1. /\ UNCHANGED <<who, back, missed>>
        /\ pc' \in {"idle", "feed", "wheel", "tick", "posts"}
        /\ status' = "answered" => status = "answered" \/ back # "thread"
    BY <1>0, <1>7 DEF Feeds, Arrives, ReadEnds, FeedShown, Wheel, Tick, FeedRead, FeedFails, Round,
       FeedSteps, Looping, End, callVars, scrapeVars, navVars, CallInv, ByName
  <2>2. QED
    BY <1>7, <2>1, ThreadQuiet DEF convVars
<1>8. QED
  BY <1>1, <1>2, <1>3, <1>4, <1>5, <1>6, <1>7, ThreadStart, ThreadConverses DEF Next, Reading

-----------------------------------------------------------------------------
(***************************************************************************)
(* The theorems.                                                           *)
(***************************************************************************)

LEMMA ReadsInit == Init => IInv /\ ThreadInv
<1> SUFFICES ASSUME Init PROVE IInv /\ ThreadInv
  OBVIOUS
<1> USE DEF Init, PageInit, ScrapeInit, ListInit, ConversationInit, FeedInit
<1>1. PageInv
  BY SoundPages DEF PageInv, Range
<1>2. NavInv
  BY DEF NavInv
<1>3. CallInv
  BY DEF CallInv, Named, ByName
<1>4. ScrapeInv
  BY DEF ScrapeInv, Filed
<1>5. ListInv
  <2>1. Len(Order) \in Nat
    BY OrderAssumption
  <2>2. Range(ids) = {} /\ Len(listed) = 0
    BY DEF Range
  <2>3. QED
    BY <2>1, <2>2 DEF ListInv, IsInjective
<1>6. RowsInv
  BY DEF RowsInv, ByName
<1>7. FeedInv
  BY FeedAssumption DEF FeedInv, StaleMeansQuiet
<1>8. ThreadInv
  BY DEF ThreadInv, ConversationAsked, Looked, ByName
<1>9. QED
  BY <1>1, <1>2, <1>3, <1>4, <1>5, <1>6, <1>7, <1>8 DEF IInv, Base

LEMMA IInvStep == IInv /\ [Next]_vars => IInv'
BY PageStep, NavStep, CallStep, ScrapeStep, ListStep, RowsStep, FeedStep DEF IInv, Base

\* The pages, the navigation, the answer of each kind of tool and the posts of
\* the feed keep to one another through every call, retry, late load and cancel.
THEOREM ReadsInductive == Spec => []IInv
BY ReadsInit, IInvStep, PTL DEF Spec

\* The sections of an answer, the pages of a listing and its job ids are of what
\* was asked for (scrape_person, search_jobs, get_saved_jobs).
THEOREM ReadsFiledAsAsked == Spec => []FiledAsAsked
<1>1. IInv => FiledAsAsked
  BY DEF IInv, ScrapeInv, Filed, ListInv, FiledAsAsked
<1>2. QED
  BY <1>1, ReadsInductive, PTL

\* get_conversation clicks, and so marks as read, only the rows of the name asked for.
THEOREM ReadsOwnRowsClicked == Spec => []OwnRowsClicked
<1>1. IInv => OwnRowsClicked
  BY DEF IInv, RowsInv, OwnRowsClicked
<1>2. QED
  BY <1>1, ReadsInductive, PTL

\* get_feed gives up only after rounds in which no post came.
THEOREM ReadsStaleMeansQuiet == Spec => []StaleMeansQuiet
<1>1. IInv => StaleMeansQuiet
  BY DEF IInv, FeedInv
<1>2. QED
  BY <1>1, ReadsInductive, PTL

\* get_conversation reads only a conversation of the name asked for, or, when the
\* 1.2 s that _extract_conversation_thread_refs waits end before the app answers a
\* click, the one the app had open before.
THEOREM ReadsConversationAsked == Spec => []ConversationAsked
<1>1. Init => IInv /\ ThreadInv
  BY ReadsInit
<1>2. IInv /\ ThreadInv /\ [Next]_vars => IInv' /\ ThreadInv'
  BY IInvStep, ThreadStep DEF IInv
<1>3. ThreadInv => ConversationAsked
  BY DEF ThreadInv
<1>4. QED
  BY <1>1, <1>2, <1>3, PTL DEF Spec

==============================================================================
