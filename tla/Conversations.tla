----------------------------- MODULE Conversations -----------------------------
(***************************************************************************)
(* get_inbox, search_conversations and get_conversation.  The sidebar has  *)
(* no links: each row is clicked and the route the messaging app then      *)
(* shows is taken for the row's thread (_extract_conversation_thread_refs).*)
(***************************************************************************)
EXTENDS ProfileScrape, SequencesExt

CONSTANTS
  Inbox,       \* LinkedIn: the threads of the inbox, newest first
  Found,       \* LinkedIn: the threads that a search for a member finds
  NameOf       \* the display name of each member

Thread(p, s) == [kind |-> "thread", who |-> p, sec |-> s]
Threads == {Thread(p, s) : p \in Person, s \in Section}

ASSUME ConversationAssumption ==
  /\ Inbox \in Seq(Threads)
  /\ Found \in [Person -> Seq(Threads)]
  /\ None \notin Threads
  /\ None \notin {NameOf[p] : p \in Person}

VARIABLES
  name,     \* the display name read from the profile
  index,    \* index: which of a member's threads
  shown,    \* the page whose text the answer has
  rows,     \* the conversation rows still to click
  open,     \* the thread route of the messaging app
  before,   \* location.href before the click
  coming,   \* the thread the app is about to show
  refs,     \* the rows with the threads taken for theirs
  clicked,  \* history: the rows clicked, which marks them as read
  opened,   \* history: the thread the app had open by itself, before any click
  slow      \* history: a route was taken while a click was not yet answered

convVars == <<name, index, shown, rows, open, before, coming, refs, clicked,
             opened, slow>>

Route == Threads \union {None}

ConversationTypeOK ==
  /\ name \in {NameOf[p] : p \in Person} \union {None}
  /\ index \in Nat
  /\ shown \in Page \union {None}
  /\ rows \in Seq(Threads)
  /\ open \in Route /\ before \in Route /\ coming \in Route
  /\ refs \in Seq([row : Threads, thread : Threads])
  /\ clicked \subseteq Threads
  /\ opened \in Route /\ slow \in BOOLEAN

ConversationInit ==
  /\ name = None /\ index = 0 /\ shown = None /\ rows = <<>>
  /\ open = None /\ before = None /\ coming = None
  /\ refs = <<>> /\ clicked = {} /\ opened = None /\ slow = FALSE

NoConversation ==
  /\ name' = None /\ index' = 0 /\ shown' = None /\ rows' = <<>>
  /\ open' = None /\ before' = None /\ coming' = None
  /\ refs' = <<>> /\ clicked' = {} /\ opened' = None /\ slow' = FALSE

Steps(p) == pc' = p /\ UNCHANGED <<who, status, done, back, queue, again, got>>

\* A call that ends leaves the browser on the thread opened last.
Ends(s) ==
  /\ End(s)
  /\ page' = IF open # None THEN open ELSE page
  /\ UNCHANGED <<dialog, late, convVars>>

\* get_inbox; the answer waits for nothing but the rows.
StartInbox ==
  /\ pc = "idle"
  /\ who' = None /\ done' = <<>> /\ status' = "running" /\ back' = "answer"
  /\ NoConversation
  /\ Goto(Plain("inbox"))
  /\ pc' = "messages"

\* search_conversations for what the threads with p contain.
StartSearch(p) ==
  /\ Begin(p)
  /\ back' = "answer"
  /\ NoConversation
  /\ Goto(About("search", p))
  /\ pc' = "messages"

\* get_conversation(thread_id)
StartThread(t) ==
  /\ Begin(t.who)
  /\ back' = "thread"
  /\ NoConversation
  /\ Goto(t)
  /\ pc' = "thread"

\* get_conversation(linkedin_username, index)
StartConversation(p, i) ==
  /\ Begin(p)
  /\ back' = "thread"
  /\ name' = None /\ shown' = None /\ rows' = <<>>
  /\ open' = None /\ before' = None /\ coming' = None
  /\ refs' = <<>> /\ clicked' = {} /\ opened' = None /\ slow' = FALSE /\ index' = i
  /\ Goto(Profile(p, Main))
  /\ pc' = "named"

\* The name on whatever profile this is.
NameFound ==
  /\ pc = "named" /\ nav = "arrived"
  /\ page.kind = "profile" /\ page.who # None
  /\ name' = NameOf[page.who]
  /\ Goto(Plain("inbox"))
  /\ Steps("messages")
  /\ UNCHANGED <<index, shown, rows, open, before, coming, refs, clicked, opened, slow>>

\* Another page has no name, or a first line that no row bears.
NameMissing ==
  /\ pc = "named" /\ nav = "arrived"
  /\ page.kind # "profile"
  /\ \/ Goto(Plain("inbox")) /\ Steps("messages") /\ UNCHANGED convVars
     \/ Ends("raised")

\* _wait_for_messaging_paint, and the text of the answer.
Painted ==
  /\ pc = "messages" /\ nav = "arrived"
  /\ ClosesModal
  /\ shown' = page
  /\ nav' = "idle"
  /\ Steps("labels")
  /\ UNCHANGED <<goal, name, index, rows, open, before, coming, refs, clicked, opened, slow>>

ByName == back = "thread"

\* The empty shell: a verdict of its own, or no conversation found.
Unpainted ==
  /\ pc = "messages" /\ nav = "arrived"
  /\ Ends(IF ByName THEN "raised" ELSE "messaging_route_empty")

\* search_conversations: the route as a raw stream of data.
RawStream ==
  /\ pc = "labels" /\ ~ByName /\ who # None
  /\ Ends("unavailable")

\* What the sidebar holds: the newest, more of them the further it is scrolled,
\* or what a search found, which may be nothing.
Sidebar ==
  IF page.kind \in {"inbox", "thread"} THEN {SubSeq(Inbox, 1, n) : n \in 0..Len(Inbox)}
  ELSE IF page.kind = "search"
       THEN {<<>>, Found[page.who]}
  ELSE {<<>>}

\* The app may have opened its first thread by itself.
Labels ==
  /\ pc = "labels"
  /\ \E s \in Sidebar :
       /\ rows' = s
       /\ open' \in IF page.kind = "thread" THEN {page}
                    ELSE {None} \union (IF s = <<>> THEN {} ELSE {Head(s)})
  /\ refs' = <<>> /\ coming' = None /\ opened' = open' /\ slow' = FALSE
  /\ Steps("rows")
  /\ UNCHANGED <<pageVars, navVars, name, index, shown, before, clicked>>

\* A mistake: the rows of all members are clicked.
AnyRow(row) == TRUE

\* Only rows whose label is the name are clicked.
Wanted(row) == ByName => NameOf[row.who] = name

Click ==
  /\ pc = "rows" /\ rows # <<>>
  /\ Wanted(Head(rows))
  /\ before' = open
  /\ coming' = Head(rows)
  /\ clicked' = clicked \union {Head(rows)}
  /\ Steps("click")
  /\ UNCHANGED <<pageVars, navVars, name, index, shown, rows, open, refs, opened, slow>>

\* A row of somebody else, or one without the element that takes the click.
RowSkipped ==
  /\ pc = "rows" /\ rows # <<>>
  /\ rows' = Tail(rows)
  /\ UNCHANGED <<callVars, scrapeVars, pageVars, navVars>>
  /\ UNCHANGED <<name, index, shown, open, before, coming, refs, clicked, opened, slow>>

\* The app shows the thread clicked last.
Opens ==
  /\ pc \in {"rows", "click"} /\ coming # None
  /\ open' = coming /\ coming' = None
  /\ UNCHANGED <<callVars, scrapeVars, pageVars, navVars>>
  /\ UNCHANGED <<name, index, shown, rows, before, refs, clicked, opened, slow>>

\* t is taken for the thread of the row.
Takes(t) ==
  /\ refs' = IF t = None THEN refs ELSE Append(refs, [row |-> Head(rows), thread |-> t])
  /\ rows' = Tail(rows)
  /\ slow' = (slow \/ coming # None)
  /\ Steps("rows")
  /\ UNCHANGED <<pageVars, navVars, name, index, shown, open, before, coming, clicked, opened>>

\* A mistake: the route is the one from before the click.
CapturedBefore == pc = "click" /\ Takes(before)

\* The route has changed, or the twelve waits of 100 ms are over and the app may
\* still be about to show the thread: whatever thread the route names is the
\* row's.
Captured == pc = "click" /\ Takes(open)

\* A late load takes the document the rows are clicked in.
RowsLost ==
  /\ pc \in {"rows", "click"} /\ late # None
  /\ Load(late, {})
  /\ late' = None
  /\ End("raised")
  /\ UNCHANGED convVars

RowsAnswered ==
  /\ pc = "rows" /\ rows = <<>> /\ ~ByName
  /\ Ends("answered")

\* Nothing in the inbox: once more with LinkedIn's search.
Falls ==
  /\ pc = "rows" /\ rows = <<>> /\ ByName
  /\ refs = <<>> /\ goal.kind = "inbox"
  /\ page' = IF open # None THEN open ELSE page
  /\ nav' = "first" /\ goal' = About("search", who) /\ late' = None
  /\ Steps("messages")
  /\ UNCHANGED <<dialog, convVars>>

NotFound ==
  /\ pc = "rows" /\ rows = <<>> /\ ByName
  /\ index >= Len(refs)
  /\ refs = <<>> => goal.kind # "inbox"
  /\ Ends("raised")

OpensThread ==
  /\ pc = "rows" /\ rows = <<>> /\ ByName
  /\ index < Len(refs)
  /\ page' = IF open # None THEN open ELSE page
  /\ nav' = "first" /\ goal' = refs[index + 1].thread /\ late' = None
  /\ Steps("thread")
  /\ UNCHANGED <<dialog, convVars>>

ConversationRead ==
  /\ pc = "thread" /\ nav = "arrived"
  /\ shown' = page
  /\ End("answered")
  /\ UNCHANGED <<pageVars, name, index, rows, open, before, coming, refs, clicked, opened, slow>>

Converses ==
  \/ NameFound
  \/ NameMissing
  \/ Painted
  \/ Unpainted
  \/ RawStream
  \/ Labels
  \/ Click
  \/ RowSkipped
  \/ Opens
  \/ Captured
  \/ RowsLost
  \/ RowsAnswered
  \/ Falls
  \/ NotFound
  \/ OpensThread
  \/ ConversationRead

=============================================================================
