------------------------------- MODULE FeedScroll -------------------------------
(***************************************************************************)
(* get_feed: the feed is scrolled until enough posts are captured, which   *)
(* listener tasks take from LinkedIn's responses while the loop waits.     *)
(* A round without new posts is stale; a few of them end the scrolling.    *)
(***************************************************************************)
EXTENDS ProfileScrape

CONSTANTS
  MaxScrolls,  \* 12
  MaxStale,    \* 3
  BatchWait,   \* 6
  Posts        \* bound on the posts LinkedIn sends

ASSUME FeedAssumption == {MaxScrolls, MaxStale, BatchWait} \subseteq Nat \ {0} /\ Posts \in Nat

VARIABLES
  want,     \* num_posts
  captured, \* len(captured_urls)
  reading,  \* posts in reads that are about to end
  stuck,    \* posts in reads that outlast a drain
  scrolls,  \* the rounds begun
  ticks,    \* the seconds of this round
  count,    \* captured when the round began
  stale,    \* stale_count
  lately    \* history: the round of the last response with posts that was read at once

feedVars == <<want, captured, reading, stuck, scrolls, ticks, count, stale, lately>>

FeedTypeOK ==
  /\ want \in Nat /\ {captured, reading, stuck, count} \subseteq 0..Posts
  /\ scrolls \in 0..MaxScrolls /\ ticks \in 0..BatchWait /\ stale \in 0..MaxStale
  /\ lately \in 0..MaxScrolls + 1

FeedInit ==
  /\ want = 0 /\ captured = 0 /\ reading = 0 /\ stuck = 0
  /\ scrolls = 0 /\ ticks = 0 /\ count = 0 /\ stale = 0 /\ lately = 0

NoFeed ==
  /\ want' = 0 /\ captured' = 0 /\ reading' = 0 /\ stuck' = 0
  /\ scrolls' = 0 /\ ticks' = 0 /\ count' = 0 /\ stale' = 0 /\ lately' = 0

\* The listener is there before the navigation.
StartFeed(n) ==
  /\ pc = "idle"
  /\ who' = None /\ done' = <<>> /\ status' = "running"
  /\ want' = n /\ captured' = 0 /\ reading' = 0 /\ stuck' = 0
  /\ scrolls' = 0 /\ ticks' = 0 /\ count' = 0 /\ stale' = 0 /\ lately' = 0
  /\ Goto(Plain("feed"))
  /\ pc' = "feed"

Looping == pc \in {"feed", "wheel", "tick", "posts"}

FeedSteps(p) == pc' = p /\ UNCHANGED <<who, status, done, scrapeVars>>

\* A response with a post; its body is read by a task.  One that comes when the
\* last tick of a round is over belongs to the next.
Arrives ==
  /\ Looping /\ captured + reading + stuck < Posts
  /\ \/ /\ reading' = reading + 1
        /\ lately' = IF pc \in {"feed", "tick"} THEN scrolls ELSE scrolls + 1
        /\ UNCHANGED stuck
     \/ stuck' = stuck + 1 /\ UNCHANGED <<reading, lately>>
  /\ UNCHANGED <<callVars, scrapeVars, pageVars, navVars>>
  /\ UNCHANGED <<want, captured, scrolls, ticks, count, stale>>

\* A task ends while the loop waits for something else.
ReadEnds ==
  /\ Looping
  /\ \/ reading > 0 /\ reading' = reading - 1 /\ UNCHANGED stuck
     \/ stuck > 0 /\ stuck' = stuck - 1 /\ UNCHANGED reading
  /\ captured' = captured + 1
  /\ UNCHANGED <<callVars, scrapeVars, pageVars, navVars>>
  /\ UNCHANGED <<want, scrolls, ticks, count, stale, lately>>

\* The top of the loop: no await since the last drain.
Round(n) ==
  /\ count' = captured'
  /\ FeedSteps(IF captured' >= want \/ n = MaxScrolls \/ stale' = MaxStale
               THEN "posts" ELSE "wheel")

FeedShown ==
  /\ pc = "feed" /\ nav = "arrived"
  /\ ClosesModal
  /\ nav' = "idle"
  /\ UNCHANGED <<goal, want, captured, reading, stuck, scrolls, ticks, stale, lately>>
  /\ Round(0)

Wheel ==
  /\ pc = "wheel"
  /\ scrolls' = scrolls + 1 /\ ticks' = 0
  /\ FeedSteps("tick")
  /\ UNCHANGED <<pageVars, navVars, want, captured, reading, stuck, count, stale, lately>>

\* A mistake: the tasks are left to end when they will.
DrainNothing == UNCHANGED <<captured, reading>>

\* At most a second for the reads in flight.
Drain == captured' = captured + reading /\ reading' = 0

Tick ==
  /\ pc = "tick"
  /\ Drain
  /\ ticks' = ticks + 1
  /\ \/ captured' > count /\ stale' = 0 /\ Round(scrolls)
     \/ captured' = count /\ ticks' = BatchWait /\ stale' = stale + 1 /\ Round(scrolls)
     \/ captured' = count /\ ticks' < BatchWait /\ FeedSteps("tick") /\ UNCHANGED <<count, stale>>
  /\ UNCHANGED <<pageVars, navVars, want, stuck, scrolls, lately>>

\* Reads that end within the last 0.2 s count; the others are cancelled.
FeedRead ==
  /\ pc = "posts"
  /\ captured' \in captured..captured + reading
  /\ reading' = 0 /\ stuck' = 0
  /\ End("answered")
  /\ UNCHANGED <<pageVars, want, scrolls, ticks, count, stale, lately>>

\* extract_feed keeps what is no LinkedInScraperException as an error.
FeedFails ==
  /\ \/ pc = "feed" /\ nav \in {"arrived", "broken"}
     \/ pc \in {"wheel", "tick", "posts"}
  /\ reading' = 0 /\ stuck' = 0
  /\ End("failed")
  /\ UNCHANGED <<pageVars, want, captured, scrolls, ticks, count, stale, lately>>

Feeds ==
  \/ Arrives
  \/ ReadEnds
  \/ FeedShown
  \/ Wheel
  \/ Tick
  \/ FeedRead
  \/ FeedFails

=============================================================================
