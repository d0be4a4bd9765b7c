--------------------------- MODULE LinkedInToolsProofs ---------------------------
(***************************************************************************)
(* Theorems of LinkedInTools for any members, sections, names and number   *)
(* of calls: what a refusal means, that a call writes once, whom it        *)
(* invites, and that the write gate holds.                                 *)
(***************************************************************************)
EXTENDS LinkedInTools, TLAPS

\* Before these steps a call has written nothing but a note into a dialog.
Before == {"classify", "accept", "more", "gate", "probe", "submit", "press", "named", "href", "surface", "pick", "box", "match", "type"}

\* A scrape goes on with one of these.
Backs == {"idle", "answer", "classify", "accepted", "sent"}

\* While a call runs it has no answer.
Running == pc # "idle" => status = "running"

\* The history is a sequence.
Ordered == \E S : done \in Seq(S)

\* Nothing has been done but typing a note, or sending an invitation unseen.
Noted == \A i \in DOMAIN done : done[i].kind = "note"
Unsure == \A i \in DOMAIN done : done[i].kind \in {"note", "unseen"}

\* Where a call may have written, and where it cannot have.
Untouched ==
  /\ back \in Backs
  /\ pc \in Before => Noted
  /\ pc = "scrape" /\ back = "classify" => Noted
  /\ pc = "send" => \A i \in DOMAIN done : done[i].kind \in {"note", "typed"}
  /\ pc = "enter" => \A i \in DOMAIN done :
       done[i].kind = "note" \/ (done[i].kind = "unseen" /\ i = Len(done))
  /\ pc = "unsent" \/ (pc = "pressed" /\ dialog = "upsell") => Unsure

\* Of two writes the first is an invitation taken for not sent.
Once ==
  \A i, j \in DOMAIN done :
    i < j /\ {done[i].kind, done[j].kind} \subseteq Written =>
      j = i + 1 /\ done[i].kind = "unseen" /\ done[j].kind \in {"invite", "unseen"}

\* The invariant behind RefusedUntouched and OneWrite.
EffectInv == Ordered /\ Running /\ Untouched /\ Once /\ RefusedUntouched

\* A dialog belongs to an invitation page.
DialogOnInvite == dialog # "none" => page.kind = "invite"

\* The page on its way and the one that may still come are profiles.
ProfilesOnly == goal.kind = "profile" /\ (late # None => late.kind = "profile")

\* Only these steps have a navigation under way.
Still == pc \notin {"scrape", "probe", "submit", "named", "surface"} => nav = "idle"

\* From the first reading to the gate nothing but profiles is loaded.
Reading ==
  /\ back \in Backs
  /\ pc \in {"scrape", "classify"} /\ (nav # "idle" \/ \E s \in Section : got[s] # None)
       => ProfilesOnly
  /\ pc \in {"more", "gate"} => ProfilesOnly

\* At the gate an anchor was seen on a profile, so no old dialog is open.
GateClean == pc \in {"more", "gate"} /\ seen => dialog = "none"

\* From the gate to the button the dialog is the one of the member asked for.
Submitting ==
  pc \in {"submit", "press", "enter"} =>
    /\ goal = About("invite", who)
    /\ late # None => late = goal
    /\ dialog # "none" => page = goal

\* The invariant behind InvitesRequested.
GateInv ==
  DialogOnInvite /\ Still /\ Reading /\ GateClean /\ Submitting /\ InvitesRequested

\* Nobody's user name is longer than that of p and starts with it.
Unprefixed(p) == \A q \in Person : <<p, q>> \notin Longer

\* LinkedIn shows a follow-only member as one, and when no user name starts with
\* his the anchor that opened the gate was not that of such a member.
FollowInv ==
  /\ rel \in [Person -> Relation] /\ shown \in [Person -> Relation]
  /\ \A p \in Person : rel[p] = "follow" => shown[p] = "follow"
  /\ who \in Person /\ Unprefixed(who) =>
       /\ pc \in {"more", "gate"} /\ seen => rel[who] # "follow"
       /\ pc \in {"submit", "press", "enter"} => rel[who] # "follow"

\* Where a message is under way on a compose page.
Composing == {"surface", "pick", "box", "match", "type", "send", "visible"}

\* A page that belongs to the member asked for, or to nobody.
Ours(p) ==
  \/ p.kind \in {"other", "wall"} /\ p.who = None
  \/ p.kind \in {"profile", "invite"} /\ p.who = who

\* The compose page of p holds the name asked for.
ReachedBy(p) == MatchesName(who) \intersect (Listed \union {p}) # {}

\* What FreshWritesRequested says of each effect.
Reaches(e) == e.who = who \/ (e.kind \in {"typed", "message"} /\ ReachedBy(e.who))
Aimed == \A i \in DOMAIN done : Reaches(done[i])

\* In the first call everything loaded before the compose page is of that kind,
ReadsOurs == Ours(page) /\ Ours(goal) /\ (late # None => Ours(late))

\* and a compose page is the one navigated to, or the recipient picked on it.
Composes ==
  /\ goal.kind \in {"compose", "picker"}
  /\ late # None => late = goal
  /\ \/ Ours(page)
     \/ page = goal
     \/ goal.kind = "picker" /\ page.kind = "compose" /\ page.who \in MatchesName(who)
  /\ pc \in {"match", "type", "send"} /\ goal.kind = "compose" => page = goal
  /\ pc \in {"type", "send"} /\ goal.kind = "compose" => ReachedBy(goal.who)

\* The invariant behind FreshWritesRequested.
FreshInv ==
  /\ calls \in Nat
  /\ calls = 0 => pc = "idle" /\ page = Other /\ late = None /\ goal = Other
  /\ calls = 1 =>
       /\ who \in Person /\ name \in {None, who}
       /\ Aimed
       /\ pc \notin Composing \union {"idle"} => ReadsOurs
       /\ pc \in Composing => Composes

-----------------------------------------------------------------------------
\* An invite anchor in the signals was read on a profile.
LEMMA InviteOnProfile ==
  ASSUME NEW p, NEW menu \in BOOLEAN, NEW sig \in Signals(p, menu), sig.invite
  PROVE  OnProfile
<1>1. sig # Nothing
  BY DEF Nothing
<1>. QED
  BY <1>1 DEF Signals

\* An anchor in the signals was read on a profile and, when no name starts with
\* p's, it is the anchor of the member asked for.
LEMMA SignalOnProfile ==
  ASSUME NEW p \in Person, NEW menu \in BOOLEAN, NEW sig \in Signals(p, menu), sig.invite
  PROVE  /\ OnProfile
         /\ Unprefixed(p) => shown[p] \in {"open", "hidden"}
<1>1. sig # Nothing
  BY DEF Nothing
<1>2. PICK row \in IF OnProfile THEN Row(shown[page.who]) ELSE {}, i \in Anchored(p, menu) :
        sig = [edit |-> shown[page.who] = "self" /\ page.who = p,
               invite |-> i,
               incoming |-> shown[page.who] = "incoming",
               anchor |-> row[1], compose |-> row[2], button |-> row[3]]
  BY <1>1 DEF Signals
<1>3. OnProfile /\ i
  BY <1>2
<1>4. ASSUME Unprefixed(p)
      PROVE  p \in Exposed(menu)
  <2>1. MatchesAnchor(p) = {p}
    BY <1>4 DEF MatchesAnchor, Unprefixed
  <2>. QED
    BY <1>3, <2>1 DEF Anchored
<1>. QED
  BY <1>3, <1>4 DEF Exposed

\* One more effect at the end of the history.
LEMMA Appended ==
  ASSUME Ordered, NEW e, done' = Append(done, e)
  PROVE  /\ Ordered'
         /\ Len(done) \in Nat /\ Len(done') = Len(done) + 1
         /\ DOMAIN done = 1..Len(done) /\ DOMAIN done' = 1..(Len(done) + 1)
         /\ \A i \in DOMAIN done : done'[i] = done[i]
         /\ done'[Len(done) + 1] = e
<1>1. PICK S : done \in Seq(S)
  BY DEF Ordered
<1>2. done \in Seq(S \union {e}) /\ e \in S \union {e}
  BY <1>1
<1>3. done' \in Seq(S \union {e})
  BY <1>2
<1>. QED
  BY <1>2, <1>3 DEF Ordered

\* What all effects and a new one have in common.
LEMMA KindsAppended ==
  ASSUME Ordered, NEW e, done' = Append(done, e),
         NEW K, \A i \in DOMAIN done : done[i].kind \in K, e.kind \in K
  PROVE  \A i \in DOMAIN done' : done'[i].kind \in K
<1>. SUFFICES ASSUME NEW i \in DOMAIN done' PROVE done'[i].kind \in K
  OBVIOUS
<1>1. i \in DOMAIN done \/ i = Len(done) + 1
  BY Appended
<1>. QED
  BY <1>1, Appended

\* A new write follows none, or one taken for not sent.
LEMMA OnceAppended ==
  ASSUME Ordered, Once, NEW e, done' = Append(done, e),
         e.kind \in Written =>
           \A i \in DOMAIN done : done[i].kind \in Written =>
             i = Len(done) /\ done[i].kind = "unseen" /\ e.kind \in {"invite", "unseen"}
  PROVE  Ordered' /\ Once'
<1>1. Ordered'
  BY Appended
<1>2. ASSUME NEW i \in DOMAIN done', NEW j \in DOMAIN done', i < j,
             done'[i].kind \in Written, done'[j].kind \in Written
      PROVE  j = i + 1 /\ done'[i].kind = "unseen" /\ done'[j].kind \in {"invite", "unseen"}
  <2>1. i \in DOMAIN done /\ done'[i] = done[i]
    BY <1>2, Appended
  <2>2. CASE j \in DOMAIN done
    BY <1>2, <2>1, <2>2, Appended DEF Once
  <2>3. CASE j = Len(done) + 1
    BY <1>2, <2>1, <2>3, Appended
  <2>. QED
    BY <1>2, <2>2, <2>3, Appended
<1>. QED
  BY <1>1, <1>2 DEF Once

-----------------------------------------------------------------------------
(***************************************************************************)
(* What a call has done, step by step.                                     *)
(***************************************************************************)

\* No navigation opens the Premium upsell.
LEMMA NavigationEffect ==
  ASSUME EffectInv, Navigates(Invitable), UNCHANGED <<callVars, scrapeVars>>
  PROVE  EffectInv'
<1>1. dialog' = dialog \/ dialog' # "upsell"
  BY DEF Navigates, Lands, Deadline, DeadlineAgain, GotoFails, BarrierCheck, LateLoad,
         Load, Stays, pageVars
<1>. QED
  BY <1>1 DEF EffectInv, Ordered, Noted, Unsure, Running, Untouched, Once, Backs, Before, Written, RefusedUntouched, Refusal, callVars, scrapeVars

\* Reading a profile does nothing to anybody.
LEMMA ScrapeEffect ==
  ASSUME EffectInv, Scrapes
  PROVE  EffectInv'
<1>. USE DEF EffectInv, Ordered, Noted, Unsure, Running, Untouched, Once, Backs, Before, Written, RefusedUntouched, Refusal, callVars, scrapeVars, pageVars, navVars
<1>1. CASE ReadSection
  BY <1>1 DEF ReadSection, Goto, Stays
<1>2. CASE TextRead
  BY <1>2 DEF TextRead, Arrived, ClosesModal
<1>3. CASE ChromeOnly
  BY <1>3 DEF ChromeOnly, Arrived, ClosesModal
<1>4. CASE SectionLost
  BY <1>4 DEF SectionLost, ClosesModal
<1>5. CASE ScrapeEnds
  BY <1>5 DEF ScrapeEnds
<1>6. CASE Throttled
  BY <1>6 DEF Throttled, End
<1>7. CASE Raises
  BY <1>7 DEF Raises, End
<1>8. CASE Cancel
  BY <1>8 DEF Cancel, End
<1>9. CASE Answer
  BY <1>9 DEF Answer, End
<1>. QED
  BY <1>1, <1>2, <1>3, <1>4, <1>5, <1>6, <1>7, <1>8, <1>9 DEF Scrapes

\* connect_with_person writes at Accept and at Send, and refuses before them.
LEMMA ConnectEffect ==
  ASSUME EffectInv, Connects
  PROVE  EffectInv'
<1>. USE DEF EffectInv, Ordered, Noted, Unsure, Running, Untouched, Once, Backs, Before, Written, RefusedUntouched, Refusal, callVars, scrapeVars, pageVars, navVars, site, connectVars
<1>1. CASE Unreadable
  BY <1>1 DEF Unreadable, Answers, End
<1>2. CASE Settled
  BY <1>2 DEF Settled, Answers, End
<1>3. CASE Classified
  BY <1>3 DEF Classified, Continues
<1>4. CASE AcceptClicked
  <2>. DEFINE e == [kind |-> "accept", who |-> page.who]
  <2>1. /\ done' = Append(done, e) /\ pc' = "scrape" /\ back' = "accepted"
        /\ pc = "accept" /\ UNCHANGED status
    BY <1>4 DEF AcceptClicked, Scrape
  <2>2. Ordered' /\ Once'
    BY <2>1, OnceAppended
  <2>. QED
    BY <2>1, <2>2
<1>5. CASE AcceptMissed
  BY <1>5 DEF AcceptMissed, Answers, End
<1>6. CASE AcceptVerified
  BY <1>6 DEF AcceptVerified, Answers, End
<1>7. CASE AcceptUnseen
  BY <1>7 DEF AcceptUnseen, Scrape
<1>8. CASE AcceptUnseenAgain
  BY <1>8 DEF AcceptUnseenAgain, Answers, End
<1>9. CASE MoreMenu
  BY <1>9 DEF MoreMenu, Continues
<1>10. CASE Gate
  BY <1>10 DEF Gate, OpensInvite, Goto, Stays, Answers, End
<1>11. CASE Probe
  BY <1>11 DEF Probe, Dismisses, End
<1>12. CASE NoDialog
  BY <1>12 DEF NoDialog, Answers, End
<1>13. CASE NoteFilled
  <2>. DEFINE e == [kind |-> "note", who |-> page.who]
  <2>1. /\ pc = "submit" /\ pc' = "press" /\ UNCHANGED <<status, back>>
        /\ UNCHANGED done \/ done' = Append(done, e)
    BY <1>13 DEF NoteFilled
  <2>2. CASE UNCHANGED done
    BY <2>1, <2>2
  <2>3. CASE done' = Append(done, e)
    <3>1. Ordered' /\ Once'
      BY <2>1, <2>3, OnceAppended
    <3>2. Noted'
      BY <2>1, <2>3, KindsAppended
    <3>. QED
      BY <2>1, <3>1, <3>2
  <2>. QED
    BY <2>1, <2>2, <2>3
<1>14. CASE NoteUnfilled
  BY <1>14 DEF NoteUnfilled, Dismisses, End
<1>15. CASE Press
  <2>1. /\ pc = "press" /\ pc' = "pressed" /\ UNCHANGED <<status, back>>
        /\ (UNCHANGED done) \/ (Invites("invite") /\ dialog' = "none")
    BY <1>15 DEF Press, InvitesNobody, Pressed
  <2>2. CASE UNCHANGED done
    BY <2>1, <2>2
  <2>3. CASE Invites("invite") /\ dialog' = "none"
    <3>1. Ordered' /\ Once'
      BY <2>1, <2>3, OnceAppended DEF Invites
    <3>. QED
      BY <2>1, <2>3, <3>1
  <2>. QED
    BY <2>1, <2>2, <2>3
<1>16. CASE PressFails
  <2>1. /\ pc = "press" /\ pc' = "enter" /\ UNCHANGED <<status, back>>
        /\ (UNCHANGED done) \/ Invites("unseen")
    BY <1>16 DEF PressFails, InvitesNobody, Pressed
  <2>2. CASE UNCHANGED done
    BY <2>1, <2>2
  <2>3. CASE Invites("unseen")
    <3>1. Ordered' /\ Once'
      BY <2>1, <2>3, OnceAppended DEF Invites
    <3>2. \A i \in DOMAIN done' :
            done'[i].kind = "note" \/ (done'[i].kind = "unseen" /\ i = Len(done'))
      BY <2>1, <2>3, Appended DEF Invites
    <3>. QED
      BY <2>1, <3>1, <3>2
  <2>. QED
    BY <2>1, <2>2, <2>3
<1>17. CASE EnterSends
  <2>1. /\ pc = "enter" /\ UNCHANGED <<status, back>>
        /\ \/ Invites("invite") /\ pc' = "pressed" /\ dialog' = "none"
           \/ Invites("unseen") /\ pc' = "unsent"
    BY <1>17 DEF EnterSends, Pressed
  <2>2. CASE Invites("invite") /\ pc' = "pressed" /\ dialog' = "none"
    <3>1. Ordered' /\ Once'
      BY <2>1, <2>2, OnceAppended DEF Invites
    <3>. QED
      BY <2>1, <2>2, <3>1
  <2>3. CASE Invites("unseen") /\ pc' = "unsent"
    <3>1. Ordered' /\ Once'
      BY <2>1, <2>3, OnceAppended DEF Invites
    <3>2. Unsure'
      BY <2>1, <2>3, KindsAppended DEF Invites
    <3>. QED
      BY <2>1, <2>3, <3>1, <3>2
  <2>. QED
    BY <2>1, <2>2, <2>3
<1>18. CASE EnterFails
  BY <1>18 DEF EnterFails, InvitesNobody, Pressed, Swapped
<1>19. CASE Unsent
  BY <1>19 DEF Unsent, Dismisses, End
<1>20. CASE Upsell
  BY <1>20 DEF Upsell, Dismisses, End
<1>21. CASE Submitted
  BY <1>21 DEF Submitted, Scrape
<1>22. CASE Verified
  BY <1>22 DEF Verified, Answers, End
<1>23. CASE Propagate
  BY <1>23 DEF Propagate
<1>. QED
  BY <1>1, <1>2, <1>3, <1>4, <1>5, <1>6, <1>7, <1>8, <1>9, <1>10, <1>11, <1>12, <1>13, <1>14, <1>15, <1>16, <1>17, <1>18, <1>19, <1>20, <1>21, <1>22, <1>23 DEF Connects

\* send_message types and then sends, and refuses before it types.
LEMMA MessageEffect ==
  ASSUME EffectInv, Messages
  PROVE  EffectInv'
<1>. USE DEF EffectInv, Ordered, Noted, Unsure, Running, Untouched, Once, Backs, Before, Written, RefusedUntouched, Refusal, callVars, scrapeVars, pageVars, navVars, conversations, messageVars, Keeps
<1>1. CASE NameRead
  BY <1>1 DEF NameRead, Moves, ClosesModal
<1>2. CASE ComposeOpens
  BY <1>2 DEF ComposeOpens, Moves, Goto, Stays
<1>3. CASE NoCompose
  BY <1>3 DEF NoCompose, End
<1>4. CASE Surface
  BY <1>4 DEF Surface, Moves, ClosesModal
<1>5. CASE RecipientPicked
  BY <1>5 DEF RecipientPicked, Moves
<1>6. CASE NotPicked
  BY <1>6 DEF NotPicked, GivesUp, End
<1>7. CASE BoxFound
  BY <1>7 DEF BoxFound, Moves
<1>8. CASE NoBox
  BY <1>8 DEF NoBox, GivesUp, End
<1>9. CASE Matches
  BY <1>9 DEF Matches, Moves
<1>10. CASE DryRun
  BY <1>10 DEF DryRun, GivesUp, End
<1>11. CASE Mismatch
  BY <1>11 DEF Mismatch, GivesUp, End
<1>12. CASE Types
  <2>. DEFINE e == [kind |-> "typed", who |-> page.who]
  <2>1. /\ pc = "type" /\ pc' = "send" /\ UNCHANGED <<status, back>>
        /\ done' = Append(done, e)
    BY <1>12 DEF Types, Moves
  <2>2. Ordered' /\ Once'
    BY <2>1, OnceAppended
  <2>3. \A i \in DOMAIN done' : done'[i].kind \in {"note", "typed"}
    BY <2>1, KindsAppended
  <2>. QED
    BY <2>1, <2>2, <2>3
<1>13. CASE NoFocus
  BY <1>13 DEF NoFocus, GivesUp, End
<1>14. CASE Sends
  <2>. DEFINE e == [kind |-> "message", who |-> page.who]
  <2>1. /\ pc = "send" /\ pc' = "visible" /\ UNCHANGED <<status, back>>
        /\ done' = Append(done, e)
    BY <1>14 DEF Sends, Moves
  <2>2. Ordered' /\ Once'
    BY <2>1, OnceAppended
  <2>. QED
    BY <2>1, <2>2
<1>15. CASE SendsNothing
  BY <1>15 DEF SendsNothing, Moves
<1>16. CASE Sent
  BY <1>16 DEF Sent, End
<1>17. CASE NotSeen
  BY <1>17 DEF NotSeen, GivesUp, End
<1>. QED
  BY <1>1, <1>2, <1>3, <1>4, <1>5, <1>6, <1>7, <1>8, <1>9, <1>10, <1>11, <1>12, <1>13, <1>14, <1>15, <1>16, <1>17 DEF Messages

\* A call begins with nothing done.
LEMMA StartEffect ==
  ASSUME EffectInv, Start
  PROVE  EffectInv'
<1>1. /\ pc' \in {"scrape", "named"} /\ done' = <<>> /\ status' = "running"
      /\ back' \in Backs
  BY DEF Start, StartPerson, StartConnect, StartMessage, Begin, Scrape, NoScrape, Backs
<1>2. Ordered' /\ DOMAIN done' = {}
  BY <1>1 DEF Ordered
<1>. QED
  BY <1>1, <1>2 DEF EffectInv, Noted, Unsure, Running, Untouched, Once, Backs, Before, Written, RefusedUntouched, Refusal

\* The effect invariant holds in every state.
LEMMA Effects == Spec => []EffectInv
<1>1. Init => EffectInv
  BY DEF Init, PageInit, ScrapeInit, EffectInv, Ordered, Noted, Unsure, Running, Untouched, Once, Backs, Before, Written, RefusedUntouched, Refusal
<1>2. EffectInv /\ [Next]_vars => EffectInv'
  <2> SUFFICES ASSUME EffectInv, [Next]_vars PROVE EffectInv'
    OBVIOUS
  <2>1. CASE Start
    BY <2>1, StartEffect
  <2>2. CASE Navigates(Invitable) /\ UNCHANGED <<callVars, scrapeVars>>
    BY <2>2, NavigationEffect
  <2>3. CASE Scrapes
    BY <2>3, ScrapeEffect
  <2>4. CASE Connects
    BY <2>4, ConnectEffect
  <2>5. CASE Messages
    BY <2>5, MessageEffect
  <2>6. CASE UNCHANGED vars
    BY <2>6 DEF vars, callVars, scrapeVars, pageVars, EffectInv, Ordered, Noted, Unsure, Running, Untouched, Once, Backs, Before, Written, RefusedUntouched, Refusal
  <2>. QED
    BY <2>1, <2>2, <2>3, <2>4, <2>5, <2>6 DEF Next
<1>. QED
  BY <1>1, <1>2, PTL DEF Spec

\* connect_with_person and send_message: after an answer that refuses (already
\* connected, pending, connect unavailable, note limit, recipient not resolved,
\* confirmation required, ...) nothing was accepted, no message typed or sent,
\* and no invitation sent that the code saw go.
THEOREM RefusedUntouchedHolds == Spec => []RefusedUntouched
<1>1. EffectInv => RefusedUntouched
  BY DEF EffectInv
<1>. QED
  BY <1>1, Effects, PTL

-----------------------------------------------------------------------------
(***************************************************************************)
(* Whom an invitation goes to.                                             *)
(***************************************************************************)

\* A navigation shows what it was asked for, a page without a dialog, or keeps
\* what is there.
LEMMA NavigationGate ==
  ASSUME GateInv, Navigates(Invitable), UNCHANGED <<callVars, scrapeVars, connectVars>>
  PROVE  GateInv'
<1>. USE DEF GateInv, DialogOnInvite, Still, Reading, GateClean, Submitting, InvitesRequested, ProfilesOnly, Backs, callVars, scrapeVars, connectVars, pageVars, navVars, Load, Stays, About,
            Other, Wall, Plain
<1>1. CASE Lands(Invitable)
  BY <1>1 DEF Lands
<1>2. CASE Deadline(Invitable)
  BY <1>2 DEF Deadline
<1>3. CASE DeadlineAgain(Invitable)
  BY <1>3 DEF DeadlineAgain
<1>4. CASE GotoFails(Invitable)
  <2>1. /\ nav \in {"first", "retry"} /\ nav' # "idle"
        /\ UNCHANGED <<goal, late>>
    BY <1>4 DEF GotoFails
  <2>2. ASSUME NEW p \in {Other, Wall}, Load(p, Invitable)
        PROVE  dialog' = "none"
    BY <2>2
  <2>3. Stays \/ \E p \in {Other, Wall} : Load(p, Invitable)
    BY <1>4, Zenon DEF GotoFails
  <2>. QED
    BY <2>1, <2>2, <2>3
<1>5. CASE BarrierCheck
  BY <1>5 DEF BarrierCheck
<1>6. CASE LateLoad(Invitable)
  BY <1>6 DEF LateLoad
<1>. QED
  BY <1>1, <1>2, <1>3, <1>4, <1>5, <1>6 DEF Navigates

\* A scrape asks for profiles only.
LEMMA ScrapeGate ==
  ASSUME GateInv, Scrapes, UNCHANGED connectVars
  PROVE  GateInv'
<1>. USE DEF GateInv, DialogOnInvite, Still, Reading, GateClean, Submitting, InvitesRequested, ProfilesOnly, Backs, callVars, scrapeVars, pageVars, navVars, connectVars
<1>1. CASE ReadSection
  BY <1>1 DEF ReadSection, Goto, Stays, Profile
<1>2. CASE TextRead
  BY <1>2 DEF TextRead, Arrived, ClosesModal
<1>3. CASE ChromeOnly
  BY <1>3 DEF ChromeOnly, Arrived, ClosesModal
<1>4. CASE SectionLost
  BY <1>4 DEF SectionLost, ClosesModal
<1>5. CASE ScrapeEnds
  BY <1>5 DEF ScrapeEnds
<1>6. CASE Throttled
  BY <1>6 DEF Throttled, End
<1>7. CASE Raises
  BY <1>7 DEF Raises, End
<1>8. CASE Cancel
  BY <1>8 DEF Cancel, End
<1>9. CASE Answer
  BY <1>9 DEF Answer, End
<1>. QED
  BY <1>1, <1>2, <1>3, <1>4, <1>5, <1>6, <1>7, <1>8, <1>9 DEF Scrapes

\* Only Gate, with the anchor seen, leads to the button.
LEMMA ConnectGate ==
  ASSUME GateInv, Connects
  PROVE  GateInv'
<1>. USE DEF GateInv, DialogOnInvite, Still, Reading, GateClean, Submitting, InvitesRequested, ProfilesOnly, Backs, callVars, scrapeVars, pageVars, navVars, site, connectVars
<1>1. CASE Unreadable
  BY <1>1 DEF Unreadable, Answers, End
<1>2. CASE Settled
  BY <1>2 DEF Settled, Answers, End
<1>3. CASE Classified
  <2>1. PICK sig \in Signals(who, FALSE) :
          /\ seen' = sig.invite
          /\ \/ Detect(sig) = "incoming_request" /\ Continues("accept")
             \/ Detect(sig) = "follow_only" /\ Continues("more")
             \/ Detect(sig) \in {"connectable", "unavailable"} /\ Continues("gate")
    BY <1>3 DEF Classified
  <2>2. sig.invite => dialog = "none"
    BY InviteOnProfile DEF OnProfile
  <2>. QED
    BY <1>3, <2>1, <2>2, PageAssumption DEF Classified, Continues
<1>4. CASE AcceptClicked
  BY <1>4 DEF AcceptClicked, Scrape
<1>5. CASE AcceptMissed
  BY <1>5 DEF AcceptMissed, Answers, End
<1>6. CASE AcceptVerified
  BY <1>6 DEF AcceptVerified, Answers, End
<1>7. CASE AcceptUnseen
  BY <1>7 DEF AcceptUnseen, Scrape
<1>8. CASE AcceptUnseenAgain
  BY <1>8 DEF AcceptUnseenAgain, Answers, End
<1>9. CASE MoreMenu
  <2>1. seen' => seen \/ dialog = "none"
    BY <1>9, InviteOnProfile DEF MoreMenu, OnProfile
  <2>. QED
    BY <1>9, <2>1 DEF MoreMenu, Continues
<1>10. CASE Gate
  BY <1>10 DEF Gate, OpensInvite, Goto, Stays, About, Answers, End
<1>11. CASE Probe
  BY <1>11 DEF Probe, Dismisses, End
<1>12. CASE NoDialog
  BY <1>12 DEF NoDialog, Answers, End
<1>13. CASE NoteFilled
  BY <1>13 DEF NoteFilled
<1>14. CASE NoteUnfilled
  BY <1>14 DEF NoteUnfilled, Dismisses, End
<1>15. CASE Press
  BY <1>15 DEF Press, Invites, InvitesNobody, Pressed, Swapped, About
<1>16. CASE PressFails
  <2>1. /\ pc = "press" /\ pc' = "enter"
        /\ UNCHANGED <<who, page, late, nav, goal, seen, back, got>>
        /\ dialog' # "none" => dialog # "none"
    BY <1>16 DEF PressFails, Pressed, Swapped
  <2>2. (UNCHANGED done) \/ Invites("unseen")
    BY <1>16 DEF PressFails, InvitesNobody
  <2>3. InvitesRequested'
    <3>1. CASE UNCHANGED done
      BY <2>1, <3>1
    <3>2. CASE Invites("unseen")
      BY <2>1, <3>2 DEF Invites, About
    <3>. QED
      BY <2>2, <3>1, <3>2
  <2>. QED
    BY <2>1, <2>3
<1>17. CASE EnterSends
  BY <1>17 DEF EnterSends, Invites, Pressed, About
<1>18. CASE EnterFails
  BY <1>18 DEF EnterFails, InvitesNobody, Pressed, Swapped
<1>19. CASE Unsent
  BY <1>19 DEF Unsent, Dismisses, End
<1>20. CASE Upsell
  BY <1>20 DEF Upsell, Dismisses, End
<1>21. CASE Submitted
  BY <1>21 DEF Submitted, Scrape
<1>22. CASE Verified
  BY <1>22 DEF Verified, Answers, End
<1>23. CASE Propagate
  BY <1>23 DEF Propagate
<1>. QED
  BY <1>1, <1>2, <1>3, <1>4, <1>5, <1>6, <1>7, <1>8, <1>9, <1>10, <1>11, <1>12, <1>13, <1>14, <1>15, <1>16, <1>17, <1>18, <1>19, <1>20, <1>21, <1>22, <1>23 DEF Connects

\* send_message invites nobody.
LEMMA MessageGate ==
  ASSUME GateInv, Messages, UNCHANGED connectVars
  PROVE  GateInv'
<1>. USE DEF GateInv, DialogOnInvite, Still, Reading, GateClean, Submitting, InvitesRequested, ProfilesOnly, Backs, callVars, scrapeVars, pageVars, navVars, conversations, messageVars, connectVars, Keeps
<1>1. CASE NameRead
  BY <1>1 DEF NameRead, Moves, ClosesModal
<1>2. CASE ComposeOpens
  BY <1>2 DEF ComposeOpens, Moves, Goto, Stays
<1>3. CASE NoCompose
  BY <1>3 DEF NoCompose, End
<1>4. CASE Surface
  BY <1>4 DEF Surface, Moves, ClosesModal
<1>5. CASE RecipientPicked
  BY <1>5 DEF RecipientPicked, Moves
<1>6. CASE NotPicked
  BY <1>6 DEF NotPicked, GivesUp, End
<1>7. CASE BoxFound
  BY <1>7 DEF BoxFound, Moves
<1>8. CASE NoBox
  BY <1>8 DEF NoBox, GivesUp, End
<1>9. CASE Matches
  BY <1>9 DEF Matches, Moves
<1>10. CASE DryRun
  BY <1>10 DEF DryRun, GivesUp, End
<1>11. CASE Mismatch
  BY <1>11 DEF Mismatch, GivesUp, End
<1>12. CASE Types
  BY <1>12 DEF Types, Moves
<1>13. CASE NoFocus
  BY <1>13 DEF NoFocus, GivesUp, End
<1>14. CASE Sends
  BY <1>14 DEF Sends, Moves
<1>15. CASE SendsNothing
  BY <1>15 DEF SendsNothing, Moves
<1>16. CASE Sent
  BY <1>16 DEF Sent, End
<1>17. CASE NotSeen
  BY <1>17 DEF NotSeen, GivesUp, End
<1>. QED
  BY <1>1, <1>2, <1>3, <1>4, <1>5, <1>6, <1>7, <1>8, <1>9, <1>10, <1>11, <1>12, <1>13, <1>14, <1>15, <1>16, <1>17 DEF Messages

\* A call begins by reading a profile; nobody is invited yet.
LEMMA StartGate ==
  ASSUME GateInv, Start
  PROVE  GateInv'
<1>. USE DEF GateInv, DialogOnInvite, Still, Reading, GateClean, Submitting, InvitesRequested, ProfilesOnly, Backs, Begin, NoScrape, Scrape, pageVars, navVars
<1>1. PICK p \in Person :
        \/ \E secs \in SUBSET Section : StartPerson(p, secs)
        \/ \E n \in BOOLEAN : StartConnect(p, n)
        \/ \E t \in Text, c \in BOOLEAN, u \in Urns : StartMessage(p, t, c, u) /\ NoScrape
  BY DEF Start
<1>2. /\ done' = <<>> /\ pc' \in {"scrape", "named"} /\ back' \in Backs
      /\ UNCHANGED <<page, dialog>>
  BY <1>1 DEF StartPerson, StartConnect, StartMessage, Goto, Stays
<1>3. pc' = "scrape" => nav' = "idle" /\ \A s \in Section : got'[s] = None
  BY <1>1 DEF StartPerson, StartConnect, StartMessage
<1>. QED
  BY <1>2, <1>3

\* The gate invariant holds in every state.
LEMMA Gates == Spec => []GateInv
<1>1. Init => GateInv
  BY DEF Init, PageInit, ScrapeInit, GateInv, DialogOnInvite, Still, Reading, GateClean, Submitting, InvitesRequested, ProfilesOnly, Backs
<1>2. GateInv /\ [Next]_vars => GateInv'
  <2> SUFFICES ASSUME GateInv, [Next]_vars PROVE GateInv'
    OBVIOUS
  <2>1. CASE Start
    BY <2>1, StartGate
  <2>2. CASE Navigates(Invitable) /\ UNCHANGED <<callVars, scrapeVars, connectVars>>
    BY <2>2, NavigationGate
  <2>3. CASE Scrapes /\ UNCHANGED connectVars
    BY <2>3, ScrapeGate
  <2>4. CASE Connects
    BY <2>4, ConnectGate
  <2>5. CASE Messages /\ UNCHANGED connectVars
    BY <2>5, MessageGate
  <2>6. CASE UNCHANGED vars
    BY <2>6 DEF vars, callVars, scrapeVars, pageVars, navVars, connectVars, GateInv, DialogOnInvite, Still, Reading, GateClean, Submitting, InvitesRequested, ProfilesOnly, Backs
  <2>. QED
    BY <2>1, <2>2, <2>3, <2>4, <2>5, <2>6 DEF Next
<1>. QED
  BY <1>1, <1>2, PTL DEF Spec

\* connect_with_person: an invitation goes to the member the call was asked
\* for, whatever navigations missed their deadline and whatever dialog an
\* earlier call left open.
THEOREM InvitesRequestedHolds == Spec => []InvitesRequested
<1>1. GateInv => InvitesRequested
  BY DEF GateInv
<1>. QED
  BY <1>1, Gates, PTL

\* A call accepts, invites or sends once, whatever fails between the click and
\* the verification; only an invitation taken for not sent goes a second time,
\* to the same member.
THEOREM OneWriteHolds == Spec => []OneWrite
<1>1. EffectInv /\ GateInv => OneWrite
  BY DEF EffectInv, Once, GateInv, InvitesRequested, OneWrite
<1>. QED
  BY <1>1, Effects, Gates, PTL

-----------------------------------------------------------------------------
(***************************************************************************)
(* The write gate.                                                         *)
(***************************************************************************)

\* A follow-only member is never seen with an invite anchor.
LEMMA FollowUnseen ==
  ASSUME FollowInv, who \in Person, Unprefixed(who),
         NEW menu \in BOOLEAN, NEW sig \in Signals(who, menu), sig.invite
  PROVE  rel[who] # "follow"
BY SignalOnProfile DEF FollowInv

\* The steps of connect_with_person that write to LinkedIn write to nobody who
\* is follow-only, and the gate opens for nobody who is.
LEMMA ConnectFollow ==
  ASSUME FollowInv, Connects
  PROVE  FollowInv'
<1>. USE DEF FollowInv, callVars, connectVars, site, Relation
<1>1. CASE Classified
  <2>1. PICK sig \in Signals(who, FALSE) :
          /\ seen' = sig.invite
          /\ \/ Detect(sig) = "incoming_request" /\ Continues("accept")
             \/ Detect(sig) = "follow_only" /\ Continues("more")
             \/ Detect(sig) \in {"connectable", "unavailable"} /\ Continues("gate")
    BY <1>1 DEF Classified
  <2>2. who \in Person /\ Unprefixed(who) /\ sig.invite => rel[who] # "follow"
    BY FollowUnseen
  <2>. QED
    BY <2>1, <2>2 DEF Continues
<1>2. CASE MoreMenu
  <2>1. who \in Person /\ Unprefixed(who) /\ seen' => seen \/ rel[who] # "follow"
    BY <1>2, FollowUnseen DEF MoreMenu
  <2>. QED
    BY <1>2, <2>1 DEF MoreMenu, Continues
<1>3. CASE Gate
  BY <1>3 DEF Gate, OpensInvite, Goto, Answers, End
<1>4. CASE AcceptClicked
  BY <1>4 DEF AcceptClicked, Scrape
<1>5. CASE (\E k : Invites(k)) /\ pc \in {"press", "enter"} /\ UNCHANGED <<who, seen>>
  BY <1>5 DEF Invites
<1>6. CASE Propagate
  BY <1>6 DEF Propagate
<1>7. CASE UNCHANGED site /\ UNCHANGED <<who, seen>>
           /\ pc' \in {"press", "enter"} /\ pc \in {"submit", "press", "enter"}
  BY <1>7
<1>8. CASE UNCHANGED site /\ pc' \notin {"more", "gate", "submit", "press", "enter"}
  BY <1>8
<1>. QED
  <2>1. Unreadable \/ Settled \/ AcceptMissed \/ AcceptVerified \/ AcceptUnseenAgain
          \/ NoDialog \/ Verified => UNCHANGED site /\ pc' = "idle"
    BY DEF Unreadable, Settled, AcceptMissed, AcceptVerified, AcceptUnseenAgain, NoDialog,
           Verified, Answers, End
  <2>2. Probe \/ NoteUnfilled \/ Unsent \/ Upsell => UNCHANGED site /\ pc' = "idle"
    BY DEF Probe, NoteUnfilled, Unsent, Upsell, Dismisses, End
  <2>3. AcceptUnseen \/ Submitted => UNCHANGED site /\ pc' = "scrape"
    BY DEF AcceptUnseen, Submitted, Scrape
  <2>4. NoteFilled => UNCHANGED site /\ UNCHANGED <<who, seen>> /\ pc = "submit" /\ pc' = "press"
    BY DEF NoteFilled
  <2>5. PressFails => /\ UNCHANGED <<who, seen>> /\ pc = "press" /\ pc' = "enter"
                      /\ UNCHANGED site \/ Invites("unseen")
    BY DEF PressFails, InvitesNobody, Pressed
  <2>6. EnterFails => UNCHANGED site /\ pc' \in {"unsent", "pressed"}
    BY DEF EnterFails, InvitesNobody, Pressed
  <2>7. Press => \/ Invites("invite") /\ pc = "press" /\ UNCHANGED <<who, seen>> /\ pc' = "pressed"
                 \/ UNCHANGED site /\ pc' = "pressed"
    BY DEF Press, InvitesNobody, Pressed
  <2>8. EnterSends => /\ Invites("invite") \/ Invites("unseen")
                      /\ pc = "enter" /\ UNCHANGED <<who, seen>> /\ pc' \in {"pressed", "unsent"}
    BY DEF EnterSends, Pressed
  <2>. QED
    BY <1>1, <1>2, <1>3, <1>4, <1>5, <1>6, <1>7, <1>8,
       <2>1, <2>2, <2>3, <2>4, <2>5, <2>6, <2>7, <2>8 DEF Connects

\* No other step leads to the gate or touches how members stand.
LEMMA OtherFollow ==
  ASSUME FollowInv, GateInv, UNCHANGED site,
         \/ Start
         \/ Navigates(Invitable) /\ UNCHANGED <<callVars, connectVars>>
         \/ Scrapes /\ UNCHANGED connectVars
         \/ Messages /\ UNCHANGED connectVars
  PROVE  FollowInv'
<1>. DEFINE Gated == {"more", "gate", "submit", "press", "enter"}
<1>1. CASE pc' \notin Gated
  BY <1>1 DEF FollowInv, site
<1>2. CASE UNCHANGED <<pc, who, seen>>
  BY <1>2 DEF FollowInv, site
<1>3. Start => pc' \notin Gated
  BY DEF Start, StartPerson, StartConnect, StartMessage, Scrape
<1>4. Scrapes => pc' \notin Gated \/ UNCHANGED <<pc, who>>
  BY DEF Scrapes, ReadSection, TextRead, ChromeOnly, SectionLost, ScrapeEnds, Throttled,
         Raises, Cancel, Answer, End, callVars, GateInv, Reading, Backs
<1>5. Messages => pc' \notin Gated
  <2>1. NotPicked \/ NoBox \/ DryRun \/ Mismatch \/ NoFocus \/ NotSeen => pc' \notin Gated
    BY DEF NotPicked, NoBox, DryRun, Mismatch, NoFocus, NotSeen, GivesUp, End
  <2>2. NoCompose \/ Sent => pc' \notin Gated
    BY DEF NoCompose, Sent, End
  <2>3. NameRead \/ ComposeOpens \/ Surface \/ RecipientPicked \/ BoxFound => pc' \notin Gated
    BY DEF NameRead, ComposeOpens, Surface, RecipientPicked, BoxFound, Moves
  <2>4. Matches \/ Types \/ Sends \/ SendsNothing => pc' \notin Gated
    BY DEF Matches, Types, Sends, SendsNothing, Moves
  <2>. QED
    BY <2>1, <2>2, <2>3, <2>4 DEF Messages
<1>. QED
  BY <1>1, <1>2, <1>3, <1>4, <1>5 DEF callVars, connectVars

\* The follow-only invariant holds in every state.
LEMMA Follows == Spec => [](GateInv /\ FollowInv)
<1>1. Init => FollowInv
  BY ToolsAssumption DEF Init, ScrapeInit, ConnectInit, FollowInv
<1>2. GateInv /\ FollowInv /\ [Next]_vars => FollowInv'
  <2> SUFFICES ASSUME GateInv, FollowInv, [Next]_vars PROVE FollowInv'
    OBVIOUS
  <2>1. CASE Connects
    BY <2>1, ConnectFollow
  <2>2. CASE UNCHANGED vars
    BY <2>2 DEF vars, callVars, connectVars, site, FollowInv
  <2>3. CASE Start
    BY <2>3, OtherFollow DEF Start
  <2>. QED
    BY <2>1, <2>2, <2>3, OtherFollow DEF Next
<1>. QED
  BY <1>1, <1>2, Gates, PTL DEF Spec

\* Only the accept, for a member shown as incoming, and the button and the Enter
\* key, for the member the gate let through, change how anybody stands.
LEMMA UninvitedStep ==
  ASSUME GateInv, FollowInv, [Next]_vars,
         NEW p \in Person, rel[p] = "follow", Unprefixed(p)
  PROVE  rel'[p] = "follow"
<1>. USE DEF site
<1>1. CASE UNCHANGED rel
  BY <1>1
<1>2. CASE AcceptClicked
  BY <1>2 DEF AcceptClicked, FollowInv
<1>3. CASE pc \in {"press", "enter"} /\ \E k : Invites(k)
  BY <1>3 DEF Invites, FollowInv, GateInv, Submitting, About
<1>4. Connects => UNCHANGED rel \/ AcceptClicked \/ (pc \in {"press", "enter"} /\ \E k : Invites(k))
  <2>1. Unreadable \/ Settled \/ AcceptMissed \/ AcceptVerified \/ AcceptUnseenAgain
          \/ NoDialog \/ Verified => UNCHANGED rel
    BY DEF Unreadable, Settled, AcceptMissed, AcceptVerified, AcceptUnseenAgain, NoDialog,
           Verified, Answers
  <2>2. Classified \/ MoreMenu \/ Gate => UNCHANGED rel
    BY DEF Classified, MoreMenu, Gate, Continues, OpensInvite, Answers
  <2>3. Probe \/ NoteUnfilled \/ Unsent \/ Upsell => UNCHANGED rel
    BY DEF Probe, NoteUnfilled, Unsent, Upsell, Dismisses
  <2>4. AcceptUnseen \/ Submitted \/ NoteFilled \/ Propagate => UNCHANGED rel
    BY DEF AcceptUnseen, Submitted, NoteFilled, Propagate
  <2>5. EnterFails => UNCHANGED rel
    BY DEF EnterFails, InvitesNobody
  <2>6. Press \/ PressFails \/ EnterSends
          => UNCHANGED rel \/ (pc \in {"press", "enter"} /\ \E k : Invites(k))
    BY DEF Press, PressFails, EnterSends, InvitesNobody
  <2>. QED
    BY <2>1, <2>2, <2>3, <2>4, <2>5, <2>6 DEF Connects
<1>5. ~Connects => UNCHANGED rel
  BY DEF Next, Start, vars
<1>. QED
  BY <1>1, <1>2, <1>3, <1>4, <1>5

\* The write gate of connect_with_person: a follow-only member is never invited,
\* with a note or without one, unless another member's user name starts with his.
THEOREM FollowOnlyUninvitedHolds == Spec => FollowOnlyUninvited
<1>1. GateInv /\ FollowInv /\ [Next]_vars
        => \A p \in Person :
             rel[p] = "follow" => rel'[p] = "follow" \/ \E q \in Person : <<p, q>> \in Longer
  BY UninvitedStep DEF Unprefixed
<1>. QED
  BY <1>1, Follows, PTL DEF Spec, FollowOnlyUninvited

-----------------------------------------------------------------------------
(***************************************************************************)
(* A browser in which no earlier call has left a page.                     *)
(***************************************************************************)

\* One more effect on the member asked for, or on a compose page with that name.
LEMMA AimedAppended ==
  ASSUME Ordered, Aimed, UNCHANGED who,
         NEW e, done' = Append(done, e), Reaches(e)
  PROVE  Aimed'
<1>1. ASSUME NEW i \in DOMAIN done'
      PROVE  \/ done'[i].who = who'
             \/ done'[i].kind \in {"typed", "message"} /\ ReachedBy(done'[i].who)
  <2>1. i \in DOMAIN done \/ i = Len(done) + 1
    BY Appended
  <2>2. done'[i] = e \/ (i \in DOMAIN done /\ done'[i] = done[i])
    BY <2>1, Appended
  <2>. QED
    BY <2>2 DEF Aimed, Reaches
<1>2. \A p : ReachedBy(p)' <=> ReachedBy(p)
  BY DEF ReachedBy
<1>. QED
  BY <1>1 DEF Aimed, Reaches, ReachedBy

\* A navigation of the first call leaves the page, or loads what was asked for
\* or a page of nobody.
LEMMA NavigationFresh ==
  ASSUME FreshInv, GateInv, Navigates(Invitable),
         UNCHANGED <<calls, callVars, scrapeVars, messageVars>>
  PROVE  FreshInv'
<1>. USE DEF FreshInv, Composing, Ours, ReadsOurs, Composes, Aimed, Reaches, ReachedBy, callVars, messageVars, pageVars, navVars, Load, Stays, Other, Wall, Plain,
            GateInv, Still
<1>1. CASE Lands(Invitable)
  BY <1>1 DEF Lands
<1>2. CASE Deadline(Invitable)
  BY <1>2 DEF Deadline
<1>3. CASE DeadlineAgain(Invitable)
  BY <1>3 DEF DeadlineAgain
<1>4. CASE GotoFails(Invitable)
  <2>1. nav \in {"first", "retry"} /\ UNCHANGED <<goal, late>>
    BY <1>4 DEF GotoFails
  <2>2. ASSUME NEW p \in {Other, Wall}, Load(p, Invitable)
        PROVE  page'.kind \in {"other", "wall"} /\ page'.who = None
    BY <2>2
  <2>3. Stays \/ \E p \in {Other, Wall} : Load(p, Invitable)
    BY <1>4, Zenon DEF GotoFails
  <2>4. page' = page \/ (page'.kind \in {"other", "wall"} /\ page'.who = None)
    BY <2>2, <2>3
  <2>. QED
    BY <2>1, <2>4
<1>5. CASE BarrierCheck
  BY <1>5 DEF BarrierCheck
<1>6. CASE LateLoad(Invitable)
  BY <1>6 DEF LateLoad
<1>. QED
  BY <1>1, <1>2, <1>3, <1>4, <1>5, <1>6 DEF Navigates

\* The first call reads the profile of the member it was given.
LEMMA ScrapeFresh ==
  ASSUME FreshInv, GateInv, Scrapes, UNCHANGED <<calls, messageVars>>
  PROVE  FreshInv'
<1>. USE DEF FreshInv, Composing, Ours, ReadsOurs, Composes, Aimed, Reaches, ReachedBy, callVars, scrapeVars, messageVars, pageVars, navVars, GateInv, Profile
<1>1. CASE ReadSection
  BY <1>1 DEF ReadSection, Goto, Stays, Profile
<1>2. CASE TextRead
  BY <1>2 DEF TextRead, Arrived, ClosesModal
<1>3. CASE ChromeOnly
  BY <1>3 DEF ChromeOnly, Arrived, ClosesModal
<1>4. CASE SectionLost
  BY <1>4 DEF SectionLost, ClosesModal
<1>5. CASE ScrapeEnds
  BY <1>5 DEF ScrapeEnds, Reading, Backs
<1>6. CASE Throttled
  BY <1>6 DEF Throttled, End
<1>7. CASE Raises
  BY <1>7 DEF Raises, End
<1>8. CASE Cancel
  BY <1>8 DEF Cancel, End
<1>9. CASE Answer
  BY <1>9 DEF Answer, End
<1>. QED
  BY <1>1, <1>2, <1>3, <1>4, <1>5, <1>6, <1>7, <1>8, <1>9 DEF Scrapes

\* It accepts and invites on pages of that member.
LEMMA ConnectFresh ==
  ASSUME FreshInv, GateInv, Ordered, Connects, UNCHANGED <<calls, messageVars>>
  PROVE  FreshInv'
<1>. USE DEF FreshInv, Composing, Ours, ReadsOurs, Composes, Aimed, Reaches, ReachedBy, callVars, scrapeVars, messageVars, pageVars, navVars, site, connectVars, GateInv
<1>1. CASE Unreadable
  BY <1>1 DEF Unreadable, Answers, End
<1>2. CASE Settled
  BY <1>2 DEF Settled, Answers, End
<1>3. CASE Classified
  BY <1>3 DEF Classified, Continues
<1>4. CASE AcceptClicked
  <2>. DEFINE e == [kind |-> "accept", who |-> page.who]
  <2>1. /\ done' = Append(done, e) /\ pc = "accept" /\ pc' = "scrape" /\ OnProfile
        /\ UNCHANGED <<who, page, late, goal>>
    BY <1>4 DEF AcceptClicked, Scrape
  <2>2. calls = 1 => Aimed'
    <3>. SUFFICES ASSUME calls = 1 PROVE Aimed'
      OBVIOUS
    <3>1. page.who = who /\ Reaches(e)
      BY <2>1 DEF OnProfile
    <3>2. Aimed
      OBVIOUS
    <3>. QED
      BY <2>1, <3>1, <3>2, AimedAppended
  <2>. QED
    BY <2>1, <2>2 DEF OnProfile
<1>5. CASE AcceptMissed
  BY <1>5 DEF AcceptMissed, Answers, End
<1>6. CASE AcceptVerified
  BY <1>6 DEF AcceptVerified, Answers, End
<1>7. CASE AcceptUnseen
  BY <1>7 DEF AcceptUnseen, Scrape
<1>8. CASE AcceptUnseenAgain
  BY <1>8 DEF AcceptUnseenAgain, Answers, End
<1>9. CASE MoreMenu
  BY <1>9 DEF MoreMenu, Continues
<1>10. CASE Gate
  BY <1>10 DEF Gate, OpensInvite, Goto, Stays, About, Answers, End
<1>11. CASE Probe
  BY <1>11 DEF Probe, Dismisses, End
<1>12. CASE NoDialog
  BY <1>12 DEF NoDialog, Answers, End
<1>13. CASE NoteFilled
  <2>. DEFINE e == [kind |-> "note", who |-> page.who]
  <2>1. /\ (UNCHANGED done) \/ done' = Append(done, e)
        /\ pc = "submit" /\ pc' = "press" /\ page.who = who
        /\ UNCHANGED <<who, page, late, goal>>
    BY <1>13 DEF NoteFilled, Submitting, About
  <2>2. calls = 1 => Aimed'
    <3>1. CASE UNCHANGED done
      BY <2>1, <3>1
    <3>2. CASE calls = 1 /\ done' = Append(done, e)
      <4>1. Aimed /\ Reaches(e)
        BY <2>1, <3>2
      <4>. QED
        BY <2>1, <3>2, <4>1, AimedAppended
    <3>. QED
      BY <2>1, <3>1, <3>2
  <2>. QED
    BY <2>1, <2>2
<1>14. CASE NoteUnfilled
  BY <1>14 DEF NoteUnfilled, Dismisses, End
<1>15. CASE (\E k : Invites(k)) /\ pc \in {"press", "enter"}
         /\ pc' \in {"pressed", "unsent", "enter"} /\ UNCHANGED <<who, page, late, goal>>
  <2>1. PICK k : Invites(k)
    BY <1>15
  <2>. DEFINE e == [kind |-> k, who |-> page.who]
  <2>2. done' = Append(done, e) /\ page.who = who
    BY <1>15, <2>1 DEF Invites, Submitting, About
  <2>3. calls = 1 => Aimed'
    <3>. SUFFICES ASSUME calls = 1 PROVE Aimed'
      OBVIOUS
    <3>1. Aimed /\ Reaches(e)
      BY <2>2
    <3>. QED
      BY <1>15, <2>2, <3>1, AimedAppended
  <2>. QED
    BY <1>15, <2>3
<1>16. CASE Press \/ PressFails \/ EnterSends
  <2>1. /\ pc \in {"press", "enter"} /\ pc' \in {"pressed", "unsent", "enter"}
        /\ UNCHANGED <<who, page, late, goal>>
        /\ (UNCHANGED done) \/ (\E k : Invites(k))
    BY <1>16 DEF Press, PressFails, EnterSends, InvitesNobody, Pressed
  <2>2. CASE UNCHANGED done
    BY <2>1, <2>2
  <2>. QED
    BY <1>15, <2>1, <2>2
<1>18. CASE EnterFails
  BY <1>18 DEF EnterFails, InvitesNobody, Pressed, Swapped
<1>19. CASE Unsent
  BY <1>19 DEF Unsent, Dismisses, End
<1>20. CASE Upsell
  BY <1>20 DEF Upsell, Dismisses, End
<1>21. CASE Submitted
  BY <1>21 DEF Submitted, Scrape
<1>22. CASE Verified
  BY <1>22 DEF Verified, Answers, End
<1>23. CASE Propagate
  BY <1>23 DEF Propagate
<1>. QED
  BY <1>1, <1>2, <1>3, <1>4, <1>5, <1>6, <1>7, <1>8, <1>9, <1>10, <1>11, <1>12, <1>13, <1>14, <1>15, <1>16, <1>18, <1>19, <1>20, <1>21, <1>22, <1>23 DEF Connects

\* It types and sends in the conversation with that member.
LEMMA MessageFresh ==
  ASSUME FreshInv, GateInv, Ordered, Messages, UNCHANGED calls
  PROVE  FreshInv'
<1>. USE PageAssumption DEF FreshInv, Composing, Ours, ReadsOurs, Composes, Aimed, Reaches, ReachedBy, callVars, scrapeVars, pageVars, navVars, conversations,
            messageVars, Keeps, GateInv
<1>1. CASE NameRead
  BY <1>1 DEF NameRead, Moves, ClosesModal
<1>2. CASE ComposeOpens
  BY <1>2 DEF ComposeOpens, Moves, Goto, Stays, About
<1>3. CASE NoCompose
  BY <1>3 DEF NoCompose, End
<1>4. CASE Surface
  BY <1>4 DEF Surface, Moves, ClosesModal
<1>5. CASE RecipientPicked
  BY <1>5 DEF RecipientPicked, Moves, Candidates, About
<1>6. CASE NotPicked
  BY <1>6 DEF NotPicked, GivesUp, End
<1>7. CASE BoxFound
  BY <1>7 DEF BoxFound, Moves
<1>8. CASE NoBox
  BY <1>8 DEF NoBox, GivesUp, End
<1>9. CASE Matches
  <2>1. /\ pc = "match" /\ pc' = "type"
        /\ UNCHANGED <<calls, who, name, page, late, goal, done>>
    BY <1>9 DEF Matches, Moves
  <2>2. PICK c \in {name, who} \ {None} : MatchesName(c) \intersect Names # {}
    BY <1>9 DEF Matches, Matched, Candidates
  <2>3. calls = 1 => c = who
    BY <2>2
  <2>4. calls = 1 /\ goal.kind = "compose" => ReachedBy(goal.who)
    BY <2>1, <2>2, <2>3 DEF Names
  <2>. QED
    BY <2>1, <2>4
<1>10. CASE DryRun
  BY <1>10 DEF DryRun, GivesUp, End
<1>11. CASE Mismatch
  BY <1>11 DEF Mismatch, GivesUp, End
<1>12. CASE Types
  <2>. DEFINE e == [kind |-> "typed", who |-> page.who]
  <2>1. /\ pc = "type" /\ pc' = "send" /\ page.kind = "compose"
        /\ done' = Append(done, e) /\ UNCHANGED <<who, page, late, goal, name>>
    BY <1>12 DEF Types, Moves
  <2>2. calls = 1 => Aimed'
    <3>. SUFFICES ASSUME calls = 1 PROVE Aimed'
      OBVIOUS
    <3>1. Aimed /\ Reaches(e)
      BY <2>1
    <3>. QED
      BY <2>1, <3>1, AimedAppended
  <2>. QED
    BY <2>1, <2>2
<1>13. CASE NoFocus
  BY <1>13 DEF NoFocus, GivesUp, End
<1>14. CASE Sends
  <2>. DEFINE e == [kind |-> "message", who |-> page.who]
  <2>1. /\ pc = "send" /\ pc' = "visible" /\ page.kind = "compose"
        /\ done' = Append(done, e) /\ UNCHANGED <<who, page, late, goal, name>>
    BY <1>14 DEF Sends, Moves
  <2>2. calls = 1 => Aimed'
    <3>. SUFFICES ASSUME calls = 1 PROVE Aimed'
      OBVIOUS
    <3>1. Aimed /\ Reaches(e)
      BY <2>1
    <3>. QED
      BY <2>1, <3>1, AimedAppended
  <2>. QED
    BY <2>1, <2>2
<1>15. CASE SendsNothing
  BY <1>15 DEF SendsNothing, Moves
<1>16. CASE Sent
  BY <1>16 DEF Sent, End
<1>17. CASE NotSeen
  BY <1>17 DEF NotSeen, GivesUp, End
<1>. QED
  BY <1>1, <1>2, <1>3, <1>4, <1>5, <1>6, <1>7, <1>8, <1>9, <1>10, <1>11, <1>12, <1>13, <1>14, <1>15, <1>16, <1>17 DEF Messages

\* The first call starts on a page of nobody.
LEMMA StartFresh ==
  ASSUME FreshInv, Start
  PROVE  FreshInv'
<1>1. calls' = calls + 1
  BY DEF Start
<1>2. CASE calls # 0
  <2>1. calls' \in Nat /\ calls' # 0 /\ calls' # 1
    BY <1>1, <1>2 DEF FreshInv
  <2>. QED
    BY <2>1 DEF FreshInv
<1>3. CASE calls = 0
  <2>1. calls' = 1 /\ page = Other /\ late = None /\ goal = Other
    BY <1>1, <1>3 DEF FreshInv
  <2>2. PICK p \in Person :
          \/ (\E secs \in SUBSET Section : StartPerson(p, secs)) /\ NoMessage
          \/ (\E n \in BOOLEAN : StartConnect(p, n)) /\ NoMessage
          \/ \E t \in Text, c \in BOOLEAN, u \in Urns : StartMessage(p, t, c, u)
    BY DEF Start
  <2>3. who' = p /\ done' = <<>> /\ name' = None /\ pc' \in {"scrape", "named"}
    BY <2>2 DEF StartPerson, StartConnect, StartMessage, Begin, Scrape, NoMessage
  <2>4. UNCHANGED page /\ late' = None /\ goal' \in {Other, Profile(p, Main)}
    BY <2>1, <2>2 DEF StartPerson, StartConnect, StartMessage, Goto, Stays, pageVars, navVars
  <2>. QED
    BY <2>1, <2>3, <2>4 DEF FreshInv, Composing, Ours, ReadsOurs, Composes, Aimed, Reaches, ReachedBy, Other, Plain, Profile
<1>. QED
  BY <1>2, <1>3

\* What the first call of a browser accepts or invites, and any note, reaches the
\* member it was given; a message that member or one on whose compose page the
\* name stands; with any profile_urn, cards beside the profile and missed deadlines.
THEOREM FreshWritesRequestedHolds == Spec => []FreshWritesRequested
<1>1. Init => FreshInv
  BY DEF Init, PageInit, ScrapeInit, FreshInv
<1>2. FreshInv /\ GateInv /\ EffectInv /\ [Next]_vars => FreshInv'
  <2> SUFFICES ASSUME FreshInv, GateInv, Ordered, [Next]_vars PROVE FreshInv'
    BY DEF EffectInv
  <2>1. CASE Start
    BY <2>1, StartFresh
  <2>2. CASE Navigates(Invitable) /\ UNCHANGED <<calls, callVars, scrapeVars, messageVars>>
    BY <2>2, NavigationFresh
  <2>3. CASE Scrapes /\ UNCHANGED <<calls, messageVars>>
    BY <2>3, ScrapeFresh
  <2>4. CASE Connects /\ UNCHANGED <<calls, messageVars>>
    BY <2>4, ConnectFresh
  <2>5. CASE Messages /\ UNCHANGED calls
    BY <2>5, MessageFresh
  <2>6. CASE UNCHANGED vars
    BY <2>6 DEF vars, callVars, pageVars, navVars, messageVars, FreshInv, Composing, Ours, ReadsOurs, Composes, Aimed, Reaches, ReachedBy
  <2>. QED
    BY <2>1, <2>2, <2>3, <2>4, <2>5, <2>6 DEF Next
<1>3. FreshInv => FreshWritesRequested
  BY DEF FreshInv, Aimed, Reaches, ReachedBy, FreshWritesRequested
<1>. QED
  BY <1>1, <1>2, <1>3, Gates, Effects, PTL DEF Spec

=============================================================================
