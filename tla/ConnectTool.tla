------------------------------ MODULE ConnectTool ------------------------------
(***************************************************************************)
(* connect_with_person: classify the profile from the structure of its top *)
(* card, then accept an incoming request or send an invitation through the *)
(* custom-invite page, and look again.                                     *)
(***************************************************************************)
EXTENDS ProfileScrape

CONSTANT Longer  \* pairs of names, the second a longer name that starts with the first

ASSUME LongerAssumption == Longer \subseteq Person \X Person

VARIABLES
  rel,      \* LinkedIn: how each person stands to the account
  shown,    \* LinkedIn: what its pages show of that, which may lag behind
  note,     \* a personal note was asked for
  seen,     \* has_invite_anchor
  attempt   \* passes through the verification of an accept

site == <<rel, shown>>
connectVars == <<note, seen, attempt>>

\* "hidden" exposes Connect under the More menu only, "follow" nowhere.
Relation == {"self", "open", "hidden", "follow", "pending", "incoming", "connected"}

ConnectTypeOK ==
  /\ rel \in [Person -> Relation]
  /\ shown \in [Person -> Relation]
  /\ note \in BOOLEAN /\ seen \in BOOLEAN
  /\ attempt \in 0..1

ConnectInit ==
  /\ shown = rel
  /\ note = FALSE /\ seen = FALSE /\ attempt = 0

\* LinkedIn opens its invitation dialog for follow-only profiles too.
Invitable == {p \in Person : rel[p] \in {"open", "hidden", "follow"}}

-----------------------------------------------------------------------------
(***************************************************************************)
(* The signals of scraping/connection.py.                                  *)
(***************************************************************************)

Detect(sig) ==
  CASE sig.edit -> "self_profile"
    [] ~sig.edit /\ sig.invite -> "connectable"
    [] ~sig.edit /\ ~sig.invite /\ sig.incoming -> "incoming_request"
    [] ~sig.edit /\ ~sig.invite /\ ~sig.incoming /\ sig.anchor -> "pending"
    [] ~sig.edit /\ ~sig.invite /\ ~sig.incoming /\ ~sig.anchor /\ sig.compose ->
         IF sig.button THEN "follow_only" ELSE "already_connected"
    [] OTHER -> "unavailable"

Nothing == [edit |-> FALSE, invite |-> FALSE, incoming |-> FALSE,
            anchor |-> FALSE, compose |-> FALSE, button |-> FALSE]

OnProfile == page.kind = "profile" /\ page.sec = Main

\* a[href*="vanityName=name"] matches the longer names too.
MatchesAnchor(p) == {q \in Person : q = p \/ <<p, q>> \in Longer}

\* The Connect anchors in the document: the profile's own, with the More menu
\* also a hidden one, and any on the cards of other members.
Exposed(menu) ==
  {q \in Person : \/ shown[q] = "open"
                  \/ menu /\ shown[q] = "hidden" /\ q = page.who}

\* Labels and compose anchors of the action root; the walk to it can end in a
\* sidebar card where the top card has no compose anchor.
Row(r) ==
  CASE r \in {"hidden", "follow"} -> {<<FALSE, TRUE, TRUE>>}
    [] r = "connected" -> {<<FALSE, TRUE, FALSE>>}
    [] r = "pending" -> {<<TRUE, c, b>> : c \in BOOLEAN, b \in BOOLEAN}
    [] OTHER -> BOOLEAN \X BOOLEAN \X BOOLEAN

\* Whether the anchor of p's invitation is found; it is when it is p's profile.
Anchored(p, menu) ==
  IF p \in Exposed(menu) /\ p = page.who THEN {TRUE}
  ELSE {FALSE, MatchesAnchor(p) \intersect Exposed(menu) # {}}

\* What _read_action_signals(p) may return; a page without main has none.
Signals(p, menu) ==
  {Nothing} \union
  {[edit |-> shown[page.who] = "self" /\ page.who = p,
    invite |-> i,
    incoming |-> shown[page.who] = "incoming",
    anchor |-> row[1], compose |-> row[2], button |-> row[3]] :
      row \in IF OnProfile THEN Row(shown[page.who]) ELSE {},
      i \in Anchored(p, menu)}

Sees(menu, state) == \E sig \in Signals(who, menu) : Detect(sig) = state

-----------------------------------------------------------------------------
(***************************************************************************)
(* connect_with_person.                                                    *)
(***************************************************************************)

StartConnect(p, n) ==
  /\ Begin(p)
  /\ Scrape({Main}, "classify")
  /\ note' = n /\ seen' = FALSE /\ attempt' = 0
  /\ UNCHANGED <<pageVars, navVars>>

Answers(s) == End(s) /\ UNCHANGED <<pageVars, site, connectVars>>

\* The profile could not be read.
Unreadable == pc = "classify" /\ got[Main] = None /\ Answers("unavailable")

\* Nothing to do, or nothing that can be done.
Settled ==
  /\ pc = "classify" /\ got[Main] # None
  /\ \/ Sees(FALSE, "self_profile") /\ Answers("connect_unavailable")
     \/ Sees(FALSE, "already_connected") /\ Answers("already_connected")
     \/ Sees(FALSE, "pending") /\ Answers("pending")

Continues(p) ==
  /\ pc' = p
  /\ UNCHANGED <<who, status, done, scrapeVars, navVars, pageVars, site, note, attempt>>

Classified ==
  /\ pc = "classify" /\ got[Main] # None
  /\ \E sig \in Signals(who, FALSE) :
       /\ seen' = sig.invite
       /\ \/ Detect(sig) = "incoming_request" /\ Continues("accept")
          \/ Detect(sig) = "follow_only" /\ Continues("more")
          \/ Detect(sig) \in {"connectable", "unavailable"} /\ Continues("gate")

\* The fingerprint is matched again at the click; the row need not be that of
\* the profile that was asked for.
AcceptClicked ==
  /\ pc = "accept" /\ OnProfile /\ shown[page.who] = "incoming"
  /\ rel' \in {rel, [rel EXCEPT ![page.who] = "connected"]}
  /\ done' = Append(done, [kind |-> "accept", who |-> page.who])
  /\ Scrape({Main}, "accepted")
  /\ UNCHANGED <<who, status, pageVars, navVars, shown, connectVars>>

AcceptMissed ==
  /\ pc = "accept"
  /\ Answers("send_failed")

\* One settle retry, because LinkedIn shows the new state late.
AcceptVerified == pc = "accepted" /\ Sees(FALSE, "already_connected") /\ Answers("accepted")

AcceptUnseen ==
  /\ pc = "accepted" /\ attempt = 0
  /\ \E sig \in Signals(who, FALSE) : Detect(sig) # "already_connected"
  /\ attempt' = 1
  /\ Scrape({Main}, "accepted")
  /\ UNCHANGED <<who, status, done, pageVars, navVars, site, note, seen>>

\* A mistake: a profile that does not show the connection is classified again.
AcceptUnseenReclassified ==
  /\ pc = "accepted" /\ attempt = 1
  /\ Scrape({Main}, "classify")
  /\ UNCHANGED <<who, status, done, pageVars, navVars, site, connectVars>>

AcceptUnseenAgain ==
  /\ pc = "accepted" /\ attempt = 1
  /\ \E sig \in Signals(who, FALSE) : Detect(sig) # "already_connected"
  /\ Answers("send_failed")

\* Connect may hide under the More menu, which is closed again.
MoreMenu ==
  /\ pc = "more"
  /\ seen' \in {seen} \union {sig.invite : sig \in Signals(who, TRUE)}
  /\ Continues("gate")

OpensInvite(p) ==
  /\ Goto(About("invite", who))
  /\ pc' = p
  /\ UNCHANGED <<who, status, done, scrapeVars, site, connectVars>>

\* A mistake: with a note the dialog is submitted also without the anchor.
GateProbes ==
  /\ pc = "gate"
  /\ \/ (seen \/ note) /\ OpensInvite("submit")
     \/ ~seen /\ ~note /\ Answers("connect_unavailable")

\* The write gate: only an anchor of the profile lets the dialog be submitted.
Gate ==
  /\ pc = "gate"
  /\ \/ seen /\ OpensInvite("submit")
     \/ ~seen /\ note /\ OpensInvite("probe")
     \/ ~seen /\ ~note /\ Answers("connect_unavailable")

\* _dismiss_dialog presses Escape and does not look whether that helped.
Dismisses == dialog' \in {dialog, "none"} /\ UNCHANGED <<page, late, site, connectVars>>

\* Opens the note editor to see whether LinkedIn refuses notes.
Probe ==
  /\ pc = "probe" /\ nav = "arrived"
  /\ Dismisses
  /\ \/ End("connect_unavailable")
     \/ dialog # "none" /\ End("custom_note_limit_reached")

-----------------------------------------------------------------------------
(***************************************************************************)
(* _submit_invite_dialog.                                                  *)
(***************************************************************************)

\* No dialog, or none that is visible in time: it is left as it is.
NoDialog ==
  /\ pc = "submit" /\ nav = "arrived"
  /\ Answers("connect_unavailable")

\* The note is typed, or the primary button is pressed without one.
NoteFilled ==
  /\ pc = "submit" /\ nav = "arrived" /\ dialog # "none"
  /\ dialog' = IF note THEN "noted" ELSE dialog
  /\ done' = IF note THEN Append(done, [kind |-> "note", who |-> page.who]) ELSE done
  /\ pc' = "press" /\ nav' = "idle"
  /\ UNCHANGED <<who, status, scrapeVars, goal, page, late, site, connectVars>>

\* The textarea does not appear: the note limit, or a dialog without notes.
NoteUnfilled ==
  /\ pc = "submit" /\ nav = "arrived" /\ dialog # "none" /\ note
  /\ Dismisses
  /\ End("custom_note_limit_reached") \/ End("connect_unavailable")

\* The invitation of the open dialog reaches LinkedIn, perhaps once more.
Invites(kind) ==
  /\ dialog \in {"invite", "noted"}
  /\ done' = Append(done, [kind |-> kind, who |-> page.who])
  /\ rel' = [rel EXCEPT ![page.who] = "pending"]
  /\ UNCHANGED shown

InvitesNobody == UNCHANGED <<done, site>>

Pressed(p, d) ==
  /\ pc' = p /\ dialog' \in d
  /\ UNCHANGED <<who, status, scrapeVars, navVars, page, late, connectVars>>

\* With a note LinkedIn may put the Premium upsell in the dialog's place.
Swapped == IF note /\ dialog # "none" THEN {dialog, "upsell"} ELSE {dialog}

\* The primary button is clicked.
Press ==
  /\ pc = "press" /\ dialog # "none"
  /\ \/ Invites("invite") /\ Pressed("pressed", {"none"})
     \/ InvitesNobody /\ Pressed("pressed", Swapped \union {"none"})

\* There is no dialog any more, or the click raises: it was intercepted, or it
\* landed and did not return.
PressFails ==
  /\ pc = "press"
  /\ \/ InvitesNobody /\ Pressed("enter", Swapped)
     \/ Invites("unseen") /\ Pressed("enter", {dialog, "none"})

\* Enter on the focused button counts as sent once no dialog is visible; a
\* dialog that is still closing by then does not.
EnterSends ==
  /\ pc = "enter"
  /\ \/ Invites("invite") /\ Pressed("pressed", {"none"})
     \/ Invites("unseen") /\ Pressed("unsent", {dialog})

\* Without a dialog there is no button for it.
EnterFails ==
  /\ pc = "enter"
  /\ InvitesNobody
  /\ Pressed("unsent", Swapped) \/ (dialog # "none" /\ Pressed("pressed", {"none"}))

\* Neither the click nor Enter closed the dialog.
Unsent ==
  /\ pc = "unsent"
  /\ Dismisses
  /\ IF note /\ dialog = "upsell" THEN End("custom_note_limit_reached")
     ELSE End("connect_unavailable")

\* The upsell may also follow a click that landed.
Upsell ==
  /\ pc = "pressed" /\ note /\ dialog = "upsell"
  /\ Dismisses
  /\ End("custom_note_limit_reached")

Submitted ==
  /\ pc = "pressed" /\ ~(note /\ dialog = "upsell")
  /\ Scrape({Main}, "sent")
  /\ UNCHANGED <<who, status, done, pageVars, navVars, site, connectVars>>

\* A mistake: a profile that cannot be read after the send is answered like one
\* that could not be read before it.
VerifiedUnreadable ==
  /\ pc = "sent"
  /\ \/ got[Main] = None /\ Answers("unavailable")
     \/ got[Main] # None /\ \E sig \in Signals(who, FALSE) :
          Answers(IF sig.invite THEN "send_failed" ELSE "connected")

\* The profile is read again; an unreadable one shows no anchor either.
Verified ==
  /\ pc = "sent"
  /\ \E sig \in Signals(who, FALSE) :
       Answers(IF sig.invite THEN "send_failed" ELSE "connected")

\* LinkedIn's pages catch up.
Propagate ==
  /\ \E p \in Person :
       shown[p] # rel[p] /\ shown' = [shown EXCEPT ![p] = rel[p]]
  /\ UNCHANGED <<rel, connectVars, callVars, scrapeVars, pageVars, navVars>>

Connects ==
  \/ Unreadable
  \/ Settled
  \/ Classified
  \/ AcceptClicked
  \/ AcceptMissed
  \/ AcceptVerified
  \/ AcceptUnseen
  \/ AcceptUnseenAgain
  \/ MoreMenu
  \/ Gate
  \/ Probe
  \/ NoDialog
  \/ NoteFilled
  \/ NoteUnfilled
  \/ Press
  \/ PressFails
  \/ EnterSends
  \/ EnterFails
  \/ Unsent
  \/ Upsell
  \/ Submitted
  \/ Verified
  \/ Propagate

=============================================================================
