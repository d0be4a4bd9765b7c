----------------------------- MODULE LinkedInTools -----------------------------
(***************************************************************************)
(* The tools that write to LinkedIn, and get_person_profile, called one    *)
(* after another on one page: connect_with_person and send_message.        *)
(***************************************************************************)
EXTENDS ConnectTool, MessageTool

CONSTANTS
  MaxCalls,   \* bound on the calls
  Urns,       \* what callers pass for profile_urn
  Relations   \* how each person may stand to the account at first

ASSUME ToolsAssumption ==
  /\ MaxCalls \in Nat
  /\ Urns \subseteq Person \union {None}
  /\ Relations \in [Person -> SUBSET Relation]

VARIABLE calls  \* the calls so far

vars == <<calls, callVars, scrapeVars, pageVars, navVars, site, connectVars,
          conversations, messageVars>>

Pc == {"idle", "scrape", "answer", "classify", "accept", "accepted", "more", "gate",
       "probe", "submit", "press", "enter", "unsent", "pressed", "sent", "named",
       "href", "surface", "pick", "box", "match", "type", "send", "visible"}

\* Answers that nothing was sent, as their messages say.
Refusal == {"unavailable", "already_connected", "pending", "connect_unavailable",
            "custom_note_limit_reached", "message_unavailable", "recipient_resolution_failed",
            "confirmation_required", "composer_unavailable", "compose_interact_failed"}
Status == Refusal \union
  {"none", "running", "raised", "cancelled", "answered", "accepted", "connected",
   "send_failed", "sent", "send_unavailable"}

\* The values of every variable.
TypeOK ==
  /\ PageTypeOK /\ ScrapeTypeOK /\ ConnectTypeOK /\ MessageTypeOK
  /\ pc \in Pc
  /\ back \in {"idle", "answer", "classify", "accepted", "sent"}
  /\ status \in Status
  /\ done \in Seq(Effect)
  /\ calls \in 0..MaxCalls

Init ==
  /\ rel \in {r \in [Person -> Relation] : \A p \in Person : r[p] \in Relations[p]}
  /\ PageInit /\ ScrapeInit /\ ConnectInit /\ MessageInit
  /\ calls = 0

\* The locals of the other tools mean nothing to a call.
NoScrape == back' = "idle" /\ queue' = <<>> /\ again' = FALSE /\ got' = [s \in Section |-> None]
NoConnect == note' = FALSE /\ seen' = FALSE /\ attempt' = 0
NoMessage == text' = None /\ confirm' = FALSE /\ urn' = None /\ name' = None

Start ==
  /\ calls < MaxCalls
  /\ calls' = calls + 1
  /\ UNCHANGED <<site, conversations>>
  /\ \E p \in Person :
       \/ /\ \E secs \in SUBSET Section : StartPerson(p, secs)
          /\ NoConnect /\ NoMessage
       \/ /\ \E n \in BOOLEAN : StartConnect(p, n)
          /\ NoMessage
       \/ /\ \E t \in Text, c \in BOOLEAN, u \in Urns : StartMessage(p, t, c, u)
          /\ NoScrape /\ NoConnect

Next ==
  \/ Start
  \/ /\ Navigates(Invitable)
     /\ UNCHANGED <<calls, callVars, scrapeVars, site, connectVars, conversations, messageVars>>
  \/ /\ Scrapes
     /\ UNCHANGED <<calls, site, connectVars, conversations, messageVars>>
  \/ Connects /\ UNCHANGED <<calls, conversations, messageVars>>
  \/ Messages /\ UNCHANGED <<calls, site, connectVars>>

Spec == Init /\ [][Next]_vars

-----------------------------------------------------------------------------
(***************************************************************************)
(* Properties.                                                             *)
(***************************************************************************)

\* connect_with_person: whatever page a missed navigation leaves, a member who
\* offers no Connect anywhere is not invited through the write gate, unless his
\* user name begins another: the anchor of the longer name counts as his.
FollowOnlyUninvited ==
  [][\A p \in Person :
       rel[p] = "follow" => rel'[p] = "follow" \/ \E q \in Person : <<p, q>> \in Longer]_vars

\* "The deeplink-submit path is gated strictly on has_invite_anchor=True ... so
\* Pending and follow-only profiles cannot trigger a write" (extractor.py:2235).
\* This does not hold.
GateHolds == [][\A p \in Person : rel[p] = "follow" => rel'[p] = "follow"]_vars

\* "custom-invite/?vanityName=": the invitation goes to the member it was asked
\* for, also when the page is not the one the call navigated to.
InvitesRequested ==
  \A i \in DOMAIN done : done[i].kind \in {"invite", "unseen"} => done[i].who = who

\* A call accepts, invites or sends once.  Only an invitation is sent a second
\* time, to the same member and by the Enter key, after a click on Send that
\* landed and raised.
OneWrite ==
  \A i, j \in DOMAIN done :
    i < j /\ {done[i].kind, done[j].kind} \subseteq Written =>
      /\ j = i + 1
      /\ done[i].kind = "unseen" /\ done[j].kind \in {"invite", "unseen"}
      /\ done[j].who = done[i].who

\* After an answer that refuses nothing was accepted or sent and no message
\* typed.  All that can have reached LinkedIn is an invitation the code did not
\* see go: the click raised, or the dialog was still closing after Enter.
RefusedUntouched ==
  status \in Refusal => \A i \in DOMAIN done : done[i].kind \in {"note", "unseen"}

\* "LinkedIn did not open a usable invite dialog for this profile"
\* (extractor.py:2392) and the other refusals: nothing was sent.  This does not
\* hold.
RefusalsTrue ==
  status \in Refusal => \A i \in DOMAIN done : done[i].kind \notin Written

\* On a page no earlier call has left something on, a write reaches the member
\* who was named and nobody else: not whom profile_urn denotes, not the owner of
\* a card beside the profile, not with navigations that miss their deadline.  A
\* message may also reach a member whose compose page holds the name that was
\* asked for, in a name it lists or in the member's own longer one.
FreshWritesRequested ==
  calls = 1 => \A i \in DOMAIN done :
    \/ done[i].who = who
    \/ /\ done[i].kind \in {"typed", "message"}
       /\ MatchesName(who) \intersect (Listed \union {done[i].who}) # {}

\* "Verify the compose page visibly identifies the intended recipient"
\* (extractor.py:2800): the first call writes to nobody else.  This does not hold.
RecipientVerified == calls = 1 => \A i \in DOMAIN done : done[i].who = who

\* The members written to are those the caller named.
WritesRequested == \A i \in DOMAIN done : done[i].who = who

=============================================================================
