------------------------------ MODULE MessageTool ------------------------------
(***************************************************************************)
(* send_message: the profile for the name, the compose page, the check of  *)
(* the recipient, the confirmation, and the text typed and sent.           *)
(***************************************************************************)
EXTENDS ProfileScrape

CONSTANTS
  Text,      \* messages
  Listed,    \* the members whom every compose page names beside the recipient
  Within,    \* pairs of members, the name of the first part of the second's
  Reachable  \* the members whose profile, or a card on one, offers Message

ASSUME MessageAssumption ==
  /\ Listed \subseteq Person /\ Reachable \subseteq Person
  /\ Within \subseteq Person \X Person

VARIABLES
  draft,   \* LinkedIn: the text in the compose box of each conversation
  thread,  \* LinkedIn: the texts delivered in it
  text,    \* message
  confirm, \* confirm_send
  urn,     \* whom profile_urn denotes, None without one
  name     \* whose display name was read

conversations == <<draft, thread>>
messageVars == <<text, confirm, urn, name>>

MessageTypeOK ==
  /\ draft \in [Person -> SUBSET Text]
  /\ thread \in [Person -> SUBSET Text]
  /\ text \in Text \union {None}
  /\ confirm \in BOOLEAN
  /\ urn \in Person \union {None}
  /\ name \in Person \union {None}

MessageInit ==
  /\ draft = [p \in Person |-> {}] /\ thread = [p \in Person |-> {}]
  /\ text = None /\ confirm = FALSE /\ urn = None /\ name = None

Moves(p) ==
  /\ pc' = p
  /\ UNCHANGED <<who, status, scrapeVars, urn, text, confirm>>

StartMessage(p, t, c, u) ==
  /\ Begin(p)
  /\ text' = t /\ confirm' = c /\ urn' = u /\ name' = None
  /\ Goto(Profile(p, Main))
  /\ pc' = "named"

Keeps == UNCHANGED <<conversations, messageVars>>

\* main h1, or the first line of whatever main there is.
NameRead ==
  /\ pc = "named" /\ nav = "arrived"
  /\ ClosesModal
  /\ name' \in {page.who} \union IF page.kind = "profile" THEN {} ELSE {None}
  /\ nav' = "idle"
  /\ Moves("href")
  /\ UNCHANGED <<done, goal, conversations>>

\* profile_urn names the page; without one the first compose anchor in main
\* does, which can belong to a card when the profile itself has none.
Targets ==
  IF urn # None THEN {urn}
  ELSE IF page.kind # "profile" THEN {}
  ELSE IF page.who \in Reachable THEN {page.who}
  ELSE Reachable

ComposeOpens ==
  /\ pc = "href"
  /\ \E p \in Targets : Goto(About("compose", p)) \/ Goto(About("picker", p))
  /\ Moves("surface")
  /\ UNCHANGED <<done, conversations, name>>

NoCompose ==
  /\ pc = "href" /\ urn = None
  /\ page.kind # "profile" \/ page.who \notin Reachable
  /\ End("message_unavailable")
  /\ UNCHANGED pageVars /\ Keeps

Surface ==
  /\ pc = "surface" /\ nav = "arrived"
  /\ ClosesModal
  /\ nav' = "idle"
  /\ Moves(IF page.kind = "picker" THEN "pick" ELSE "box")
  /\ UNCHANGED <<done, goal, conversations, name>>

Candidates == {name, who} \ {None}

\* The members whose name is that of p or contains it.
MatchesName(p) == {q \in Person : q = p \/ <<p, q>> \in Within}

\* The first row with exactly a candidate's name, else the first that contains
\* one; LinkedIn decides which rows there are.  A click on an element around the
\* rows, which contains their names too, picks nobody.
RecipientPicked ==
  /\ pc = "pick" /\ page.kind = "picker"
  /\ \/ page' = page
     \/ \E c \in Candidates : \E p \in MatchesName(c) : page' = About("compose", p)
  /\ Moves("box")
  /\ UNCHANGED <<done, dialog, late, navVars, conversations, name>>

\* _dismiss_message_ui, at best: the draft goes or stays with LinkedIn.
GivesUp(s) ==
  /\ draft' \in {draft} \union
       IF page.kind = "compose" THEN {[draft EXCEPT ![page.who] = {}]} ELSE {}
  /\ page' \in {page, Other} /\ dialog' = "none"
  /\ End(s)
  /\ UNCHANGED <<late, thread, messageVars>>

NotPicked == pc = "pick" /\ GivesUp("recipient_resolution_failed")

BoxFound ==
  /\ pc = "box" /\ page.kind = "compose"
  /\ Moves("match")
  /\ UNCHANGED <<done, pageVars, navVars, conversations, name>>

NoBox == pc = "box" /\ GivesUp("composer_unavailable")

\* Whom main names anywhere.
Names == ({page.who} \ {None}) \union IF page.kind = "compose" THEN Listed ELSE {}

\* Any element of main that contains a candidate will do.
Matched == \E c \in Candidates : MatchesName(c) \intersect Names # {}

\* A mistake: the page is not asked whom it writes to.
MatchesUnasked ==
  /\ pc = "match"
  /\ confirm
  /\ Moves("type")
  /\ UNCHANGED <<done, pageVars, navVars, conversations, name>>

Matches ==
  /\ pc = "match" /\ Matched
  /\ confirm
  /\ Moves("type")
  /\ UNCHANGED <<done, pageVars, navVars, conversations, name>>

DryRun ==
  /\ pc = "match" /\ Matched
  /\ ~confirm
  /\ GivesUp("confirmation_required")

Mismatch ==
  /\ pc = "match" /\ ~Matched
  /\ GivesUp("recipient_resolution_failed")

\* The box is appended to; it may hold the draft of an earlier call.
Types ==
  /\ pc = "type" /\ page.kind = "compose"
  /\ draft' = [draft EXCEPT ![page.who] = @ \union {text}]
  /\ done' = Append(done, [kind |-> "typed", who |-> page.who])
  /\ Moves("send")
  /\ UNCHANGED <<pageVars, navVars, thread, name>>

NoFocus == pc = "type" /\ page.kind # "compose" /\ GivesUp("compose_interact_failed")

\* The send button, else Enter; either sends what the box holds.
Sends ==
  /\ pc = "send" /\ page.kind = "compose" /\ draft[page.who] # {}
  /\ thread' = [thread EXCEPT ![page.who] = @ \union draft[page.who]]
  /\ draft' = [draft EXCEPT ![page.who] = {}]
  /\ done' = Append(done, [kind |-> "message", who |-> page.who])
  /\ Moves("visible")
  /\ UNCHANGED <<pageVars, navVars, name>>

\* No button is enabled and Enter only breaks the line.
SendsNothing ==
  /\ pc = "send"
  /\ Moves("visible")
  /\ UNCHANGED <<done, pageVars, navVars, conversations, name>>

\* document.body.innerText, of which the compose box is a part.
TextVisible == page.kind = "compose" /\ text \in draft[page.who] \union thread[page.who]

Sent ==
  /\ pc = "visible" /\ TextVisible
  /\ End("sent")
  /\ UNCHANGED pageVars /\ Keeps

NotSeen == pc = "visible" /\ GivesUp("send_unavailable")

Messages ==
  \/ NameRead
  \/ ComposeOpens
  \/ NoCompose
  \/ Surface
  \/ RecipientPicked
  \/ NotPicked
  \/ BoxFound
  \/ NoBox
  \/ Matches
  \/ DryRun
  \/ Mismatch
  \/ Types
  \/ NoFocus
  \/ Sends
  \/ SendsNothing
  \/ Sent
  \/ NotSeen

=============================================================================
