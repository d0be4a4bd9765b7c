--------------------------- MODULE SessionSources ---------------------------
(***************************************************************************)
(* Where a tool call takes its LinkedIn session from, and what may make    *)
(* the server give a session up: the daemon's cache, the cookies stored    *)
(* beside the profile, the pool of sessions/<name>.json, and the probe that *)
(* is asked before one of them is thrown away.                             *)
(*                                                                         *)
(* A jar is the session whose li_at it holds, or None.  Sessions live at   *)
(* LinkedIn, which forgets one when it likes and may forget one because it *)
(* was replayed outside a browser.  The probe runs in a thread: the call   *)
(* awaits it, and other processes and the pool's own walks go on meanwhile.*)
(* The backend is Obscura; the gate before all this is BrowserSetup's.     *)
(***************************************************************************)
EXTENDS Naturals

CONSTANTS
  Session,  \* the LinkedIn sessions there are
  Names,    \* how many names the pool has; they sort as 1..Names
  Configs,  \* the configurations looked at
  None

Config == [probe : BOOLEAN, egress : {"fleet", "proxy", "bare"}]

ASSUME SessionSourcesAssumption ==
  /\ None \notin Session \union {"ok", "refused", "other"} /\ Names \in Nat
  /\ Configs \subseteq Config

VARIABLES
  config,    \* LINKEDIN_HTTP_PROBE, and the way out of this host
  alive,     \* the sessions LinkedIn still accepts
  stored,    \* cookies.json
  pool,      \* sessions/<name>.json
  browser,   \* what the running browser's manager loaded, or "off"
  call,      \* the tool call: where it is, and the session it asked about
  walk       \* prune_dead_sessions under way

files == <<stored, pool>>
vars == <<config, alive, files, browser, call, walk>>

Name == 1..Names

Jar == Session \union {None}

CallState == {"none", "ask", "local", "pool", "boot", "work", "confirm", "close",
              "invalidate", "doubt"}

Idle == [at |-> "none", asked |-> None]

Empty == [n \in Name |-> None]

NoWalk == [on |-> FALSE, todo |-> {}, seen |-> Empty, live |-> FALSE]

TypeOK ==
  /\ config \in Configs
  /\ alive \subseteq Session
  /\ stored \in Jar
  /\ browser \in Jar \union {"off"}
  /\ pool \in [Name -> Jar]
  /\ call \in [at : CallState, asked : Jar]
  /\ walk \in [on : BOOLEAN, todo : SUBSET Name, seen : [Name -> Jar], live : BOOLEAN]

Init ==
  /\ config \in Configs
  /\ alive = Session
  /\ stored \in Jar
  /\ pool = Empty
  /\ browser = "off"
  /\ call = Idle
  /\ walk = NoWalk

-----------------------------------------------------------------------------
\* What one request with s's cookies can bring back from LinkedIn, and whom it
\* accepts then: 200, one of 301/302/401/403, any other status, or nothing.
\* An address it does not trust for the account is refused as a dead session is.
Answers(s, live, trusted) ==
  UNION {[status : IF s \in after
                   THEN {"ok", "other", None} \union (IF trusted THEN {} ELSE {"refused"})
                   ELSE {"refused", "other", None},
          live : {after}] : after \in {live, live \ {s}}}

\* _classify
Classify(status, trusted) ==
  CASE status = "ok" -> "alive"
    [] status = "refused" /\ trusted -> "dead"
    [] OTHER -> "unknown"

Direct(s, live, trusted) ==
  {[verdict |-> Classify(a.status, trusted), live |-> a.live] : a \in Answers(s, live, trusted)}

\* One attempt: through the fleet, and straight when its relay gives no answer;
\* or straight, which is trusted when it goes through the configured proxy.
Attempt(s, live) ==
  IF config.egress # "fleet" THEN Direct(s, live, config.egress = "proxy")
  ELSE UNION {IF a.status = None THEN Direct(s, a.live, FALSE)
              ELSE {[verdict |-> Classify(a.status, TRUE), live |-> a.live]}
              : a \in Answers(s, live, TRUE)}

\* probe_session: no request unless opted into, and two attempts by default.
Probe(s) ==
  IF ~ config.probe THEN {[verdict |-> "unknown", live |-> alive]}
  ELSE UNION {IF a.verdict = "unknown" THEN Attempt(s, a.live) ELSE {a} : a \in Attempt(s, alive)}

\* s is probed with verdict v.
ProbedAs(s, v) == \E a \in Probe(s) : a.verdict = v /\ alive' = a.live

Verdict == {"alive", "dead", "unknown"}

-----------------------------------------------------------------------------
To(at) == call' = [call EXCEPT !.at = at]

\* get_ready_extractor, past the gate.
StartCall ==
  /\ call.at = "none"
  /\ To("ask")
  /\ UNCHANGED <<config, alive, files, browser, walk>>

\* LinkedInDaemonManager.get_valid_cookies: the daemon's cache has a session for
\* the call, or has none, and that is final: the stored jar is asked only when
\* the daemon fails or is not used.
AskDaemon ==
  /\ call.at = "ask"
  /\ \/ To("boot") \/ To("pool")
     \/ call' = [at |-> "local", asked |-> stored]
  /\ UNCHANGED <<config, alive, files, browser, walk>>

\* The library's manager: a stored jar serves unless the validator's probe says
\* dead; what it finds in the user's browsers replaces one that does not ...
LocalServes ==
  /\ call.at = "local" /\ call.asked # None
  /\ \E v \in Verdict \ {"dead"} : ProbedAs(call.asked, v)
  /\ call' = [at |-> "boot", asked |-> None]
  /\ UNCHANGED <<config, files, browser, walk>>

Rejected == IF call.asked = None THEN UNCHANGED alive ELSE ProbedAs(call.asked, "dead")

LocalExtracts ==
  /\ call.at = "local"
  /\ Rejected
  /\ stored' \in Session
  /\ call' = [at |-> "boot", asked |-> None]
  /\ UNCHANGED <<config, pool, browser, walk>>

\* ... or its clear() moves the file aside.
LocalClears ==
  /\ call.at = "local"
  /\ Rejected
  /\ stored' = None
  /\ call' = [at |-> "pool", asked |-> None]
  /\ UNCHANGED <<config, pool, browser, walk>>

\* _first_live_pool_session: the first file by name that has a li_at, whatever
\* LinkedIn thinks of it; with none the call ends in an authentication error.
AskPool ==
  /\ call.at = "pool"
  /\ IF pool = Empty THEN To("confirm") ELSE To("boot")
  /\ UNCHANGED <<config, alive, files, browser, walk>>

\* get_or_create_browser loads the stored jar; the li_at that was chosen goes
\* into its context.
Boot ==
  /\ call.at = "boot"
  /\ browser' = IF browser = "off" THEN stored ELSE browser
  /\ To("work")
  /\ UNCHANGED <<config, alive, files, walk>>

WorkEnds ==
  /\ call.at = "work"
  /\ call' = Idle
  /\ UNCHANGED <<config, alive, files, browser, walk>>

\* An authwall, or a page taken for one: handle_auth_error.
AuthError ==
  /\ call.at \in {"boot", "work"}
  /\ To("confirm")
  /\ UNCHANGED <<config, alive, files, browser, walk>>

\* Nothing stored is nothing to protect; else only a dead verdict goes on.
Confirm ==
  /\ call.at = "confirm"
  /\ \/ stored = None /\ To("close") /\ UNCHANGED alive
     \/ /\ stored # None
        /\ \E v \in Verdict : /\ ProbedAs(stored, v)
                              /\ call' = IF v = "dead" THEN [call EXCEPT !.at = "close"] ELSE Idle
  /\ UNCHANGED <<config, files, browser, walk>>

\* close_browser exports what its manager had loaded, if it gets to it.
Close ==
  /\ call.at = "close"
  /\ stored' \in {stored} \union (IF browser = "off" THEN {} ELSE {browser})
  /\ browser' = "off"
  /\ To("invalidate")
  /\ UNCHANGED <<config, alive, pool, walk>>

\* invalidate_auth_and_trigger_relogin reads the jar again, probes it again ...
Invalidate ==
  /\ call.at = "invalidate"
  /\ call' = [at |-> "doubt", asked |-> stored]
  /\ UNCHANGED <<config, alive, files, browser, walk>>

\* Fault: anything but a verdict of alive lets the session be retired.
UnconfirmedVerdict == {"dead", "unknown"}

\* The verdicts that let it go on.
RetiringVerdict == {"dead"}

\* ... and moves aside whatever is there by then.
Retire ==
  /\ call.at = "doubt"
  /\ IF call.asked = None THEN UNCHANGED alive
     ELSE \E v \in RetiringVerdict : ProbedAs(call.asked, v)
  /\ stored' = None
  /\ call' = Idle
  /\ UNCHANGED <<config, pool, browser, walk>>

RetireRefused ==
  /\ call.at = "doubt" /\ call.asked # None
  /\ \E v \in Verdict \ RetiringVerdict : ProbedAs(call.asked, v)
  /\ call' = Idle
  /\ UNCHANGED <<config, files, browser, walk>>

-----------------------------------------------------------------------------
\* add_session: a temporary file renamed over the name.
AddSession ==
  /\ \E n \in Name, s \in Session : pool' = [pool EXCEPT ![n] = s]
  /\ UNCHANGED <<config, alive, stored, browser, call, walk>>

RemoveSession ==
  /\ \E n \in Name : pool[n] # None /\ pool' = [pool EXCEPT ![n] = None]
  /\ UNCHANGED <<config, alive, stored, browser, call, walk>>

\* prune_dead_sessions lists the pool once ...
StartWalk ==
  /\ ~ walk.on /\ pool # Empty
  /\ walk' = [NoWalk EXCEPT !.on = TRUE, !.todo = {n \in Name : pool[n] # None}, !.seen = pool]
  /\ UNCHANGED <<config, alive, files, browser, call>>

\* ... asks about one session after the other, and keeps the dead in mind ...
WalkProbes ==
  /\ \E n \in walk.todo : \E v \in Verdict :
       /\ \A m \in walk.todo : n <= m
       /\ ProbedAs(walk.seen[n], v)
       /\ walk' = [walk EXCEPT !.todo = @ \ {n},
                               !.live = @ \/ v = "alive",
                               !.seen[n] = IF v = "dead" THEN @ ELSE None]
  /\ UNCHANGED <<config, files, browser, call>>

\* ... which it removes, by name, if one probed alive.
WalkEnds ==
  /\ walk.on /\ walk.todo = {}
  /\ pool' = [n \in Name |-> IF walk.live /\ walk.seen[n] # None THEN None ELSE pool[n]]
  /\ walk' = NoWalk
  /\ UNCHANGED <<config, alive, stored, browser, call>>

\* probe_sessions only asks; so does --export-session, which then writes a copy
\* of a stored session that probed alive.
OnlyProbes ==
  /\ \E s \in ({stored} \union {pool[n] : n \in Name}) \ {None} : \E v \in Verdict : ProbedAs(s, v)
  /\ UNCHANGED <<config, files, browser, call, walk>>

-----------------------------------------------------------------------------
\* --import-session wants a verdict of alive: by default, without the probe, it
\* refuses every file.
ImportSession ==
  /\ \E s \in Session : ProbedAs(s, "alive") /\ stored' = s
  /\ UNCHANGED <<config, pool, browser, call, walk>>

ImportRefused ==
  /\ \E s \in Session : \E v \in Verdict \ {"alive"} : ProbedAs(s, v)
  /\ UNCHANGED <<config, files, browser, call, walk>>

\* A login of another process stores a session LinkedIn accepts.
LogIn ==
  /\ stored' \in alive
  /\ UNCHANGED <<config, alive, pool, browser, call, walk>>

\* LinkedIn ends a session.
Revoke ==
  /\ \E s \in alive : alive' = alive \ {s}
  /\ UNCHANGED <<config, files, browser, call, walk>>

CallMoves ==
  \/ StartCall \/ AskDaemon \/ LocalServes \/ LocalExtracts \/ LocalClears \/ AskPool
  \/ Boot \/ WorkEnds \/ AuthError \/ Confirm \/ Close \/ Invalidate \/ Retire \/ RetireRefused

Next ==
  \/ CallMoves
  \/ AddSession \/ RemoveSession \/ StartWalk \/ WalkProbes \/ WalkEnds
  \/ OnlyProbes \/ ImportSession \/ ImportRefused
  \/ LogIn \/ Revoke

Spec == Init /\ [][Next]_vars

-----------------------------------------------------------------------------
\* A session the server asked about and then gave up, by retiring it, moving
\* its file aside or pruning it, was dead: no lost answer, no refusal of an
\* address, no relay that failed is evidence ("unknown" decides nothing,
\* voyager_auth.py:13).  A file replaced since the question is not covered.
OnlyDeadGivenUp ==
  [][/\ (Retire \/ LocalClears \/ LocalExtracts) /\ stored # None /\ stored = call.asked
          => stored \notin alive'
     /\ WalkEnds => \A n \in Name : pool[n] # pool'[n] /\ pool[n] = walk.seen[n]
                                      => pool[n] \notin alive']_vars

\* "The destructive relogin only runs on a confirmed-dead verdict"
\* (dependencies.py:84), of the session that is there.  This does not hold: one
\* stored while the probe of another was out is moved aside in its place.
OnConfirmedDead ==
  [][Retire /\ None \notin {call.asked, stored} => stored \notin alive']_vars
=============================================================================
