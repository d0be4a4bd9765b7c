---------------------------- MODULE SessionStore ----------------------------
(***************************************************************************)
(* The stored LinkedIn session of session_state.py, piece by piece, and    *)
(* every flow that replaces it: the login of setup.py, the import of       *)
(* browser_import/orchestrate.py, the re-login of bootstrap.py that only   *)
(* retires, and the logout and session import of cli_main.py.              *)
(*                                                                         *)
(* A piece carries the number of the session it was made for, 0 when it is *)
(* absent.  A flow holds the profile lease from its first step to its      *)
(* last, and in one process bootstrap.py and the tool-call middleware      *)
(* admit one flow at a time, so one set of variables describes the flow    *)
(* that runs.  What escapes the lease is a worker thread that outlives its *)
(* flow, and --import-session, which never asks for it.                    *)
(***************************************************************************)
EXTENDS Integers

CONSTANTS
  Proc,         \* the processes that share the auth root
  Kinds,        \* the flows each of them can run
  MaxSessions,  \* bound on the sessions ever tried
  Boxes,        \* the quarantine directories, named apart by a random suffix
  MaxFaults,    \* bound on the moves and removals that fail
  MaxDeaths     \* bound on the processes that die at work

None == "none"

ASSUME SessionStoreAssumption ==
  /\ None \notin Proc
  /\ Kinds \in [Proc -> SUBSET {"login", "import", "retire", "logout", "import-session"}]
  /\ MaxSessions \in Nat \ {0}
  /\ Boxes \subseteq Nat \ {0}
  /\ MaxFaults \in Nat /\ MaxDeaths \in Nat

VARIABLES
  live,       \* the pieces at the active paths
  box,        \* the pieces in each quarantine directory
  debris,     \* the pieces in its "-superseded" neighbour
  holder,     \* the process that holds the profile lease
  leaked,     \* whether it keeps a reference until it exits
  open,       \* browser_open of the holder
  running,    \* a browser that the flow started still runs
  pc,         \* where the flow is
  kind,       \* which flow it is
  retired,    \* the directory it rotated the previous session into, or 0
  todo,       \* the pieces its current loop has not come to
  moved,      \* the pieces that loop has moved
  sweep,      \* the quarantines a logout has not come to
  n,          \* the session it is making
  ok,         \* succeeded, imported, success
  cancelled,  \* a cancel that run_deferring_cancels holds back
  late,       \* the candidates worker threads that lost their flow still extract
  used,       \* the sessions tried so far
  strays,     \* history: those whose profile could not be removed, or whose
              \* cookies were written without the lease
  faults,     \* the moves and removals that have failed so far
  deaths,     \* the processes that have died at work
  committed,  \* history: the sessions whose source state was written
  spoilt,     \* history: those cut up by a death, a logout or a write from
              \* outside the lease, whose move back failed too, or that were
              \* accepted on the profile of a rejected candidate
  before,     \* history: what was live when the flow began
  clean       \* history: no move or clearing failed and nothing was refused or
              \* interfered since

files == <<live, box, debris>>
leaseVars == <<holder, leaked>>
browser == <<open, running>>
loopVars == <<todo, moved>>
outside == <<late, used, strays, deaths>>
history == <<committed, spoilt, before, clean>>
vars == <<files, leaseVars, browser, pc, kind, retired, loopVars, sweep, n, ok,
          cancelled, outside, faults, history>>

Piece == {"profile", "cookies", "source", "runtime"}
Session == 1..MaxSessions
Pieces == [Piece -> {0} \union Session]
Nothing == [a \in Piece |-> 0]
Whole(s) == [a \in Piece |-> s]

Present(store) == {a \in Piece : store[a] # 0}

\* The order of _auth_state_targets.
Order == [profile |-> 1, cookies |-> 2, source |-> 3, runtime |-> 4]
First(S) == CHOOSE a \in S : \A b \in S : Order[a] <= Order[b]

\* A mistake: debris counts as a replacement only with all four pieces.
ReadyWithRuntime(store) == Piece \subseteq Present(store)

\* Only a successful login or import leaves all three.
Ready(store) == {"profile", "cookies", "source"} \subseteq Present(store)

Moving == {"rotate", "undo", "park", "back", "reretire", "clear"}
Pc == Moving \union
      {"idle", "begin", "launch", "login", "exported", "closing",
       "stage", "validate", "verdict", "cleanup", "restore", "done"}

TypeOK ==
  /\ live \in Pieces
  /\ box \in [Boxes -> Pieces]
  /\ debris \in [Boxes -> Pieces]
  /\ holder \in Proc \union {None}
  /\ leaked \in BOOLEAN
  /\ open \in BOOLEAN
  /\ running \in BOOLEAN
  /\ pc \in Pc
  /\ kind \in {"login", "import", "retire", "logout"}
  /\ retired \in {0} \union Boxes
  /\ todo \subseteq Piece
  /\ moved \subseteq Piece
  /\ sweep \subseteq Boxes \X {"box", "debris"}
  /\ n \in {0} \union Session
  /\ ok \in BOOLEAN
  /\ cancelled \in BOOLEAN
  /\ late \in [Proc -> SUBSET Session]
  /\ used \in {0} \union Session
  /\ strays \subseteq Session
  /\ faults \in 0..MaxFaults
  /\ deaths \in 0..MaxDeaths
  /\ committed \subseteq Session
  /\ spoilt \subseteq Session
  /\ before \in Pieces
  /\ clean \in BOOLEAN

Init ==
  /\ live \in {Nothing, Whole(1)}
  /\ box = [b \in Boxes |-> Nothing]
  /\ debris = [b \in Boxes |-> Nothing]
  /\ holder = None /\ leaked = FALSE /\ open = FALSE /\ running = FALSE
  /\ pc = "idle" /\ kind = "login" /\ retired = 0
  /\ todo = {} /\ moved = {} /\ sweep = {}
  /\ n = 0 /\ ok = FALSE /\ cancelled = FALSE
  /\ late = [p \in Proc |-> {}]
  /\ used = 1 /\ strays = {}
  /\ faults = 0 /\ deaths = 0
  /\ committed = IF live = Nothing THEN {} ELSE {1}
  /\ spoilt = {}
  /\ before = Nothing /\ clean = TRUE

-----------------------------------------------------------------------------
(***************************************************************************)
(* Starting and ending a flow.                                             *)
(***************************************************************************)

\* clear_profile_and_exit looks at the active paths before it clears anything,
\* and says that nothing is stored when these are absent.
NothingToClear == Present(live) \intersect {"profile", "cookies", "source"} = {}

\* interactive_login and import_session_from_browser take the lease first; a
\* re-login runs inside a tool call that holds it, a logout with something to
\* clear takes it itself.
Start(p, k) ==
  /\ pc = "idle" /\ k \in Kinds[p] \ {"import-session"}
  /\ holder \in {None, p}
  /\ k = "logout" => ~NothingToClear
  /\ holder' = p
  /\ kind' = k
  /\ pc' = "begin"
  /\ before' = live /\ clean' = TRUE
  /\ UNCHANGED <<files, leaked, browser, retired, loopVars, sweep, n, ok,
                 cancelled, outside, faults, committed, spoilt>>

\* ... and one that finds nothing active reports success at once, without a look
\* at the quarantines.
LogoutFindsNothing(p) ==
  /\ pc = "idle" /\ "logout" \in Kinds[p]
  /\ NothingToClear
  /\ kind' = "logout" /\ ok' = TRUE
  /\ pc' = "done"
  /\ before' = live /\ clean' = TRUE
  /\ UNCHANGED <<files, leaseVars, browser, retired, loopVars, sweep, n, cancelled,
                 outside, faults, committed, spoilt>>

Ends ==
  /\ pc' = "done"
  /\ UNCHANGED <<holder, retired, loopVars, sweep, n, ok, cancelled>>

Reset ==
  /\ pc' = "idle" /\ kind' = "login" /\ retired' = 0
  /\ todo' = {} /\ moved' = {} /\ sweep' = {}
  /\ n' = 0 /\ ok' = FALSE /\ cancelled' = FALSE /\ running' = FALSE
  /\ before' = Nothing /\ clean' = TRUE

\* The finally of every flow: lease.release(), but for a browser that may
\* still run.
Release ==
  /\ pc = "done"
  /\ Reset
  /\ holder' = IF leaked THEN holder ELSE None
  /\ UNCHANGED <<files, leaked, open, outside, faults, committed, spoilt>>

\* One more move or removal fails.
Fault == faults < MaxFaults /\ faults' = faults + 1 /\ clean' = FALSE

-----------------------------------------------------------------------------
(***************************************************************************)
(* rotate_source_profile in its worker thread.                             *)
(***************************************************************************)

\* A quarantine directory no earlier rotation has used.
Fresh(b) == box[b] = Nothing /\ debris[b] = Nothing

RotateBegin ==
  /\ pc = "begin" /\ kind # "logout" /\ Present(live) # {} /\ ~open
  /\ \E b \in Boxes :
       /\ Fresh(b)
       /\ \A c \in Boxes : Fresh(c) => b <= c
       /\ retired' = b
  /\ pc' = "rotate"
  /\ todo' = Present(live) /\ moved' = {}
  /\ UNCHANGED <<files, leaseVars, browser, kind, sweep, n, ok, cancelled,
                 outside, faults, history>>

\* _exclusive_profile finds our own browser, or a foreign Chromium's
\* SingletonLock, and raises RuntimeError.
Refused ==
  /\ \/ pc = "begin" /\ Present(live) # {}
     \/ pc = "restore"
  /\ Ends
  /\ clean' = FALSE
  /\ UNCHANGED <<files, leaked, browser, kind, outside, faults, committed, spoilt, before>>

NothingToRotate ==
  /\ pc = "begin" /\ kind # "logout" /\ Present(live) = {}
  /\ IF kind = "retire" \/ cancelled
       THEN Ends
       ELSE pc' = "launch" /\ UNCHANGED <<holder, retired, loopVars, sweep, n, ok, cancelled>>
  /\ UNCHANGED <<files, leaked, browser, kind, outside, faults, history>>

RotateMove ==
  /\ pc = "rotate" /\ todo # {}
  /\ LET a == First(todo) IN
       /\ box' = [box EXCEPT ![retired][a] = live[a]]
       /\ live' = [live EXCEPT ![a] = 0]
       /\ todo' = todo \ {a} /\ moved' = moved \union {a}
  /\ UNCHANGED <<debris, leaseVars, browser, pc, kind, retired, sweep, n, ok,
                 cancelled, outside, faults, history>>

\* A mistake: the exception leaves without putting anything back.
RotateFailsHalfway ==
  /\ pc = "rotate" /\ todo # {}
  /\ Fault
  /\ Ends
  /\ UNCHANGED <<files, leaked, browser, kind, outside, committed, spoilt, before>>

RotateFails ==
  /\ pc = "rotate" /\ todo # {}
  /\ Fault
  /\ pc' = "undo" /\ todo' = moved
  /\ UNCHANGED <<files, leaseVars, browser, kind, retired, moved, sweep, n, ok,
                 cancelled, outside, committed, spoilt, before>>

\* A mistake: a cancel that was held back ends the flow at once.
RotatedDropsBackup ==
  /\ pc = "rotate" /\ todo = {}
  /\ IF kind = "retire" \/ cancelled
       THEN Ends
       ELSE /\ pc' = "launch"
            /\ moved' = {}
            /\ UNCHANGED <<holder, retired, todo, sweep, n, ok, cancelled>>
  /\ UNCHANGED <<files, leaked, browser, kind, outside, faults, history>>

\* A cancel that came meanwhile is honoured now, by restoring.
Rotated ==
  /\ pc = "rotate" /\ todo = {}
  /\ IF kind = "retire"
       THEN Ends
       ELSE /\ pc' = IF cancelled THEN "restore" ELSE "launch"
            /\ moved' = {}
            /\ UNCHANGED <<holder, retired, todo, sweep, n, ok, cancelled>>
  /\ UNCHANGED <<files, leaked, browser, kind, outside, faults, history>>

\* _restore, best effort; the rotation then raises.
Undo ==
  /\ pc = "undo" /\ todo # {}
  /\ LET a == First(todo) IN
       /\ live' = [live EXCEPT ![a] = box[retired][a]]
       /\ box' = [box EXCEPT ![retired][a] = 0]
       /\ todo' = todo \ {a}
  /\ UNCHANGED <<debris, leaseVars, browser, pc, kind, retired, moved, sweep, n, ok,
                 cancelled, outside, faults, history>>

UndoFails ==
  /\ pc = "undo" /\ todo # {}
  /\ Fault
  /\ LET a == First(todo) IN
       /\ todo' = todo \ {a}
       /\ spoilt' = spoilt \union ({box[retired][a]} \ {0})
  /\ UNCHANGED <<files, leaseVars, browser, pc, kind, retired, moved, sweep, n, ok,
                 cancelled, outside, committed, before>>

Undone ==
  /\ pc = "undo" /\ todo = {}
  /\ Ends
  /\ UNCHANGED <<files, leaked, browser, kind, outside, faults, history>>

-----------------------------------------------------------------------------
(***************************************************************************)
(* _login_holding_the_profile once it has rotated.                         *)
(***************************************************************************)

\* Chromium starts a profile where there is none.
Launched(s) == IF live.profile = 0 THEN [live EXCEPT !.profile = s] ELSE live

Attempt == used < MaxSessions /\ used' = used + 1 /\ n' = used + 1

LoginLaunch ==
  /\ pc = "launch" /\ kind = "login"
  /\ Attempt
  /\ live' = Launched(n')
  /\ open' = TRUE /\ running' = TRUE
  /\ pc' = "login"
  /\ UNCHANGED <<box, debris, leaseVars, kind, retired, loopVars, sweep, ok,
                 cancelled, late, strays, deaths, faults, history>>

\* The manager fails, or is cancelled, before it can confirm a close: the flag,
\* the reference and the retired session all stay as they are.
Unconfirmed ==
  /\ leaked' = TRUE
  /\ open' = TRUE /\ UNCHANGED running
  /\ Ends
  /\ clean' = FALSE

LoginLaunchFails ==
  /\ pc = "launch" /\ kind = "login"
  /\ used < MaxSessions /\ used' = used + 1
  /\ live' \in {live, Launched(used')}
  /\ Unconfirmed
  /\ UNCHANGED <<box, debris, kind, late, strays, deaths, faults, committed, spoilt, before>>

\* Logged in and exported.
LoginExport ==
  /\ pc = "login"
  /\ live' = [live EXCEPT !.cookies = n]
  /\ pc' = "exported"
  /\ UNCHANGED <<box, debris, leaseVars, browser, kind, retired, loopVars, sweep, n,
                 ok, cancelled, outside, faults, history>>

\* No login in time, a failed export, any exception or a cancel: all leave
\* through the manager's __aexit__.
LoginFails ==
  /\ pc = "login"
  /\ pc' = "closing"
  /\ UNCHANGED <<files, leaseVars, browser, kind, retired, loopVars, sweep, n, ok,
                 cancelled, outside, faults, history>>

\* write_source_state.
Commits == live' = [live EXCEPT !.source = n] /\ committed' = committed \union {n}

LoginCommit ==
  /\ pc = "exported"
  /\ Commits
  /\ pc' = "closing"
  /\ UNCHANGED <<box, debris, leaseVars, browser, kind, retired, loopVars, sweep, n,
                 ok, cancelled, outside, faults, spoilt, before, clean>>

\* close() calls itself confirmed in its finally: also when an exception of the
\* driver kept it from terminating the process.
LoginCloses ==
  /\ pc = "closing"
  /\ running' \in BOOLEAN
  /\ ok' = (n \in committed)
  /\ pc' = "cleanup"
  /\ UNCHANGED <<files, leaseVars, open, kind, retired, loopVars, sweep, n,
                 cancelled, outside, faults, history>>

-----------------------------------------------------------------------------
(***************************************************************************)
(* _import_first_accepted.  A candidate is a session of its own.           *)
(***************************************************************************)

ImportOpens ==
  /\ pc = "launch" /\ kind = "import"
  /\ Attempt
  /\ open' = TRUE
  /\ pc' = "stage"
  /\ UNCHANGED <<files, leaseVars, running, kind, retired, loopVars, sweep, ok, cancelled,
                 late, strays, deaths, faults, history>>

\* The next candidate, or none left: False, or CookieDecryptionError.
NextCandidate ==
  \/ Attempt /\ pc' = "stage"
  \/ pc' = "cleanup" /\ UNCHANGED <<used, n>>

\* _extract_and_stage in its worker thread.
StageUsable ==
  /\ pc = "stage"
  /\ live' = [live EXCEPT !.cookies = n]
  /\ pc' = "validate"
  /\ UNCHANGED <<box, debris, leaseVars, browser, kind, retired, loopVars, sweep, n,
                 ok, cancelled, outside, faults, history>>

StageUnusable ==
  /\ pc = "stage"
  /\ NextCandidate
  /\ UNCHANGED <<files, leaseVars, browser, kind, retired, loopVars, sweep, ok,
                 cancelled, late, strays, deaths, faults, history>>

\* validate_imported_cookies launches on the source profile.
Validate ==
  /\ pc = "validate"
  /\ live' = Launched(n)
  /\ running' = TRUE
  /\ pc' = "verdict"
  /\ UNCHANGED <<box, debris, leaseVars, open, kind, retired, loopVars, sweep, n,
                 ok, cancelled, outside, faults, history>>

Accepted ==
  /\ pc = "verdict"
  /\ Commits
  /\ spoilt' = IF live.profile = n THEN spoilt ELSE spoilt \union {n}
  /\ running' \in BOOLEAN
  /\ ok' = TRUE
  /\ pc' = "cleanup"
  /\ UNCHANGED <<box, debris, leaseVars, open, kind, retired, loopVars, sweep, n,
                 cancelled, outside, faults, before, clean>>

\* A mistake: the rejected candidate's profile is kept.
RejectedKeepsProfile ==
  /\ pc = "verdict"
  /\ live' = [live EXCEPT !.cookies = 0]
  /\ running' \in BOOLEAN
  /\ NextCandidate
  /\ UNCHANGED <<box, debris, leaseVars, open, kind, retired, loopVars, sweep, ok,
                 cancelled, late, strays, deaths, faults, history>>

\* The partial artifacts are dropped, so that candidates do not mix; but errors
\* of the profile's removal are ignored, and the next one finds what is left.
Rejected ==
  /\ pc = "verdict"
  /\ \/ /\ live' = [live EXCEPT !.cookies = 0, !.profile = 0]
        /\ UNCHANGED <<strays, faults>>
     \/ /\ live' = [live EXCEPT !.cookies = 0]
        /\ strays' = strays \union {live.profile}
        /\ faults < MaxFaults /\ faults' = faults + 1
  /\ running' \in BOOLEAN
  /\ NextCandidate
  /\ UNCHANGED <<box, debris, leaseVars, open, kind, retired, loopVars, sweep, ok,
                 cancelled, late, deaths, history>>

\* Any other exception of the validation, or a cancel.
ValidateFails ==
  /\ pc = "verdict"
  /\ running' \in BOOLEAN
  /\ pc' = "cleanup"
  /\ UNCHANGED <<files, leaseVars, open, kind, retired, loopVars, sweep, n, ok,
                 cancelled, outside, faults, history>>

\* A manager whose close reports False.
ValidateUnconfirmed ==
  /\ pc = "verdict"
  /\ Unconfirmed
  /\ UNCHANGED <<files, kind, outside, faults, committed, spoilt, before>>

-----------------------------------------------------------------------------
(***************************************************************************)
(* Cancels, and the finally of both flows.                                 *)
(***************************************************************************)

\* Held back while a worker moves the session; at any other await the flow goes
\* to its finally, and a staging worker goes on without it.
Cancel ==
  /\ kind \in {"login", "import"}
  /\ \/ /\ pc \in {"begin", "rotate"} /\ ~cancelled
        /\ cancelled' = TRUE
        /\ UNCHANGED <<pc, late>>
     \/ /\ pc \in {"closing", "validate"}
        /\ pc' = "cleanup"
        /\ UNCHANGED <<cancelled, late>>
     \/ /\ pc = "stage"
        /\ pc' = "cleanup"
        /\ late' = [late EXCEPT ![holder] = @ \union {n}]
        /\ UNCHANGED cancelled
  /\ UNCHANGED <<files, leaseVars, browser, kind, retired, loopVars, sweep, n, ok,
                 used, strays, deaths, faults, history>>

Cleanup ==
  /\ pc = "cleanup"
  /\ open' = FALSE /\ UNCHANGED running
  /\ IF retired # 0 /\ ~ok
       THEN pc' = "restore" /\ UNCHANGED <<holder, retired, loopVars, sweep, n, ok, cancelled>>
       ELSE Ends
  /\ UNCHANGED <<files, leaked, kind, outside, faults, history>>

-----------------------------------------------------------------------------
(***************************************************************************)
(* restore_source_profile.                                                 *)
(***************************************************************************)

\* A replacement that was committed after all is not overwritten.
RestoreDeclined ==
  /\ pc = "restore" /\ Ready(live)
  /\ Ends
  /\ UNCHANGED <<files, leaked, browser, kind, outside, faults, history>>

RestoreBegin ==
  /\ pc = "restore" /\ ~Ready(live)
  /\ pc' = "park"
  /\ todo' = Piece /\ moved' = {}
  /\ UNCHANGED <<files, leaseVars, browser, kind, retired, sweep, n, ok, cancelled,
                 outside, faults, history>>

\* What the failed flow left is parked beside the backup, not deleted.
Park ==
  /\ pc = "park" /\ todo # {}
  /\ LET a == First(todo) IN
       /\ debris' = IF live[a] = 0 THEN debris
                    ELSE [debris EXCEPT ![retired][a] = live[a]]
       /\ live' = [live EXCEPT ![a] = 0]
       /\ todo' = todo \ {a}
  /\ UNCHANGED <<box, leaseVars, browser, pc, kind, retired, moved, sweep, n, ok,
                 cancelled, outside, faults, history>>

ParkFails ==
  /\ pc = "park" /\ todo # {} /\ live[First(todo)] # 0
  /\ Fault
  /\ Ends
  /\ UNCHANGED <<files, leaked, browser, kind, outside, committed, spoilt, before>>

Parked ==
  /\ pc = "park" /\ todo = {}
  /\ pc' = "back"
  /\ todo' = Present(box[retired])
  /\ UNCHANGED <<files, leaseVars, browser, kind, retired, moved, sweep, n, ok,
                 cancelled, outside, faults, history>>

\* In the order the directory lists them.
PutBack ==
  /\ pc = "back"
  /\ \E a \in todo :
       /\ live' = [live EXCEPT ![a] = box[retired][a]]
       /\ box' = [box EXCEPT ![retired][a] = 0]
       /\ todo' = todo \ {a} /\ moved' = moved \union {a}
  /\ UNCHANGED <<debris, leaseVars, browser, pc, kind, retired, sweep, n, ok,
                 cancelled, outside, faults, history>>

PutBackFails ==
  /\ pc = "back" /\ todo # {}
  /\ Fault
  /\ pc' = "reretire" /\ todo' = moved
  /\ UNCHANGED <<files, leaseVars, browser, kind, retired, moved, sweep, n, ok,
                 cancelled, outside, committed, spoilt, before>>

Restored ==
  /\ pc = "back" /\ todo = {}
  /\ Ends
  /\ UNCHANGED <<files, leaked, browser, kind, outside, faults, history>>

\* _retire, so that the session stays wholly quarantined.
Reretire ==
  /\ pc = "reretire"
  /\ \E a \in todo :
       /\ box' = [box EXCEPT ![retired][a] = live[a]]
       /\ live' = [live EXCEPT ![a] = 0]
       /\ todo' = todo \ {a}
  /\ UNCHANGED <<debris, leaseVars, browser, pc, kind, retired, moved, sweep, n, ok,
                 cancelled, outside, faults, history>>

ReretireFails ==
  /\ pc = "reretire"
  /\ Fault
  /\ \E a \in todo :
       /\ todo' = todo \ {a}
       /\ spoilt' = spoilt \union ({live[a]} \ {0})
  /\ UNCHANGED <<files, leaseVars, browser, pc, kind, retired, moved, sweep, n, ok,
                 cancelled, outside, committed, before>>

Reretired ==
  /\ pc = "reretire" /\ todo = {}
  /\ Ends
  /\ UNCHANGED <<files, leaked, browser, kind, outside, faults, history>>

-----------------------------------------------------------------------------
(***************************************************************************)
(* clear_auth_state, which lists the quarantines before it removes.        *)
(***************************************************************************)

\* A mistake: only the directories that rotations made.
RotatedOnly == {<<b, "box">> : b \in {c \in Boxes : box[c] # Nothing}}

Quarantines == {<<b, "box">> : b \in {c \in Boxes : box[c] # Nothing}}
        \union {<<b, "debris">> : b \in {c \in Boxes : debris[c] # Nothing}}

ClearBegin ==
  /\ pc = "begin" /\ kind = "logout" /\ ~open
  /\ pc' = "clear"
  /\ todo' = Piece
  /\ sweep' = Quarantines
  /\ ok' = TRUE
  /\ UNCHANGED <<files, leaseVars, browser, kind, retired, moved, n, cancelled,
                 outside, faults, history>>

ClearPiece ==
  /\ pc = "clear" /\ todo # {}
  /\ LET a == First(todo) IN
       /\ todo' = todo \ {a}
       /\ \/ /\ live' = [live EXCEPT ![a] = 0]
             /\ spoilt' = spoilt \union ({live[a]} \ {0})
             /\ UNCHANGED <<ok, faults, clean>>
          \/ /\ live[a] # 0
             /\ Fault
             /\ ok' = FALSE
             /\ UNCHANGED <<live, spoilt>>
  /\ UNCHANGED <<box, debris, leaseVars, browser, pc, kind, retired, moved, sweep, n,
                 cancelled, outside, committed, before>>

ClearQuarantine ==
  /\ pc = "clear" /\ todo = {}
  /\ \E q \in sweep :
       /\ sweep' = sweep \ {q}
       /\ LET store == IF q[2] = "box" THEN box[q[1]] ELSE debris[q[1]] IN
          \/ /\ IF q[2] = "box"
                  THEN box' = [box EXCEPT ![q[1]] = Nothing] /\ UNCHANGED debris
                  ELSE debris' = [debris EXCEPT ![q[1]] = Nothing] /\ UNCHANGED box
             /\ spoilt' = spoilt \union ({store[a] : a \in Piece} \ {0})
             /\ UNCHANGED <<ok, faults, clean>>
          \/ /\ Fault
             /\ ok' = FALSE
             /\ UNCHANGED <<box, debris, spoilt>>
  /\ UNCHANGED <<live, leaseVars, browser, pc, kind, retired, loopVars, n, cancelled,
                 outside, committed, before>>

Cleared ==
  /\ pc = "clear" /\ todo = {} /\ sweep = {}
  /\ Ends
  /\ UNCHANGED <<files, leaked, browser, kind, outside, faults, history>>

-----------------------------------------------------------------------------
(***************************************************************************)
(* What happens outside the flow.                                          *)
(***************************************************************************)

\* Somebody writes cookies.json without the lease.
Overwrites(s) ==
  /\ live' = [live EXCEPT !.cookies = s]
  /\ strays' = strays \union {s}
  /\ spoilt' = spoilt \union ({live.cookies} \ {0})
  /\ clean' = FALSE

\* The abandoned worker of _extract_and_stage finishes.
LateStage(p) ==
  /\ \E s \in late[p] :
       /\ late' = [late EXCEPT ![p] = @ \ {s}]
       /\ Overwrites(s) \/ UNCHANGED <<live, strays, spoilt, clean>>
  /\ UNCHANGED <<box, debris, leaseVars, browser, pc, kind, retired, loopVars, sweep,
                 n, ok, cancelled, used, deaths, faults, committed, before>>

\* import_session_and_exit, for a jar that probes live.
ImportSession(p) ==
  /\ "import-session" \in Kinds[p]
  /\ used < MaxSessions /\ used' = used + 1
  /\ Overwrites(used')
  /\ UNCHANGED <<box, debris, leaseVars, browser, pc, kind, retired, loopVars, sweep,
                 n, ok, cancelled, late, deaths, faults, committed, before>>

\* Sessions with pieces in two places.
Stores == {live} \union {box[b] : b \in Boxes} \union {debris[b] : b \in Boxes}
PartOf(s, t) == \E a \in Piece : t[a] = s
Parted == {s \in Session : \E t, u \in Stores : t # u /\ PartOf(s, t) /\ PartOf(s, u)}

\* A process dies; the kernel frees the lease, nothing looks at the files.
Crash(p) ==
  /\ holder = p \/ late[p] # {}
  /\ deaths < MaxDeaths /\ deaths' = deaths + 1
  /\ late' = [late EXCEPT ![p] = {}]
  /\ IF holder = p
       THEN /\ holder' = None /\ leaked' = FALSE /\ open' = FALSE
            /\ spoilt' = spoilt \union Parted
            /\ Reset
       ELSE UNCHANGED <<leaseVars, browser, pc, kind, retired, loopVars, sweep, n, ok,
                        cancelled, spoilt, before, clean>>
  /\ UNCHANGED <<files, used, strays, faults, committed>>

-----------------------------------------------------------------------------
Rotation == RotateBegin \/ Refused \/ NothingToRotate \/ RotateMove \/ RotateFails
            \/ Rotated \/ Undo \/ UndoFails \/ Undone
Login == LoginLaunch \/ LoginLaunchFails \/ LoginExport \/ LoginFails
         \/ LoginCommit \/ LoginCloses
Import == ImportOpens \/ StageUsable \/ StageUnusable \/ Validate \/ Accepted
          \/ Rejected \/ ValidateFails \/ ValidateUnconfirmed
Restore == RestoreDeclined \/ RestoreBegin \/ Park \/ ParkFails \/ Parked \/ PutBack
           \/ PutBackFails \/ Restored \/ Reretire \/ ReretireFails \/ Reretired
Clear == ClearBegin \/ ClearPiece \/ ClearQuarantine \/ Cleared

Next ==
  \/ \E p \in Proc : \/ \E k \in Kinds[p] : Start(p, k)
                     \/ LogoutFindsNothing(p)
                     \/ LateStage(p) \/ ImportSession(p) \/ Crash(p)
  \/ Rotation \/ Login \/ Import \/ Cancel \/ Cleanup \/ Restore \/ Clear
  \/ Release

Spec == Init /\ [][Next]_vars

-----------------------------------------------------------------------------
(***************************************************************************)
(* What the pieces promise.                                                *)
(***************************************************************************)

\* A session whose source state was written stays whole, at the active paths
\* or in one quarantine directory, whatever fails once, is refused or is
\* cancelled on the way: rotate_source_profile leaves "either the old session
\* intact or a complete retirement".  Out of its promise are the sessions cut
\* up by a death, by a logout, and by a write that does not hold the lease.
SessionWhole ==
  pc \notin Moving =>
    \A s \in committed \ spoilt :
      \E t \in Stores : t.profile = s /\ t.cookies = s /\ t.source = s

\* No device identity is handed to a second session: a session that the auth
\* preflight accepts is one session on the profile that was made for it.  That is
\* so but for cookies that were written without the lease and the profile of a
\* rejected candidate that could not be removed (_reset_profile_dir).
OneDevice ==
  Ready(live) /\ {live.profile, live.cookies} \intersect strays = {} =>
    live.profile = live.source /\ live.cookies = live.source

\* session_state.py:511-516 says it of every path, because every path that makes
\* a session rotates first.  --import-session does not.
FreshDevice == Ready(live) => live.profile = live.cookies

\* _reset_profile_dir clears the seeded profile "between failed attempts so
\* cookies don't mix".  A removal that fails says nothing, and the next candidate
\* is accepted on the directory of the rejected one.
CandidatesApart == Ready(live) => live.profile = live.source

\* A login or import that retired a session and ends without one of its own,
\* with nothing in its way, leaves exactly what was there before it; a session
\* it committed is never undone by its own finally, though a cancel during the
\* close makes the flow report a failure.
RestoredUnlessCommitted ==
  pc = "done" =>
    /\ kind \in {"login", "import"} /\ retired # 0 /\ n \notin committed /\ clean
         => live = before
    /\ n \in committed =>
         live.profile \in {n} \union strays /\ live.source = n /\ live.cookies # 0

\* A logout that found a session and succeeds, with nobody writing beside it, has
\* left no piece of any session: active, retired, or parked beside a retired one.
LogoutClears ==
  /\ pc = "done" /\ kind = "logout" /\ ok /\ clean
  /\ Present(before) \intersect {"profile", "cookies", "source"} # {}
  => \A t \in Stores : t = Nothing

\* session_state.py:519 and tests/test_session_state.py:354 say so of every
\* logout.  One that finds nothing active leaves the quarantines.
LogoutLeavesNothing ==
  pc = "done" /\ kind = "logout" /\ ok /\ clean => \A t \in Stores : t = Nothing

\* A session is put back only when the browser that the failed flow started
\* there is gone: only "a proven teardown clears the profile", and "an exception
\* or cancellation that never reaches the assignment leaves it held".  This does
\* not hold: a close that failed or was cancelled is taken for confirmed.
RestoredAfterTeardown == pc \in {"park", "back", "reretire"} => ~running
=============================================================================
