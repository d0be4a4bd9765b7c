---------------------------- MODULE BrowserServer ----------------------------
(***************************************************************************)
(* The server processes that share one browser profile: a tool call from   *)
(* the middleware to the browser singleton and back, and the background    *)
(* login that may run beside it in the same process.                       *)
(*                                                                         *)
(* The profile lease is here what ProfileLease was shown to implement: a   *)
(* process takes a reference when no other process has one.  Each process  *)
(* is an event loop, so an action is the code between two awaits.  All     *)
(* processes run on one host with the Obscura backend: whoever starts a    *)
(* browser first kills whatever holds the fixed CDP port.                  *)
(***************************************************************************)
EXTENDS Naturals, FiniteSets

CONSTANTS
  Proc,         \* the processes on the profile
  Cli,          \* those that only run --login; the others are servers
  MaxCalls,     \* the tool calls of a server's life (bounds calls in flight)
  MaxKept,      \* the logins of a process whose browser may fail to start
  MaxSessions,  \* the LinkedIn sessions ever minted
  HttpProbe,    \* LINKEDIN_HTTP_PROBE: a stored session may probe dead
  None

ASSUME BrowserServerAssumption ==
  /\ Cli \subseteq Proc
  /\ None \notin Proc /\ None \notin Nat
  /\ MaxCalls \in Nat /\ MaxKept \in Nat /\ MaxSessions \in Nat
  /\ HttpProbe \in BOOLEAN

VARIABLES
  refs,      \* each process's references to the profile lease
  call,      \* where its tool call (or its shutdown) is
  login,     \* where its login task is
  inFlight,  \* _calls_in_flight
  browser,   \* whether _browser is set
  cookies,   \* the session cached in that browser's manager
  closer,    \* who is inside close_browser, past the lifecycle lock
  flag,      \* the lease's browser_open
  kept,      \* references a login kept because its close was not confirmed
  fresh,     \* the session cached in the login browser's manager
  retired,   \* what the login's rotation moved to the quarantine
  obscura,   \* the browser process on the CDP port: whose, and what for
  store,     \* on disk: the profile directory, source-state.json, cookies.json
  minted     \* the newest LinkedIn session

callVars == <<call, inFlight>>
singletonVars == <<browser, cookies, closer>>
loginVars == <<login, flag, kept, fresh, retired>>
vars == <<refs, callVars, singletonVars, loginVars, obscura, store, minted>>

\* 0 is a cookie jar that holds no session.
Session == 0..MaxSessions

Stored == [profile: BOOLEAN, state: BOOLEAN, jar: Session \union {None}]

Nothing == [profile |-> FALSE, state |-> FALSE, jar |-> None]

CallState == {"none", "queued", "gate", "wait", "ready", "launch", "check", "tool",
              "close", "relogin", "finish", "shutdown", "exit"}

LoginState == {"none", "prepare", "close", "rotate", "clear", "launch", "open",
               "saved", "failed", "undo"}

Use == {"tool", "closing", "login", "orphan"}

TypeOK ==
  /\ refs \in [Proc -> Nat]
  /\ call \in [Proc -> CallState]
  /\ login \in [Proc -> LoginState]
  /\ inFlight \in [Proc -> 0..MaxCalls]
  /\ browser \in [Proc -> BOOLEAN]
  /\ cookies \in [Proc -> Session]
  /\ closer \in [Proc -> {"none", "call", "login"}]
  /\ flag \in [Proc -> BOOLEAN]
  /\ kept \in [Proc -> 0..MaxKept]
  /\ fresh \in [Proc -> Session]
  /\ retired \in [Proc -> Stored \union {None}]
  /\ obscura \in (Proc \X Use) \union {None}
  /\ store \in Stored
  /\ minted \in Session

Init ==
  /\ refs = [p \in Proc |-> 0]
  /\ call = [p \in Proc |-> "none"]
  /\ login = [p \in Proc |-> "none"]
  /\ inFlight = [p \in Proc |-> 0]
  /\ browser = [p \in Proc |-> FALSE]
  /\ cookies = [p \in Proc |-> 0]
  /\ closer = [p \in Proc |-> "none"]
  /\ flag = [p \in Proc |-> FALSE]
  /\ kept = [p \in Proc |-> 0]
  /\ fresh = [p \in Proc |-> 0]
  /\ retired = [p \in Proc |-> None]
  /\ obscura = None
  /\ \/ store = Nothing /\ minted = 0
     \/ store = [profile |-> TRUE, state |-> TRUE, jar |-> 1] /\ minted = 1 /\ MaxSessions > 0

\* try_acquire succeeds: no other process holds the lease.
Free(p) == \A q \in Proc \ {p} : refs[q] = 0

\* Fault: the lease is not asked for.
TakeRefUnasked(p) == refs' = [refs EXCEPT ![p] = @ + 1]

TakeRef(p) == Free(p) /\ refs' = [refs EXCEPT ![p] = @ + 1]

DropRef(p) == refs' = [refs EXCEPT ![p] = @ - 1]

CallTo(p, s) == call' = [call EXCEPT ![p] = s]

LoginTo(p, s) == login' = [login EXCEPT ![p] = s]

\* _auth_ready: the files are there; nothing looks at what the jar contains.
AuthReady == store.profile /\ store.state /\ store.jar # None

HasSession(j) == j # None /\ j > 0

\* The stored session may be given up: there is none, or its probe says dead.
MayInvalidate == HasSession(store.jar) => HttpProbe

\* _load_cookies: the jar's session, or else what auto_extract_cookies finds
\* in the user's own browsers: nothing, the newest session or a newer one.
Loaded == IF HasSession(store.jar) THEN {store.jar}
          ELSE {n \in Session : n \in {0, minted, minted + 1}}

\* What is left of p's Obscura once close() returned: it terminates it, unless
\* an earlier step of close raised, which it only logs.
AfterKill(p, use) ==
  IF obscura = <<p, use>> THEN {None, <<p, "orphan">>} ELSE {obscura}

\* _exclusive_profile: rotation is refused while the lease says a login browser
\* is open, except that without anything stored it is not even asked.
MayRotate(p) == flag[p] => store = Nothing

-----------------------------------------------------------------------------
\* on_call_tool, once the call is first in line for the in-process lock.
StartCall(p) ==
  /\ p \notin Cli
  /\ call[p] = "none" /\ inFlight[p] < MaxCalls
  /\ CallTo(p, "queued")
  /\ UNCHANGED <<refs, inFlight, singletonVars, loginVars, obscura, store, minted>>

\* The lease is obtained, at once or while waiting; the call goes in flight.
TakeLease(p) ==
  /\ call[p] = "queued"
  /\ TakeRef(p)
  /\ inFlight' = [inFlight EXCEPT ![p] = @ + 1]
  /\ CallTo(p, "gate")
  /\ UNCHANGED <<singletonVars, loginVars, obscura, store, minted>>

\* The lease was still another process's at the last poll: BrowserBusyError.
GiveUp(p) ==
  /\ call[p] = "queued" /\ ~ Free(p)
  /\ CallTo(p, "none")
  /\ UNCHANGED <<refs, inFlight, singletonVars, loginVars, obscura, store, minted>>

\* ensure_tool_ready_or_raise finds a session on disk.
GatePasses(p) ==
  /\ call[p] \in {"gate", "wait"}
  /\ AuthReady
  /\ CallTo(p, "ready")
  /\ UNCHANGED <<refs, inFlight, singletonVars, loginVars, obscura, store, minted>>

\* ... or none, and waits for a login: the one that runs, or one it starts
\* after moving what is left of the old session aside.
GateWaits(p) ==
  /\ call[p] = "gate"
  /\ ~ AuthReady
  /\ IF login[p] # "none"
     THEN UNCHANGED <<login, store>>
     ELSE /\ MayRotate(p)
          /\ store' = Nothing
          /\ LoginTo(p, "prepare")
  /\ CallTo(p, "wait")
  /\ UNCHANGED <<refs, inFlight, singletonVars, flag, kept, fresh, retired, obscura, minted>>

\* The call fails, is cancelled, or its inline wait for the login runs out.
CallFails(p) ==
  /\ call[p] \in {"gate", "wait", "ready"}
  /\ CallTo(p, "finish")
  /\ UNCHANGED <<refs, inFlight, singletonVars, loginVars, obscura, store, minted>>

\* LinkedIn refuses the session, or there are no cookies to be had (before the
\* browser starts, at its first page, or within the tool): handle_auth_error
\* closes the browser to log in again, unless a stored session does not probe
\* dead (then the call just fails).
AuthError(p) ==
  /\ call[p] \in {"ready", "check", "tool"}
  /\ MayInvalidate
  /\ CallTo(p, "relogin")
  /\ IF call[p] = "check" THEN obscura' \in AfterKill(p, "tool") ELSE UNCHANGED obscura
  /\ UNCHANGED <<refs, inFlight, singletonVars, loginVars, store, minted>>

\* get_or_create_browser returns the singleton, whatever became of it.
Reuse(p) ==
  /\ call[p] = "ready" /\ browser[p]
  /\ CallTo(p, "tool")
  /\ UNCHANGED <<refs, inFlight, singletonVars, loginVars, obscura, store, minted>>

\* ... or starts one: start() clears the CDP port first ...
ClearPort(p) ==
  /\ call[p] = "ready" /\ ~ browser[p]
  /\ store.profile
  /\ obscura' = None
  /\ CallTo(p, "launch")
  /\ UNCHANGED <<refs, inFlight, singletonVars, loginVars, store, minted>>

\* ... spawns Obscura, which fails on a port taken meanwhile, and loads cookies ...
Launch(p) ==
  /\ call[p] = "launch"
  /\ obscura = None
  /\ obscura' = <<p, "tool">>
  /\ \E s \in Loaded : /\ cookies' = [cookies EXCEPT ![p] = s]
                       /\ minted' = IF s > minted THEN s ELSE minted
  /\ store' = [store EXCEPT !.profile = TRUE]
  /\ CallTo(p, "check")
  /\ UNCHANGED <<refs, inFlight, browser, closer, loginVars>>

\* ... and the singleton is set once the feed was loaded, whatever it showed:
\* a page without a session passes _feed_auth_succeeds like one with.
Created(p) ==
  /\ call[p] = "check"
  /\ obscura = <<p, "tool">>
  /\ browser' = [browser EXCEPT ![p] = TRUE]
  /\ CallTo(p, "tool")
  /\ UNCHANGED <<refs, inFlight, cookies, closer, loginVars, obscura, store, minted>>

\* _authenticate_existing_profile closes what it started and raises.
StartFails(p) ==
  /\ call[p] \in {"launch", "check"}
  /\ obscura' \in AfterKill(p, "tool")
  /\ CallTo(p, "finish")
  /\ UNCHANGED <<refs, inFlight, singletonVars, loginVars, store, minted>>

ToolEnds(p) ==
  /\ call[p] = "tool"
  /\ CallTo(p, "finish")
  /\ UNCHANGED <<refs, inFlight, singletonVars, loginVars, obscura, store, minted>>

\* The close_session tool needs no session, only the browser closed.
CloseSession(p) ==
  /\ call[p] = "gate"
  /\ CallTo(p, "close")
  /\ UNCHANGED <<refs, inFlight, singletonVars, loginVars, obscura, store, minted>>

\* The middleware's finally: the lease is released.  release_if_idle then does
\* nothing, because nothing ever takes this call out of _calls_in_flight.
Finish(p) ==
  /\ call[p] = "finish"
  /\ DropRef(p)
  /\ CallTo(p, "none")
  /\ UNCHANGED <<inFlight, singletonVars, loginVars, obscura, store, minted>>

\* browser_lifespan ends: the browser is closed, and the process exits (Die).
Shutdown(p) ==
  /\ p \notin Cli
  /\ call[p] = "none"
  /\ CallTo(p, "shutdown")
  /\ UNCHANGED <<refs, inFlight, singletonVars, loginVars, obscura, store, minted>>

-----------------------------------------------------------------------------
\* close_browser, on behalf of the call (or shutdown) or of the login.
Closing(p, w) ==
  \/ w = "call" /\ call[p] \in {"close", "relogin", "shutdown"}
  \/ w = "login" /\ login[p] = "close"

\* invalidate_auth_and_trigger_relogin: unless a login runs or the stored
\* session does not probe dead, the session is retired and a login started.
Relogin(p) ==
  /\ \/ /\ login[p] = "none" /\ MayInvalidate /\ MayRotate(p)
        /\ store' = Nothing
        /\ LoginTo(p, "prepare")
     \/ /\ login[p] # "none" \/ HasSession(store.jar) \/ ~ MayRotate(p)
        /\ UNCHANGED <<login, store>>
  /\ CallTo(p, "finish")
  /\ UNCHANGED refs

\* Fault: interactive_login ignores what try_acquire answered.
StartRotatingAnyway(p) ==
  /\ refs' = [refs EXCEPT ![p] = @ + 1] /\ LoginTo(p, "rotate")
  /\ UNCHANGED <<call, store>>

\* interactive_login, after close_browser: the lease, or BrowserBusyError.
StartRotating(p) ==
  /\ IF Free(p) THEN TakeRef(p) /\ LoginTo(p, "rotate")
                ELSE UNCHANGED refs /\ LoginTo(p, "none")
  /\ UNCHANGED <<call, store>>

Closed(p, w) ==
  /\ \/ /\ w = "call" /\ call[p] \in {"close", "shutdown"}
        /\ CallTo(p, IF call[p] = "close" THEN "finish" ELSE "exit")
        /\ UNCHANGED <<refs, login, store>>
     \/ w = "call" /\ call[p] = "relogin" /\ Relogin(p)
     \/ w = "login" /\ StartRotating(p)
  /\ UNCHANGED <<inFlight, cookies, flag, kept, fresh, retired, minted>>

NothingToClose(p, w) ==
  /\ Closing(p, w)
  /\ closer[p] = "none" /\ ~ browser[p]
  /\ Closed(p, w)
  /\ UNCHANGED <<browser, closer, obscura>>

\* The globals are cleared and the manager's cookies exported (a failure to
\* export is only logged) before the first await.
CloseStart(p, w) ==
  /\ Closing(p, w)
  /\ closer[p] = "none" /\ browser[p]
  /\ closer' = [closer EXCEPT ![p] = w]
  /\ browser' = [browser EXCEPT ![p] = FALSE]
  /\ store' \in {store, [store EXCEPT !.jar = cookies[p]]}
  /\ obscura' = IF obscura = <<p, "tool">> THEN <<p, "closing">> ELSE obscura
  /\ UNCHANGED <<refs, callVars, cookies, loginVars, minted>>

\* Fault: the lifecycle lock is not released when the browser is closed.
CloseEndStaysLocked(p, w) ==
  /\ closer[p] = w
  /\ UNCHANGED closer
  /\ obscura' \in AfterKill(p, "closing")
  /\ Closed(p, w)
  /\ UNCHANGED browser

CloseEnd(p, w) ==
  /\ closer[p] = w
  /\ closer' = [closer EXCEPT ![p] = "none"]
  /\ obscura' \in AfterKill(p, "closing")
  /\ Closed(p, w)
  /\ UNCHANGED browser

-----------------------------------------------------------------------------
\* --login from the command line.
StartLogin(p) ==
  /\ p \in Cli
  /\ login[p] = "none"
  /\ LoginTo(p, "prepare")
  /\ UNCHANGED <<refs, callVars, singletonVars, flag, kept, fresh, retired, obscura, store, minted>>

\* The browser is installed, which takes a while, or cannot be.
Prepared(p) ==
  /\ login[p] = "prepare"
  /\ \/ kept[p] < MaxKept /\ LoginTo(p, "close")
     \/ LoginTo(p, "none")
  /\ UNCHANGED <<refs, callVars, singletonVars, flag, kept, fresh, retired, obscura, store, minted>>

\* rotate_shielded, then mark_browser_open.
Rotate(p) ==
  /\ login[p] = "rotate"
  /\ MayRotate(p)
  /\ retired' = [retired EXCEPT ![p] = IF store = Nothing THEN None ELSE store]
  /\ store' = Nothing
  /\ flag' = [flag EXCEPT ![p] = TRUE]
  /\ LoginTo(p, "clear")
  /\ UNCHANGED <<refs, callVars, singletonVars, kept, fresh, obscura, minted>>

\* Fault: a login that fails before its browser opens keeps the lease.
RotateFailsHolding(p) ==
  /\ login[p] = "rotate"
  /\ UNCHANGED refs
  /\ LoginTo(p, "none")
  /\ UNCHANGED <<callVars, singletonVars, flag, kept, fresh, retired, obscura, store, minted>>

\* It was refused, failed or was cancelled, and put back what it had moved.
RotateFails(p) ==
  /\ login[p] = "rotate"
  /\ DropRef(p)
  /\ LoginTo(p, "none")
  /\ UNCHANGED <<callVars, singletonVars, flag, kept, fresh, retired, obscura, store, minted>>

\* The login browser starts like any other ...
LoginClearPort(p) ==
  /\ login[p] = "clear"
  /\ obscura' = None
  /\ LoginTo(p, "launch")
  /\ UNCHANGED <<refs, callVars, singletonVars, flag, kept, fresh, retired, store, minted>>

LoginLaunch(p) ==
  /\ login[p] = "launch"
  /\ obscura = None
  /\ obscura' = <<p, "login">>
  /\ \E s \in Loaded : /\ fresh' = [fresh EXCEPT ![p] = s]
                       /\ minted' = IF s > minted THEN s ELSE minted
  /\ store' = [store EXCEPT !.profile = TRUE]
  /\ LoginTo(p, "open")
  /\ UNCHANGED <<refs, callVars, singletonVars, flag, kept, retired>>

\* ... but a start that raises never reaches close(): the close counts as not
\* confirmed, the lease is kept and the old session stays in the quarantine.
\* A start that was cancelled leaves its Obscura behind.
LoginStartFails(p) ==
  /\ login[p] \in {"clear", "launch"}
  /\ kept' = [kept EXCEPT ![p] = @ + 1]
  /\ retired' = [retired EXCEPT ![p] = None]
  /\ obscura' \in IF login[p] = "launch" /\ obscura = None THEN {None, <<p, "orphan">>}
                  ELSE {obscura}
  /\ LoginTo(p, "none")
  /\ UNCHANGED <<refs, callVars, singletonVars, flag, fresh, store, minted>>

\* _run_login exports the cookies its manager loaded at the start and writes the
\* source state.  The last look at the browser is five seconds old by then.
LoginSaves(p) ==
  /\ login[p] = "open"
  /\ store' = [store EXCEPT !.state = TRUE, !.jar = fresh[p]]
  /\ LoginTo(p, "saved")
  /\ UNCHANGED <<refs, callVars, singletonVars, flag, kept, fresh, retired, obscura, minted>>

LoginFails(p) ==
  /\ login[p] = "open"
  /\ LoginTo(p, "failed")
  /\ UNCHANGED <<refs, callVars, singletonVars, flag, kept, fresh, retired, obscura, store, minted>>

\* The login browser is closed; after a success the login is over.
LoginCloses(p) ==
  /\ login[p] \in {"saved", "failed"}
  /\ obscura' \in AfterKill(p, "login")
  /\ flag' = [flag EXCEPT ![p] = FALSE]
  /\ IF login[p] = "saved"
     THEN DropRef(p) /\ LoginTo(p, "none") /\ retired' = [retired EXCEPT ![p] = None]
     ELSE UNCHANGED <<refs, retired>> /\ LoginTo(p, "undo")
  /\ UNCHANGED <<callVars, singletonVars, kept, fresh, store, minted>>

\* restore_source_profile, unless a complete session is in place again.
Undo(p) ==
  /\ login[p] = "undo"
  /\ IF retired[p] = None \/ AuthReady
     THEN UNCHANGED store
     ELSE store' = retired[p]
  /\ retired' = [retired EXCEPT ![p] = None]
  /\ DropRef(p)
  /\ LoginTo(p, "none")
  /\ UNCHANGED <<callVars, singletonVars, flag, kept, fresh, obscura, minted>>

-----------------------------------------------------------------------------
\* A process ends, after its shutdown or killed at any point, and another is
\* started in its place.  The kernel frees its lease; its Obscura lives on.
Die(p) ==
  /\ refs' = [refs EXCEPT ![p] = 0]
  /\ CallTo(p, "none")
  /\ LoginTo(p, "none")
  /\ inFlight' = [inFlight EXCEPT ![p] = 0]
  /\ browser' = [browser EXCEPT ![p] = FALSE]
  /\ cookies' = [cookies EXCEPT ![p] = 0]
  /\ closer' = [closer EXCEPT ![p] = "none"]
  /\ flag' = [flag EXCEPT ![p] = FALSE]
  /\ kept' = [kept EXCEPT ![p] = 0]
  /\ fresh' = [fresh EXCEPT ![p] = 0]
  /\ retired' = [retired EXCEPT ![p] = None]
  /\ obscura' = IF obscura # None /\ obscura[1] = p THEN <<p, "orphan">> ELSE obscura
  /\ UNCHANGED <<store, minted>>

CallStep(p) ==
  \/ TakeLease(p) \/ GiveUp(p) \/ GatePasses(p) \/ GateWaits(p) \/ CallFails(p)
  \/ AuthError(p) \/ Reuse(p) \/ ClearPort(p) \/ Launch(p) \/ Created(p) \/ StartFails(p)
  \/ ToolEnds(p) \/ CloseSession(p) \/ Finish(p)
  \/ NothingToClose(p, "call") \/ CloseStart(p, "call") \/ CloseEnd(p, "call")

LoginStep(p) ==
  \/ Prepared(p) \/ Rotate(p) \/ RotateFails(p) \/ LoginClearPort(p) \/ LoginLaunch(p)
  \/ LoginStartFails(p) \/ LoginSaves(p) \/ LoginFails(p) \/ LoginCloses(p) \/ Undo(p)
  \/ NothingToClose(p, "login") \/ CloseStart(p, "login") \/ CloseEnd(p, "login")

Environment(p) == StartCall(p) \/ Shutdown(p) \/ StartLogin(p) \/ Die(p)

Next == \E p \in Proc : CallStep(p) \/ LoginStep(p) \/ Environment(p)

Spec == Init /\ [][Next]_vars

\* An event loop runs what can run, and every await of a call or of a login has
\* a timeout of its own.
FairSpec == Spec /\ \A p \in Proc : WF_vars(CallStep(p)) /\ WF_vars(LoginStep(p))

-----------------------------------------------------------------------------
\* The call of p is past the middleware's lease, and the login of p past its own.
CallHolds(p) == call[p] \notin {"none", "queued", "shutdown", "exit"}

LoginHolds(p) == login[p] \notin {"none", "prepare", "close"}

One(b) == IF b THEN 1 ELSE 0

\* No path through a call or a login, whatever fails in it, keeps a reference
\* to the lease or gives one back twice: only a login whose browser was not
\* confirmed closed keeps its own.
LeaseAccounted ==
  \A p \in Proc : refs[p] = One(CallHolds(p)) + One(LoginHolds(p)) + kept[p]

\* Two processes never run calls or logins on the profile at the same time,
\* and none does while another has kept the lease for an unconfirmed browser.
OneUser ==
  \A p, q \in Proc :
    CallHolds(p) \/ LoginHolds(p) \/ kept[p] > 0 =>
      p = q \/ ~ (CallHolds(q) \/ LoginHolds(q) \/ kept[q] > 0)

\* No step of one process takes the browser from under another process's call
\* (start() kills whatever is on the port, so only the lease protects a call).
PageSafeFromOthers ==
  [][\A p \in Proc :
       obscura = <<p, "tool">> /\ obscura' # obscura /\ call[p] \in {"check", "tool"} =>
         \A q \in Proc \ {p} : UNCHANGED <<call[q], login[q]>>]_vars

\* The references of BrowserServer are those of ProfileOwnership: the profile
\* passes from one process to another only by being given back in between.
Owners == {p \in Proc : refs[p] > 0}
Ownership == INSTANCE ProfileOwnership WITH owners <- Owners
OwnershipSpec == Ownership!Spec

\* A queued call ends, though the profile may be another process's, the login
\* it waits for may never succeed, and its close may wait for another close.
\* A login that was started ends too, so the next one can be.
CallsAndLoginsEnd ==
  \A p \in Proc : /\ call[p] = "queued" ~> call[p] = "none"
                  /\ login[p] = "prepare" ~> login[p] = "none"

-----------------------------------------------------------------------------
\* What comments and docstrings say, and the code does not do.

\* setup.py:57-58: closing a browser never puts a retired session's cookies
\* over newer ones.
ExportNeverOlder ==
  [][closer' # closer /\ HasSession(store.jar) /\ store'.jar # None => store'.jar >= store.jar]_vars

\* setup.py:130-133: a login that did not get a session does not count as one
\* that succeeded, which would cost the user the session that was working.
SuccessHasSession ==
  [][\A p \in Proc :
       login[p] = "open" /\ login'[p] = "saved" /\ retired[p] # None /\ HasSession(retired[p].jar)
       => HasSession(store'.jar)]_vars
=============================================================================
