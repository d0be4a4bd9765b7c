---------------------------- MODULE BrowserSetup ----------------------------
(***************************************************************************)
(* What bootstrap.py runs behind a tool call until a browser and a session *)
(* are there: the background installation of Chromium, the one silent      *)
(* import, the background login, and the gate every call passes, beside    *)
(* command-line processes on the same directory.                           *)
(*                                                                         *)
(* One server process is an event loop, an action the code between two     *)
(* awaits.  The sequential middleware admits one call at a time; the setup *)
(* and the login task outlive it.  The profile's lease and the rotation    *)
(* are BrowserServer's and SessionStore's; here a session is or is not     *)
(* complete on disk.  auth_state and last_error are left out: the program  *)
(* shows them and decides nothing by them.                                 *)
(***************************************************************************)
EXTENDS Naturals

CONSTANTS
  Runtimes,    \* a managed browser, a container, or the operator's own Chrome
  MaxImports   \* bounds what the monitor of imports counts to

ASSUME BrowserSetupAssumption ==
  /\ Runtimes \subseteq {"managed", "docker", "chrome"}
  /\ MaxImports \in Nat \ {0}

VARIABLES
  settings,   \* the configuration, which a server never changes
  installed,  \* the binaries whose INSTALLATION_COMPLETE is there
  metadata,   \* whether browser-install.json is there and current
  session,    \* whether profile, cookies and source state are all on disk
  setup,      \* the setup task: the stage it is at, or how it ended
  setupState, \* _state.setup_state
  login,      \* the login task, likewise
  retired,    \* the session its rotation moved aside
  attempted,  \* _state.import_attempted
  headless,   \* drivers.browser._headless
  toolCall,   \* where the tool call is; at first, the server's own start
  cli,        \* where a command-line process's installation is
  imports     \* monitor: imports since the session was last given up

disk == <<installed, metadata>>
setupVars == <<setup, setupState>>
loginVars == <<login, retired, session>>
importVars == <<attempted, imports, headless>>
serverVars == <<settings, disk, setupVars, loginVars, importVars, toolCall, cli>>

Settings == [runtime : Runtimes, headed : BOOLEAN, eager : BOOLEAN, autoImport : BOOLEAN]

Installing == {"shell", "full"}

SetupTypeOK ==
  /\ settings \in Settings
  /\ installed \in SUBSET {"shell", "full"}
  /\ {metadata, session, retired, attempted, headless} \subseteq BOOLEAN
  /\ setup \in Installing \union {"none", "ok", "failed"}
  /\ setupState \in {"not_started", "installing", "ready", "failed"}
  /\ login \in Installing \union {"none", "start", "opening", "open", "ok", "failed"}
  /\ toolCall \in {"lifespan", "none", "close", "import", "wait", "browse", "relogin"}
  /\ cli \in Installing \union {"none", "only-shell"}
  /\ imports \in 0..MaxImports

\* shell_ready, full_chromium_ready: both look at the metadata and the markers.
ShellReady == metadata /\ "shell" \in installed
FullReady == metadata /\ installed = {"shell", "full"}

\* browser_setup_ready, for the configured launch mode.
SetupReady == IF settings.headed THEN FullReady ELSE ShellReady

\* _needs_full_chromium
NeedsFull == settings.headed \/ settings.eager

Running(task) == task \notin {"none", "ok", "failed"}

\* A server starts, before its lifespan, on whatever earlier ones left.
SetupInit ==
  /\ settings \in Settings
  /\ installed \in SUBSET {"shell", "full"}
  /\ metadata \in BOOLEAN
  /\ session \in BOOLEAN
  /\ setup = "none" /\ setupState = "not_started"
  /\ login = "none" /\ retired = FALSE
  /\ attempted = FALSE /\ imports = 0
  /\ headless = ~ settings.headed
  /\ toolCall = "lifespan"
  /\ cli = "none"

-----------------------------------------------------------------------------
\* _refresh_background_task_state: a task that ended is reaped.
Reaped(task) == IF Running(task) THEN task ELSE "none"

StateReaped == IF setup = "ok" THEN "ready" ELSE IF setup = "failed" THEN "failed" ELSE setupState

ReapSetup == setup' = Reaped(setup) /\ setupState' = StateReaped

\* Fault: a setup that failed is not tried again.
GateStartsOnce == StateReaped # "failed" /\ Reaped(setup) = "none"

\* The gate starts the setup when none runs, whatever became of the last one.
GateStarts == Reaped(setup) = "none"

\* ensure_tool_ready_or_raise, browser not ready: a stale READY is dropped with
\* its metadata, the setup is started, and the call is told to come again.
GateRefuses ==
  /\ toolCall = "none" /\ settings.runtime = "managed" /\ ~ SetupReady
  /\ metadata' = (metadata /\ StateReaped # "ready")
  /\ IF GateStarts
     THEN setup' = "shell" /\ setupState' = "installing"
     ELSE /\ setup' = Reaped(setup)
          /\ setupState' = IF StateReaped = "ready" THEN "not_started" ELSE StateReaped
  /\ login' = Reaped(login)
  /\ UNCHANGED <<settings, installed, retired, session, importVars, toolCall, cli>>

\* start_background_browser_setup_if_needed, as the lifespan calls it.
Lifespan ==
  /\ toolCall = "lifespan"
  /\ toolCall' = "none"
  /\ \/ settings.runtime = "docker" /\ UNCHANGED setupVars
     \/ /\ settings.runtime = "chrome" \/ (settings.runtime = "managed" /\ SetupReady)
        /\ setupState' = "ready"
        /\ UNCHANGED setup
     \/ /\ settings.runtime = "managed" /\ ~ SetupReady
        /\ setup' = "shell" /\ setupState' = "installing"
  /\ UNCHANGED <<settings, disk, loginVars, importVars, cli>>

\* Past the browser's gate; in a container there is none.
BrowserThere == settings.runtime = "managed" => SetupReady

GateReaps ==
  /\ toolCall = "none" /\ BrowserThere
  /\ setup' = Reaped(setup)
  /\ setupState' = IF settings.runtime = "docker" THEN StateReaped ELSE "ready"

GatePasses ==
  /\ GateReaps
  /\ session
  /\ login' = Reaped(login)
  /\ toolCall' = "browse"
  /\ UNCHANGED <<settings, disk, retired, session, importVars, cli>>

\* _auto_import_allowed
MayImport == settings.autoImport /\ settings.runtime # "docker"

\* Fault: an import is claimed under a login that runs.
ClaimsAnyway == ~ attempted /\ MayImport

\* The one import of an episode, never on top of a login.
Claims == ~ Running(login) /\ ~ attempted /\ MayImport

GateImports ==
  /\ GateReaps
  /\ settings.runtime # "docker" /\ ~ session
  /\ Claims
  /\ attempted' = TRUE
  /\ imports' = IF imports < MaxImports THEN imports + 1 ELSE imports
  /\ login' = Reaped(login)
  /\ toolCall' = "close"
  /\ UNCHANGED <<settings, disk, retired, session, headless, cli>>

\* The login that runs, or a new one after what is left was moved aside; if it
\* cannot be, the call ends without one.
JoinLogin ==
  \/ login' = (IF Running(login) THEN login ELSE "start") /\ toolCall' = "wait"
  \/ ~ Running(login) /\ login' = "none" /\ toolCall' = "none"

GateLogsIn ==
  /\ GateReaps
  /\ settings.runtime # "docker" /\ ~ session
  /\ ~ Claims
  /\ JoinLogin
  /\ UNCHANGED <<settings, disk, retired, session, importVars, cli>>

DockerRefuses ==
  /\ GateReaps
  /\ settings.runtime = "docker" /\ ~ session
  /\ login' = Reaped(login)
  /\ UNCHANGED <<settings, disk, retired, session, importVars, toolCall, cli>>

-----------------------------------------------------------------------------
\* _try_auto_import_session: the old browser is closed, the launch mode saved
\* and forced to headless ...
ImportStarts ==
  /\ toolCall = "close"
  /\ headless' = TRUE
  /\ toolCall' = "import"
  /\ UNCHANGED <<settings, disk, setupVars, loginVars, attempted, imports, cli>>

\* Fault: the launch mode is put back only after an import that succeeded.
PutBackIfImported == headless' = IF session THEN ~ settings.headed ELSE headless

\* Its finally.  The mode saved is the configured one: nothing else sets it.
PutBack == headless' = ~ settings.headed

\* It imports a session, which lets the call through ...
Imported ==
  /\ toolCall = "import"
  /\ session' = TRUE
  /\ PutBack
  /\ ReapSetup
  /\ login' = Reaped(login)
  /\ toolCall' = "browse"
  /\ UNCHANGED <<settings, disk, retired, attempted, imports, cli>>

\* ... or none in 60 s, and the call falls back to a login, unless there is a
\* session by now ...
NotImported ==
  /\ toolCall = "import"
  /\ UNCHANGED session
  /\ PutBack
  /\ ReapSetup
  /\ IF session THEN toolCall' = "browse" /\ login' = Reaped(login) ELSE JoinLogin
  /\ UNCHANGED <<settings, disk, retired, attempted, imports, cli>>

\* ... or a dead proxy's error ends the call; a cancelled call takes its import
\* with it.
CallCancelled ==
  /\ toolCall \notin {"lifespan", "none"}
  /\ IF toolCall = "import" THEN PutBack ELSE UNCHANGED headless
  /\ toolCall' = "none"
  /\ UNCHANGED <<settings, disk, setupVars, loginVars, attempted, imports, cli>>

\* The inline wait: a session within the budget, or the call is told to poll.
WaitEnds ==
  /\ toolCall = "wait"
  /\ ReapSetup
  /\ login' = Reaped(login)
  /\ toolCall' = IF session THEN "browse" ELSE "none"
  /\ UNCHANGED <<settings, disk, retired, session, importVars, cli>>

\* The tool runs and ends; or LinkedIn refuses the session, and outside a
\* container a probe that says dead lets it be given up ...
BrowseEnds ==
  /\ toolCall = "browse"
  /\ toolCall' \in {"none"} \union (IF settings.runtime = "docker" THEN {} ELSE {"relogin"})
  /\ UNCHANGED <<settings, disk, setupVars, loginVars, importVars, cli>>

\* ... or the browser's binary is missing: invalidate_browser_setup.
BinaryMissing ==
  /\ toolCall = "browse"
  /\ metadata' = FALSE
  /\ setupState' = IF setupState = "ready" THEN "not_started" ELSE setupState
  /\ toolCall' = "none"
  /\ UNCHANGED <<settings, installed, setup, loginVars, importVars, cli>>

\* invalidate_auth_and_trigger_relogin, after the browser was closed: a login
\* that runs is left alone; else the session is retired, unless it probes
\* otherwise now or cannot be moved, and a new episode starts, with a login and
\* with its import allowed again.
Relogin ==
  /\ toolCall = "relogin"
  /\ ReapSetup
  /\ \/ login' = Reaped(login) /\ UNCHANGED <<session, attempted, imports>>
     \/ /\ ~ Running(login)
        /\ login' = "start" /\ session' = FALSE /\ attempted' = FALSE /\ imports' = 0
  /\ toolCall' = "none"
  /\ UNCHANGED <<settings, disk, retired, headless, cli>>

-----------------------------------------------------------------------------
\* One stage of "patchright install" succeeds and is recorded at once.
Installs(stage) ==
  /\ installed' = installed \union {stage}
  /\ metadata' = TRUE

SetupInstalls ==
  /\ setup \in Installing
  /\ Installs(setup)
  /\ setup' = IF setup = "shell" /\ NeedsFull THEN "full" ELSE "ok"
  /\ UNCHANGED <<settings, setupState, loginVars, importVars, toolCall, cli>>

SetupFails ==
  /\ setup \in Installing
  /\ setup' = "failed"
  /\ UNCHANGED <<settings, disk, setupState, loginVars, importVars, toolCall, cli>>

\* _ensure_full_chromium_installed: the stage to begin with, if any.
StageMissing == IF FullReady THEN "done" ELSE IF ShellReady THEN "full" ELSE "shell"

\* _run_login_flow: Chromium first, unless the operator brought one ...
LoginStarts ==
  /\ login = "start"
  /\ login' = IF settings.runtime = "chrome" \/ StageMissing = "done" THEN "opening"
              ELSE StageMissing
  /\ UNCHANGED <<settings, disk, setupVars, retired, session, importVars, toolCall, cli>>

LoginInstalls ==
  /\ login \in Installing
  /\ Installs(login)
  /\ login' = IF login = "shell" THEN "full" ELSE "opening"
  /\ UNCHANGED <<settings, setupVars, retired, session, importVars, toolCall, cli>>

\* ... then interactive_login: it retires the session it finds by then and
\* opens a visible browser on the profile.
LoginOpens ==
  /\ login = "opening"
  /\ retired' = session /\ session' = FALSE
  /\ login' = "open"
  /\ UNCHANGED <<settings, disk, setupVars, importVars, toolCall, cli>>

LoginSucceeds ==
  /\ login = "open"
  /\ session' = TRUE /\ retired' = FALSE
  /\ login' = "ok"
  /\ UNCHANGED <<settings, disk, setupVars, importVars, toolCall, cli>>

\* It may fail or be cancelled at any stage, and puts back what it retired.
LoginFails ==
  /\ Running(login)
  /\ session' = (session \/ retired) /\ retired' = FALSE
  /\ login' = "failed"
  /\ UNCHANGED <<settings, disk, setupVars, importVars, toolCall, cli>>

-----------------------------------------------------------------------------
\* ensure_browser_installed: --login wants all, --status and the import only
\* the shell.
CliStarts ==
  /\ cli = "none"
  /\ \/ StageMissing # "done" /\ cli' = StageMissing
     \/ ~ ShellReady /\ cli' = "only-shell"
  /\ UNCHANGED <<settings, disk, setupVars, loginVars, importVars, toolCall>>

CliInstalls ==
  /\ cli # "none"
  /\ Installs(IF cli = "full" THEN "full" ELSE "shell")
  /\ cli' = IF cli = "shell" THEN "full" ELSE "none"
  /\ UNCHANGED <<settings, setupVars, loginVars, importVars, toolCall>>

CliFails ==
  /\ cli # "none"
  /\ cli' = "none"
  /\ UNCHANGED <<settings, disk, setupVars, loginVars, importVars, toolCall>>

\* --login, --import-session or --logout of another process.
SessionChanges ==
  /\ session' = ~ session
  /\ UNCHANGED <<settings, disk, setupVars, login, retired, importVars, toolCall, cli>>

\* Somebody removes a binary.
Removed ==
  /\ \E b \in installed : installed' = installed \ {b}
  /\ UNCHANGED <<settings, metadata, setupVars, loginVars, importVars, toolCall, cli>>

\* The server ends at any point and starts again; the installer it had started
\* may finish without it, and the package may have been upgraded.
Restart ==
  /\ toolCall # "lifespan"
  /\ \/ /\ installed' \in {installed} \union {installed \union ({setup, login} \cap Installing)}
        /\ UNCHANGED metadata
     \/ installed' = {} /\ metadata' = FALSE
  /\ setup' = "none" /\ setupState' = "not_started"
  /\ login' = "none" /\ retired' = FALSE
  /\ attempted' = FALSE /\ imports' = 0
  /\ headless' = ~ settings.headed
  /\ toolCall' = "lifespan"
  /\ UNCHANGED <<settings, session, cli>>

Gate == GateRefuses \/ GatePasses \/ GateImports \/ GateLogsIn \/ DockerRefuses

ToolCallMoves == ImportStarts \/ Imported \/ NotImported \/ WaitEnds \/ BrowseEnds \/ Relogin

LoginMoves == LoginStarts \/ LoginInstalls \/ LoginOpens \/ LoginSucceeds \/ LoginFails

SetupNext ==
  \/ Lifespan \/ Gate \/ ToolCallMoves \/ CallCancelled \/ BinaryMissing
  \/ SetupInstalls \/ SetupFails \/ LoginMoves
  \/ CliStarts \/ CliInstalls \/ CliFails
  \/ SessionChanges \/ Removed \/ Restart

\* The client calls again as it is told to, every wait of a call is bounded,
\* and an installation that is tried again and again works some time.
Fairness ==
  /\ WF_serverVars(Lifespan) /\ WF_serverVars(Gate) /\ WF_serverVars(ToolCallMoves)
  /\ \A stage \in Installing : SF_serverVars(setup = stage /\ SetupInstalls)

SetupSpec == SetupInit /\ [][SetupNext]_serverVars

SetupFairSpec == SetupSpec /\ Fairness

-----------------------------------------------------------------------------
\* The silent import's browser is never on the profile beside the login's ("both
\* would open a persistent context on the same user_data_dir and collide",
\* bootstrap.py:816), and the keychain is asked at most once until the session
\* is given up, however imports, calls and logins end (bootstrap.py:820).
ImportAlone ==
  /\ ~ (toolCall = "import" /\ Running(login))
  /\ imports <= 1

\* A tool's browser starts in the configured mode: whatever ended an import,
\* the mode it forced is gone by then (bootstrap.py:752, 792).
ConfiguredMode == toolCall = "browse" => headless = ~ settings.headed

\* A server whose calls keep coming gets its browser, and gets it again after
\* every setup that failed, lost its metadata to an invalidation or died with
\* its process, unless binaries are removed or servers restarted for ever.
Recovers ==
  settings.runtime = "managed" => []<>SetupReady \/ []<><<Removed \/ Restart>>_serverVars
=============================================================================
