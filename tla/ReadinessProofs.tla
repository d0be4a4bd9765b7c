-------------------------- MODULE ReadinessProofs --------------------------
(***************************************************************************)
(* Proofs about what has to be ready before a request is answered: the     *)
(* browser and its session (BrowserSetup), the sessions outside a browser  *)
(* (SessionSources), a connection (ConnectionPool), a batch                *)
(* (RequestBatcher) and a slot (AsyncExecutor); and about what is made of  *)
(* the links of the pages that the answer came from (References), for any  *)
(* values of their constants.  The six share no variable, so each has an   *)
(* invariant of its own.                                                   *)
(***************************************************************************)
EXTENDS BrowserSetup, SessionSources, ConnectionPool, RequestBatcher, AsyncExecutor,
        References, FiniteSetTheorems, WellFoundedInduction, TLAPS

-----------------------------------------------------------------------------
(***************************************************************************)
(* BrowserSetup: the import and the login never have browsers on one       *)
(* profile, the keychain is asked once an episode, and a tool's browser    *)
(* has the configured mode.                                                *)
(***************************************************************************)

\* What the safety properties depend on of the types.
Typed ==
  /\ settings.headed \in BOOLEAN
  /\ attempted \in BOOLEAN /\ headless \in BOOLEAN
  /\ login \in Installing \union {"none", "start", "opening", "open", "ok", "failed"}
  /\ imports \in 0..MaxImports

\* The one call has the process to itself until its import is over: it begins
\* under no login, and nothing but a call begins one.
NoLoginBeside == toolCall \in {"close", "import"} => ~ Running(login)

\* The mode is the configured one but while an import runs.
ModeSaved == toolCall # "import" => headless = ~ settings.headed

\* The claim precedes the import, and both are reset together.
Counted == imports <= 1 /\ (~ attempted => imports = 0)

SetupIInv == Typed /\ NoLoginBeside /\ ModeSaved /\ Counted

\* The invariant holds when a server starts.
LEMMA SetupInitIInv == SetupInit => SetupIInv
<1> SUFFICES ASSUME SetupInit PROVE SetupIInv
  OBVIOUS
<1>1. settings.headed \in BOOLEAN /\ headless = ~ settings.headed /\ attempted \in BOOLEAN
  BY DEF SetupInit, Settings
<1>2. Typed
  BY <1>1, BrowserSetupAssumption DEF SetupInit, Typed
<1>3. NoLoginBeside /\ ModeSaved
  BY DEF SetupInit, NoLoginBeside, ModeSaved
<1>4. Counted
  BY DEF SetupInit, Counted
<1> QED BY <1>2, <1>3, <1>4 DEF SetupIInv

\* Every step of the server, its tasks and its neighbours keeps it.
LEMMA SetupStepIInv == SetupIInv /\ [SetupNext]_serverVars => SetupIInv'
<1> SUFFICES ASSUME SetupIInv, [SetupNext]_serverVars PROVE SetupIInv'
  OBVIOUS
<1> USE BrowserSetupAssumption
    DEF SetupIInv, Typed, NoLoginBeside, ModeSaved, Counted, Settings, Installing, Running, Reaped,
        disk, setupVars, loginVars, importVars
<1>1. CASE Lifespan
  BY <1>1 DEF Lifespan
<1>2. CASE GateRefuses
  BY <1>2 DEF GateRefuses
<1>3. CASE GatePasses
  BY <1>3 DEF GatePasses, GateReaps
<1>4. CASE GateImports
  BY <1>4 DEF GateImports, GateReaps, Claims
<1>5. CASE GateLogsIn
  BY <1>5 DEF GateLogsIn, GateReaps, JoinLogin
<1>6. CASE DockerRefuses
  BY <1>6 DEF DockerRefuses, GateReaps
<1>7. CASE ImportStarts
  BY <1>7 DEF ImportStarts
<1>8. CASE Imported
  BY <1>8 DEF Imported, PutBack, ReapSetup
<1>9. CASE NotImported
  BY <1>9 DEF NotImported, PutBack, ReapSetup, JoinLogin
<1>10. CASE WaitEnds
  BY <1>10 DEF WaitEnds, ReapSetup
<1>11. CASE BrowseEnds
  BY <1>11 DEF BrowseEnds
<1>12. CASE Relogin
  <2>1. headless' = headless /\ settings' = settings /\ toolCall' = "none" /\ toolCall # "import"
    BY <1>12 DEF Relogin
  <2>2. CASE UNCHANGED <<attempted, imports>> /\ login' = Reaped(login)
    BY <2>1, <2>2
  <2>3. CASE login' = "start" /\ attempted' = FALSE /\ imports' = 0
    <3>1. login' = "start" /\ attempted' = FALSE /\ imports' = 0
      BY <2>3
    <3>2. attempted' \in BOOLEAN
      BY <3>1
    <3>3. Counted'
      BY <3>1
    <3> QED BY <2>1, <3>1, <3>2, <3>3
  <2> QED BY <1>12, <2>2, <2>3 DEF Relogin
<1>13. CASE CallCancelled
  BY <1>13 DEF CallCancelled, PutBack
<1>14. CASE BinaryMissing
  BY <1>14 DEF BinaryMissing
<1>15. CASE SetupInstalls \/ SetupFails
  BY <1>15 DEF SetupInstalls, SetupFails, Installs
<1>16. CASE LoginStarts
  BY <1>16 DEF LoginStarts, StageMissing
<1>17. CASE LoginInstalls
  BY <1>17 DEF LoginInstalls, Installs
<1>18. CASE LoginOpens
  BY <1>18 DEF LoginOpens
<1>19. CASE LoginSucceeds
  BY <1>19 DEF LoginSucceeds
<1>20. CASE LoginFails
  BY <1>20 DEF LoginFails
<1>21. CASE CliStarts \/ CliInstalls \/ CliFails
  BY <1>21 DEF CliStarts, CliInstalls, CliFails, Installs
<1>22. CASE SessionChanges
  BY <1>22 DEF SessionChanges
<1>23. CASE Removed
  BY <1>23 DEF Removed
<1>24. CASE Restart
  <2>1. headless' = (~ settings.headed) /\ settings' = settings /\ toolCall' = "lifespan"
    BY <1>24 DEF Restart
  <2>2. login' = "none" /\ attempted' = FALSE /\ imports' = 0
    BY <1>24 DEF Restart
  <2>3. attempted' \in BOOLEAN /\ settings'.headed \in BOOLEAN
    BY <2>1, <2>2
  <2>4. headless' \in BOOLEAN
    BY <2>1
  <2>5. Typed'
    BY <2>2, <2>3, <2>4
  <2>6. ModeSaved' /\ NoLoginBeside'
    BY <2>1
  <2>7. Counted'
    BY <2>2
  <2> QED BY <2>5, <2>6, <2>7
<1>25. CASE UNCHANGED serverVars
  BY <1>25 DEF serverVars
<1> QED
  BY <1>1, <1>2, <1>3, <1>4, <1>5, <1>6, <1>7, <1>8, <1>9, <1>10, <1>11, <1>12, <1>13,
     <1>14, <1>15, <1>16, <1>17, <1>18, <1>19, <1>20, <1>21, <1>22, <1>23, <1>24, <1>25
     DEF SetupNext, Gate, ToolCallMoves, LoginMoves

\* So it holds always.
LEMMA SetupInvariant == SetupSpec => []SetupIInv
BY SetupInitIInv, SetupStepIInv, PTL DEF SetupSpec

\* _start_login_if_needed claims the import under no login, only a call starts a
\* login, and import_attempted is cleared only by what gives the session up.
THEOREM SetupImportAlone == SetupSpec => []ImportAlone
<1>1. SetupIInv => ImportAlone
  BY DEF SetupIInv, NoLoginBeside, Counted, ImportAlone
<1> QED BY <1>1, SetupInvariant, PTL

\* The finally of _try_auto_import_session puts the mode back before anything
\* else of the call runs.
THEOREM SetupConfiguredMode == SetupSpec => []ConfiguredMode
<1>1. SetupIInv => ConfiguredMode
  BY DEF SetupIInv, ModeSaved, ConfiguredMode
<1> QED BY <1>1, SetupInvariant, PTL

\* Every step keeps the types.
LEMMA SetupTypeStep == SetupTypeOK /\ [SetupNext]_serverVars => SetupTypeOK'
<1> SUFFICES ASSUME SetupTypeOK, [SetupNext]_serverVars PROVE SetupTypeOK'
  OBVIOUS
<1> USE BrowserSetupAssumption
    DEF SetupTypeOK, Settings, Installing, Running, Reaped, StateReaped,
        disk, setupVars, loginVars, importVars
<1>1. CASE Lifespan
  BY <1>1 DEF Lifespan
<1>2. CASE GateRefuses
  BY <1>2 DEF GateRefuses
<1>3. CASE GatePasses
  BY <1>3 DEF GatePasses, GateReaps
<1>4. CASE GateImports
  BY <1>4 DEF GateImports, GateReaps
<1>5. CASE GateLogsIn
  BY <1>5 DEF GateLogsIn, GateReaps, JoinLogin
<1>6. CASE DockerRefuses
  BY <1>6 DEF DockerRefuses, GateReaps
<1>7. CASE ImportStarts
  BY <1>7 DEF ImportStarts
<1>8. CASE Imported
  BY <1>8 DEF Imported, PutBack, ReapSetup
<1>9. CASE NotImported
  BY <1>9 DEF NotImported, PutBack, ReapSetup, JoinLogin
<1>10. CASE WaitEnds
  BY <1>10 DEF WaitEnds, ReapSetup
<1>11. CASE BrowseEnds
  BY <1>11 DEF BrowseEnds
<1>12. CASE Relogin
  <2>1. UNCHANGED <<settings, disk, retired, headless, cli>> /\ toolCall' = "none" /\ ReapSetup
    BY <1>12 DEF Relogin
  <2>2. CASE login' = Reaped(login) /\ UNCHANGED <<session, attempted, imports>>
    BY <2>1, <2>2 DEF ReapSetup
  <2>3. CASE login' = "start" /\ session' = FALSE /\ attempted' = FALSE /\ imports' = 0
    <3>1. login' = "start" /\ session' = FALSE /\ attempted' = FALSE /\ imports' = 0
      BY <2>3
    <3>2. session' \in BOOLEAN
      BY <3>1
    <3>3. attempted' \in BOOLEAN
      BY <3>1
    <3> QED BY <2>1, <3>1, <3>2, <3>3 DEF ReapSetup
  <2> QED BY <1>12, <2>2, <2>3 DEF Relogin
<1>13. CASE CallCancelled
  <2>1. headless' \in BOOLEAN
    BY <1>13 DEF CallCancelled, PutBack
  <2> QED BY <1>13, <2>1 DEF CallCancelled
<1>14. CASE BinaryMissing
  BY ZenonT(60), <1>14 DEF BinaryMissing
<1>15. CASE SetupInstalls \/ SetupFails
  <2>1. CASE SetupInstalls
    <3>1. installed' \in SUBSET {"shell", "full"} /\ metadata' \in BOOLEAN
      BY <2>1 DEF SetupInstalls, Installs
    <3>2. setup' \in {"full", "ok"} /\ UNCHANGED <<settings, setupState, loginVars, importVars, toolCall, cli>>
      BY <2>1 DEF SetupInstalls
    <3> QED BY <3>1, <3>2
  <2>2. CASE SetupFails
    BY <2>2 DEF SetupFails
  <2> QED BY <1>15, <2>1, <2>2
<1>16. CASE LoginStarts
  BY <1>16 DEF LoginStarts, StageMissing
<1>17. CASE LoginInstalls
  BY <1>17 DEF LoginInstalls, Installs
<1>18. CASE LoginOpens
  BY ZenonT(60), <1>18 DEF LoginOpens
<1>19. CASE LoginSucceeds
  <2>1. /\ session' = TRUE /\ retired' = FALSE /\ login' = "ok"
        /\ UNCHANGED <<settings, disk, setupVars, importVars, toolCall, cli>>
    BY <1>19 DEF LoginSucceeds
  <2>2. {metadata', session', retired', attempted', headless'} \subseteq BOOLEAN
    BY <2>1
  <2> QED BY <2>1, <2>2
<1>20. CASE LoginFails
  BY ZenonT(60), <1>20 DEF LoginFails
<1>21. CASE CliStarts \/ CliInstalls \/ CliFails
  <2>1. CASE CliStarts
    BY <2>1 DEF CliStarts, StageMissing
  <2>2. CASE CliInstalls
    <3>1. installed' \in SUBSET {"shell", "full"} /\ metadata' \in BOOLEAN
      BY <2>2 DEF CliInstalls, Installs
    <3>2. cli' \in {"full", "none"} /\ UNCHANGED <<settings, setupVars, loginVars, importVars, toolCall>>
      BY <2>2 DEF CliInstalls
    <3> QED BY <3>1, <3>2
  <2>3. CASE CliFails
    BY <2>3 DEF CliFails
  <2> QED BY <1>21, <2>1, <2>2, <2>3
<1>22. CASE SessionChanges
  BY <1>22 DEF SessionChanges
<1>23. CASE Removed
  BY <1>23 DEF Removed
<1>24. CASE Restart
  <2>1. installed' \in SUBSET {"shell", "full"} /\ metadata' \in BOOLEAN
    <3>1. CASE installed' = {} /\ metadata' = FALSE
      BY <3>1
    <3>2. CASE /\ installed' \in {installed} \union {installed \union ({setup, login} \cap Installing)}
               /\ UNCHANGED metadata
      BY <3>2
    <3> QED BY <1>24, <3>1, <3>2 DEF Restart
  <2>2. headless' \in BOOLEAN /\ retired' \in BOOLEAN /\ attempted' \in BOOLEAN /\ session' = session
    BY <1>24 DEF Restart
  <2>3. /\ setup' = "none" /\ setupState' = "not_started" /\ login' = "none" /\ imports' = 0
        /\ toolCall' = "lifespan" /\ settings' = settings /\ cli' = cli
    BY <1>24 DEF Restart
  <2> QED BY <2>1, <2>2, <2>3
<1>25. CASE UNCHANGED serverVars
  BY <1>25 DEF serverVars
<1> QED
  BY <1>1, <1>2, <1>3, <1>4, <1>5, <1>6, <1>7, <1>8, <1>9, <1>10, <1>11, <1>12, <1>13,
     <1>14, <1>15, <1>16, <1>17, <1>18, <1>19, <1>20, <1>21, <1>22, <1>23, <1>24, <1>25
     DEF SetupNext, Gate, ToolCallMoves, LoginMoves

\* So the types are kept always.
THEOREM SetupTypes == SetupSpec => []SetupTypeOK
<1>1. SetupInit => SetupTypeOK
  <2> SUFFICES ASSUME SetupInit PROVE SetupTypeOK
    OBVIOUS
  <2>1. retired \in BOOLEAN /\ attempted \in BOOLEAN
    BY DEF SetupInit
  <2>2. settings.headed \in BOOLEAN /\ headless = ~ settings.headed
    BY DEF SetupInit, Settings
  <2>3. headless \in BOOLEAN
    BY <2>2
  <2>4. {metadata, session, retired, attempted, headless} \subseteq BOOLEAN
    BY <2>1, <2>3 DEF SetupInit
  <2> QED BY <2>4, BrowserSetupAssumption DEF SetupInit, SetupTypeOK, Installing
<1> QED BY <1>1, SetupTypeStep, PTL DEF SetupSpec

-----------------------------------------------------------------------------
(***************************************************************************)
(* SessionSources: LinkedIn meets no session outside a browser without     *)
(* being opted into, and only what it refused is given up.                 *)
(***************************************************************************)

\* LinkedIn takes no session back, and refuses one it accepts only from an
\* address it does not trust.
LEMMA AnswersSound ==
  ASSUME NEW s, NEW live, NEW trusted, NEW a \in Answers(s, live, trusted)
  PROVE  a.live \subseteq live /\ (a.status = "refused" /\ trusted => s \notin a.live)
<1>1. PICK after \in {live, live \ {s}} :
        a \in [status : IF s \in after
                        THEN {"ok", "other", None} \union (IF trusted THEN {} ELSE {"refused"})
                        ELSE {"refused", "other", None},
               live : {after}]
  BY DEF Answers
<1>2. a.live = after /\ after \subseteq live
  BY <1>1
<1>3. ASSUME s \in after, trusted PROVE a.status # "refused"
  BY <1>1, <1>3, SessionSourcesAssumption
<1> QED BY <1>2, <1>3

\* _classify_probe_response says dead of a refusal by LinkedIn itself only.
LEMMA ClassifySound == \A status, trusted : Classify(status, trusted) = "dead" => status = "refused" /\ trusted
BY DEF Classify

\* So does a direct attempt (_http_get_voyager_me_sync).
LEMMA DirectSound ==
  ASSUME NEW s, NEW live, NEW trusted, NEW a \in Direct(s, live, trusted)
  PROVE  a.live \subseteq live /\ (a.verdict = "dead" => s \notin a.live)
<1>1. PICK b \in Answers(s, live, trusted) :
        a = [verdict |-> Classify(b.status, trusted), live |-> b.live]
  BY DEF Direct
<1>2. b.live \subseteq live /\ (b.status = "refused" /\ trusted => s \notin b.live)
  BY AnswersSound
<1> QED BY <1>1, <1>2, ClassifySound

\* ... and an attempt by way of the daemon (_http_get_voyager_me).
LEMMA AttemptSound ==
  ASSUME NEW s, NEW live, NEW a \in Attempt(s, live)
  PROVE  a.live \subseteq live /\ (a.verdict = "dead" => s \notin a.live)
<1>1. CASE config.egress # "fleet"
  <2>1. a \in Direct(s, live, config.egress = "proxy")
    BY <1>1 DEF Attempt
  <2> QED BY <2>1, DirectSound
<1>2. CASE config.egress = "fleet"
  <2>1. PICK b \in Answers(s, live, TRUE) :
          a \in IF b.status = None THEN Direct(s, b.live, FALSE)
                ELSE {[verdict |-> Classify(b.status, TRUE), live |-> b.live]}
    BY <1>2 DEF Attempt
  <2>2. b.live \subseteq live /\ (b.status = "refused" => s \notin b.live)
    BY AnswersSound
  <2>3. CASE b.status = None
    <3>1. a \in Direct(s, b.live, FALSE)
      BY <2>1, <2>3
    <3>2. a.live \subseteq b.live /\ (a.verdict = "dead" => s \notin a.live)
      BY <3>1, DirectSound
    <3> QED BY <2>2, <3>2
  <2>4. CASE b.status # None
    <3>1. a = [verdict |-> Classify(b.status, TRUE), live |-> b.live]
      BY <2>1, <2>4
    <3> QED BY <2>2, <3>1, ClassifySound
  <2> QED BY <2>3, <2>4
<1> QED BY <1>1, <1>2

\* Whatever a probe sees, no session comes back to life, and dead means dead.
LEMMA ProbeSound ==
  ASSUME NEW s, NEW a \in Probe(s)
  PROVE  a.live \subseteq alive /\ (a.verdict = "dead" => s \notin a.live)
<1>1. CASE ~ config.probe
  BY <1>1 DEF Probe
<1>2. CASE config.probe
  <2>1. PICK b \in Attempt(s, alive) :
          a \in IF b.verdict = "unknown" THEN Attempt(s, b.live) ELSE {b}
    BY <1>2 DEF Probe
  <2>2. b.live \subseteq alive /\ (b.verdict = "dead" => s \notin b.live)
    BY AttemptSound
  <2>3. CASE b.verdict = "unknown"
    <3>1. a \in Attempt(s, b.live)
      BY <2>1, <2>3
    <3>2. a.live \subseteq b.live /\ (a.verdict = "dead" => s \notin a.live)
      BY <3>1, AttemptSound
    <3> QED BY <2>2, <3>2
  <2>4. CASE b.verdict # "unknown"
    BY <2>1, <2>2, <2>4
  <2> QED BY <2>3, <2>4
<1> QED BY <1>1, <1>2

\* A recorded verdict adds to what LinkedIn has refused only by a probe.
LEMMA ProbedAsSound ==
  ASSUME NEW s, NEW v, ProbedAs(s, v)
  PROVE  alive' \subseteq alive /\ (v = "dead" => s \notin alive')
BY ProbeSound DEF ProbedAs

-----------------------------------------------------------------------------
\* What a step does to LinkedIn's side: sessions only die.
Harmless ==
  /\ alive' \subseteq alive
  /\ config' = config

\* A step that is one probe, or asks nothing.
LEMMA AskingIsHarmless ==
  ASSUME config' = config, (\E s, v : ProbedAs(s, v)) \/ UNCHANGED alive
  PROVE  Harmless
<1>1. CASE \E s, v : ProbedAs(s, v)
  <2>1. PICK s, v : ProbedAs(s, v)
    BY <1>1
  <2> QED BY <2>1, ProbedAsSound DEF Harmless
<1>2. CASE UNCHANGED alive
  BY <1>2 DEF Harmless
<1> QED BY <1>1, <1>2

\* Every step is one probe or none, so none declares a live session dead.
LEMMA StepHarmless == [Next]_vars => Harmless
<1> SUFFICES ASSUME [Next]_vars PROVE Harmless
  OBVIOUS
<1>1. CASE StartCall \/ AskDaemon \/ AskPool \/ Boot \/ WorkEnds \/ AuthError \/ Close \/ Invalidate
  BY <1>1, AskingIsHarmless
     DEF StartCall, AskDaemon, AskPool, Boot, WorkEnds, AuthError, Close, Invalidate
<1>2. CASE LocalServes \/ LocalExtracts \/ LocalClears
  BY <1>2, AskingIsHarmless DEF LocalServes, LocalExtracts, LocalClears, Rejected
<1>3. CASE Confirm
  BY <1>3, AskingIsHarmless DEF Confirm
<1>4. CASE Retire \/ RetireRefused
  BY <1>4, AskingIsHarmless DEF Retire, RetireRefused
<1>5. CASE AddSession \/ RemoveSession \/ StartWalk \/ WalkEnds \/ LogIn
  BY <1>5, AskingIsHarmless DEF AddSession, RemoveSession, StartWalk, WalkEnds, LogIn
<1>6. CASE WalkProbes
  BY <1>6, AskingIsHarmless DEF WalkProbes
<1>7. CASE OnlyProbes
  BY <1>7, AskingIsHarmless DEF OnlyProbes
<1>8. CASE ImportSession \/ ImportRefused
  BY <1>8, AskingIsHarmless DEF ImportSession, ImportRefused
<1>9. CASE Revoke
  BY <1>9 DEF Revoke, Harmless
<1>10. CASE UNCHANGED vars
  BY <1>10 DEF vars, Harmless
<1> QED
  BY <1>1, <1>2, <1>3, <1>4, <1>5, <1>6, <1>7, <1>8, <1>9, <1>10 DEF Next, CallMoves

\* Every step keeps the types.
LEMMA SourcesTypeStep == TypeOK /\ [Next]_vars => TypeOK'
<1> SUFFICES ASSUME TypeOK, [Next]_vars PROVE TypeOK'
  OBVIOUS
<1>1. config' \in Configs /\ alive' \subseteq Session
  BY StepHarmless DEF Harmless, TypeOK
<1> DEFINE CallOK == call' \in [at : CallState, asked : Jar]
           WalkOK == walk' \in [on : BOOLEAN, todo : SUBSET Name, seen : [Name -> Jar], live : BOOLEAN]
<1> SUFFICES stored' \in Jar /\ browser' \in Jar \union {"off"} /\ pool' \in [Name -> Jar] /\ CallOK /\ WalkOK
  BY <1>1 DEF TypeOK
<1>2. ASSUME NEW at \in CallState PROVE [call EXCEPT !.at = at] \in [at : CallState, asked : Jar]
  BY DEF TypeOK
<1>3. \A at \in CallState, s \in Jar : [at |-> at, asked |-> s] \in [at : CallState, asked : Jar]
  OBVIOUS
<1>4. None \in Jar /\ Session \subseteq Jar /\ Idle \in [at : CallState, asked : Jar]
  BY DEF Jar, Idle, CallState
<1>5. Empty \in [Name -> Jar] /\ NoWalk \in [on : BOOLEAN, todo : SUBSET Name, seen : [Name -> Jar], live : BOOLEAN]
  BY <1>4 DEF Empty, NoWalk
<1>6. CASE StartCall \/ AskPool \/ AuthError \/ Invalidate \/ WorkEnds
  <2>1. CallOK
    BY <1>2, <1>3, <1>4, <1>6 DEF StartCall, AskPool, AuthError, Invalidate, WorkEnds, To, CallState, TypeOK
  <2> HIDE DEF CallOK
  <2> QED BY <1>6, <2>1 DEF StartCall, AskPool, AuthError, Invalidate, WorkEnds, files, TypeOK
<1>7. CASE AskDaemon
  <2>1. CallOK
    BY <1>2, <1>3, <1>7 DEF AskDaemon, To, CallState, TypeOK
  <2> HIDE DEF CallOK
  <2> QED BY <1>7, <2>1 DEF AskDaemon, files, TypeOK
<1>8. CASE LocalServes \/ LocalExtracts \/ LocalClears
  <2>1. CallOK
    BY <1>3, <1>4, <1>8 DEF LocalServes, LocalExtracts, LocalClears, CallState
  <2> HIDE DEF CallOK
  <2> QED BY <1>4, <1>8, <2>1 DEF LocalServes, LocalExtracts, LocalClears, files, TypeOK
<1>9. CASE Boot \/ Close
  <2>1. CallOK
    BY <1>2, <1>9 DEF Boot, Close, To, CallState
  <2>2. browser' \in Jar \union {"off"} /\ stored' \in Jar
    BY <1>9 DEF Boot, Close, files, TypeOK
  <2> HIDE DEF CallOK
  <2> QED BY <1>9, <2>1, <2>2 DEF Boot, Close, files, TypeOK
<1>10. CASE Confirm
  <2>1. call' = [call EXCEPT !.at = "close"] \/ call' = Idle
    BY <1>10 DEF Confirm, To
  <2>2. CallOK
    BY <1>2, <1>4, <2>1 DEF CallState
  <2> HIDE DEF CallOK
  <2> QED BY <1>10, <2>2 DEF Confirm, files, TypeOK
<1>11. CASE Retire \/ RetireRefused
  <2>1. CallOK
    BY <1>4, <1>11 DEF Retire, RetireRefused
  <2> HIDE DEF CallOK
  <2> QED BY <1>4, <1>11, <2>1 DEF Retire, RetireRefused, files, TypeOK
<1>12. CASE AddSession \/ RemoveSession
  <2>1. pool' \in [Name -> Jar]
    BY <1>4, <1>12 DEF AddSession, RemoveSession, TypeOK
  <2> QED BY <1>12, <2>1 DEF AddSession, RemoveSession, TypeOK
<1>13. CASE StartWalk
  <2>1. walk' = [NoWalk EXCEPT !.on = TRUE, !.todo = {n \in Name : pool[n] # None}, !.seen = pool]
    BY <1>13 DEF StartWalk
  <2>2. WalkOK
    BY <1>5, <2>1 DEF TypeOK
  <2> HIDE DEF WalkOK
  <2> QED BY <1>13, <2>2 DEF StartWalk, files, TypeOK
<1>14. CASE WalkProbes
  <2>1. PICK n \in walk.todo, v \in Verdict :
          walk' = [walk EXCEPT !.todo = @ \ {n},
                               !.live = @ \/ v = "alive",
                               !.seen[n] = IF v = "dead" THEN @ ELSE None]
    BY <1>14 DEF WalkProbes
  <2>2. walk \in [on : BOOLEAN, todo : SUBSET Name, seen : [Name -> Jar], live : BOOLEAN] /\ n \in Name
    BY DEF TypeOK
  <2> DEFINE todo == walk.todo \ {n}
             live == walk.live \/ v = "alive"
             seen == [walk.seen EXCEPT ![n] = IF v = "dead" THEN @ ELSE None]
  <2>3. todo \in SUBSET Name
    BY <2>2
  <2>4. live \in BOOLEAN
    OBVIOUS
  <2>5. seen \in [Name -> Jar]
    BY <1>4, <2>2
  <2>6. walk' = [walk EXCEPT !.todo = todo, !.live = live, !.seen = seen]
    BY <2>1, <2>2
  <2> HIDE DEF todo, live, seen
  <2>7. WalkOK
    BY <2>2, <2>3, <2>4, <2>5, <2>6
  <2> HIDE DEF WalkOK
  <2> QED BY <1>14, <2>7 DEF WalkProbes, files, TypeOK
<1>15. CASE WalkEnds
  <2>1. pool' \in [Name -> Jar]
    BY <1>4, <1>15 DEF WalkEnds, TypeOK
  <2> QED BY <1>5, <1>15, <2>1 DEF WalkEnds, TypeOK
<1>16. CASE OnlyProbes \/ ImportRefused \/ Revoke
  BY <1>16 DEF OnlyProbes, ImportRefused, Revoke, files, TypeOK
<1>17. CASE ImportSession \/ LogIn
  BY <1>4, <1>17 DEF ImportSession, LogIn, TypeOK
<1>18. CASE UNCHANGED vars
  BY <1>18 DEF vars, files, TypeOK
<1> QED
  BY <1>6, <1>7, <1>8, <1>9, <1>10, <1>11, <1>12, <1>13, <1>14, <1>15, <1>16, <1>17, <1>18 DEF Next, CallMoves

\* So the types are kept always: whatever a probe answers, an interrupted walk and
\* a closing browser leave a jar to be a session or nothing.
THEOREM SourcesTypes == Spec => []TypeOK
<1>1. Init => TypeOK
  <2>1. Empty \in [Name -> Jar] /\ Idle \in [at : CallState, asked : Jar]
    BY DEF Empty, Jar, Idle, CallState
  <2>2. NoWalk \in [on : BOOLEAN, todo : SUBSET Name, seen : [Name -> Jar], live : BOOLEAN]
    BY <2>1 DEF NoWalk
  <2> QED BY <2>1, <2>2 DEF Init, TypeOK
<1> QED BY <1>1, SourcesTypeStep, PTL DEF Spec

-----------------------------------------------------------------------------
\* The walk's bookkeeping has its shape ...
WalkTyped == walk.seen \in [Name -> Jar] /\ walk.todo \subseteq Name /\ walk.todo \in SUBSET Name

\* ... and what it has asked about and kept in mind is dead.
DeadInMind ==
  \A n \in Name : n \notin walk.todo /\ walk.seen[n] # None => walk.seen[n] \notin alive

SourcesIInv == pool \in [Name -> Jar] /\ WalkTyped /\ DeadInMind

\* At the start nothing was asked and nothing given up.
LEMMA SourcesInitIInv == Init => SourcesIInv
BY DEF Init, SourcesIInv, WalkTyped, DeadInMind, NoWalk, Empty, Jar

\* Every step keeps the invariant.
LEMMA SourcesStepIInv == SourcesIInv /\ [Next]_vars => SourcesIInv'
<1> SUFFICES ASSUME SourcesIInv, [Next]_vars PROVE SourcesIInv'
  OBVIOUS
<1>0. alive' \subseteq alive
  BY StepHarmless DEF Harmless
<1>1. ASSUME walk' = walk, pool' \in [Name -> Jar] PROVE SourcesIInv'
  BY <1>0, <1>1 DEF SourcesIInv, WalkTyped, DeadInMind
<1>2. CASE StartWalk
  BY <1>0, <1>2 DEF StartWalk, SourcesIInv, WalkTyped, DeadInMind, NoWalk, files
<1>3. CASE WalkProbes
  <2>1. PICK n \in walk.todo, v \in Verdict :
          /\ ProbedAs(walk.seen[n], v)
          /\ walk' = [walk EXCEPT !.todo = @ \ {n},
                                  !.live = @ \/ v = "alive",
                                  !.seen[n] = IF v = "dead" THEN @ ELSE None]
    BY <1>3 DEF WalkProbes
  <2>2. v = "dead" => walk.seen[n] \notin alive'
    BY <2>1, ProbedAsSound
  <2>3. /\ walk'.todo = walk.todo \ {n}
        /\ walk'.seen = [walk.seen EXCEPT ![n] = IF v = "dead" THEN @ ELSE None]
    BY <2>1 DEF SourcesIInv, WalkTyped
  <2>4. n \in Name /\ walk.seen[n] \in Jar
    BY DEF SourcesIInv, WalkTyped
  <2>5. WalkTyped'
    BY <2>3, <2>4 DEF SourcesIInv, WalkTyped, Jar
  <2>6. DeadInMind'
    BY <1>0, <2>2, <2>3, <2>4 DEF SourcesIInv, WalkTyped, DeadInMind
  <2> QED BY <1>3, <2>5, <2>6 DEF SourcesIInv, WalkProbes, files
<1>4. CASE WalkEnds
  BY <1>4 DEF WalkEnds, SourcesIInv, WalkTyped, DeadInMind, NoWalk, Empty, Jar
<1>5. CASE AddSession \/ RemoveSession
  BY <1>1, <1>5 DEF AddSession, RemoveSession, SourcesIInv, Jar
<1>6. CASE CallMoves
  BY <1>1, <1>6
     DEF CallMoves, StartCall, AskDaemon, LocalServes, LocalExtracts, LocalClears, AskPool,
         Boot, WorkEnds, AuthError, Confirm, Close, Invalidate, Retire, RetireRefused,
         files, SourcesIInv
<1>7. CASE OnlyProbes \/ ImportSession \/ ImportRefused \/ LogIn \/ Revoke
  BY <1>1, <1>7 DEF OnlyProbes, ImportSession, ImportRefused, LogIn, Revoke, files, SourcesIInv
<1>8. CASE UNCHANGED vars
  BY <1>1, <1>8 DEF vars, files, SourcesIInv
<1> QED BY <1>2, <1>3, <1>4, <1>5, <1>6, <1>7, <1>8 DEF Next

\* invalidate_auth_and_trigger_relogin, the manager's clear and the pool's
\* pruning throw away what was asked about only when LinkedIn had refused it.
THEOREM SourcesOnlyDeadGivenUp == Spec => OnlyDeadGivenUp
<1> DEFINE GivenUp ==
      /\ (Retire \/ LocalClears \/ LocalExtracts) /\ stored # None /\ stored = call.asked
           => stored \notin alive'
      /\ WalkEnds => \A n \in Name : pool[n] # pool'[n] /\ pool[n] = walk.seen[n]
                                       => pool[n] \notin alive'
<1>1. SourcesIInv /\ [Next]_vars => [GivenUp]_vars
  <2> SUFFICES ASSUME SourcesIInv PROVE GivenUp
    OBVIOUS
  <2>1. ASSUME Retire \/ LocalClears \/ LocalExtracts, stored # None, stored = call.asked
        PROVE  stored \notin alive'
    <3>1. ProbedAs(stored, "dead")
      BY <2>1 DEF Retire, LocalClears, LocalExtracts, Rejected, RetiringVerdict
    <3> QED BY <3>1, ProbedAsSound
  <2>2. ASSUME WalkEnds, NEW n \in Name, pool[n] # pool'[n], pool[n] = walk.seen[n]
        PROVE  pool[n] \notin alive'
    BY <2>2 DEF WalkEnds, SourcesIInv, DeadInMind
  <2> QED BY <2>1, <2>2
<1>2. SourcesIInv /\ [Next]_vars =>
        [/\ (Retire \/ LocalClears \/ LocalExtracts) /\ stored # None /\ stored = call.asked
              => stored \notin alive'
         /\ WalkEnds => \A n \in Name : pool[n] # pool'[n] /\ pool[n] = walk.seen[n]
                                          => pool[n] \notin alive']_vars
  BY <1>1
<1> QED BY <1>2, SourcesInitIInv, SourcesStepIInv, PTL DEF Spec, OnlyDeadGivenUp

-----------------------------------------------------------------------------
(***************************************************************************)
(* ConnectionPool: no connection is shared, none is deleted under its      *)
(* client, and a pool keeps to its limit.                                  *)
(***************************************************************************)

\* Ids are given out in order, so a new one is nobody's.
Numbered ==
  /\ \A p \in Pool : available[p] \subseteq 1..ids
  /\ \A c \in Client : held[c] # Nothing => held[c].pool \in Pool /\ held[c].conn \in 1..ids

\* A connection is idle in one pool only.
Apart == \A p, q \in Pool : p # q => available[p] \cap available[q] = {}

\* NoSharing alone is not inductive: what is given out next must be new, or
\* idle nowhere else.
PoolIInv == PoolTypeOK /\ Numbered /\ Apart /\ NoSharing

\* At the start there is no connection.
LEMMA PoolInitIInv == PoolInit => PoolIInv
BY ConnectionPoolAssumption
   DEF PoolInit, PoolIInv, PoolTypeOK, Numbered, Apart, NoSharing, Nothing, Pool, Conn

\* A client gets a connection nobody has: an idle one, which leaves the deque.
LEMMA AcquireIdleKeeps ==
  ASSUME PoolIInv, NEW c \in Client, NEW p \in Pool, AcquireIdle(c, p)
  PROVE  PoolIInv'
<1> USE ConnectionPoolAssumption DEF Pool, Conn
<1>1. PICK conn \in available[p] \cap valid, dropped \in SUBSET (available[p] \ valid) :
        /\ available' = [available EXCEPT ![p] = Popped(p, conn, dropped)]
        /\ active' = [active EXCEPT ![p] = @ \union {conn}]
        /\ known' = known \ dropped
        /\ held' = [held EXCEPT ![c] = [pool |-> p, conn |-> conn]]
  BY DEF AcquireIdle
<1>2. UNCHANGED <<valid, ids, cleaner, made, current, closing>>
  BY DEF AcquireIdle, globals
<1>3. PoolTypeOK'
  BY <1>1, <1>2 DEF PoolIInv, PoolTypeOK, Popped
<1>4. /\ \A q \in Pool : available'[q] \subseteq available[q] /\ conn \notin available'[q]
      /\ \A d \in Client \ {c} : held'[d] = held[d]
      /\ held'[c] = [pool |-> p, conn |-> conn]
  BY <1>1 DEF PoolIInv, PoolTypeOK, Apart, Popped
<1>5. conn \in 1..ids /\ \A d \in Client : held[d].conn # conn
  BY <1>1 DEF PoolIInv, NoSharing, Numbered, Nothing
<1>6. Numbered'
  BY <1>1, <1>2, <1>4 DEF PoolIInv, Numbered
<1>7. Apart'
  BY <1>4 DEF PoolIInv, Apart
<1>8. NoSharing'
  BY <1>2, <1>4, <1>5 DEF PoolIInv, NoSharing
<1> QED BY <1>3, <1>6, <1>7, <1>8 DEF PoolIInv

\* ... or a new one, while the expired ones go.
LEMMA AcquireNewKeeps ==
  ASSUME PoolIInv, NEW c \in Client, NEW p \in Pool, AcquireNew(c, p) \/ AcquireFails(c, p)
  PROVE  PoolIInv'
<1> USE ConnectionPoolAssumption DEF Pool, Conn
<1>1. CASE AcquireNew(c, p)
  <2>1. PoolTypeOK'
    <3>1. ids + 1 \in Conn /\ ids' \in 0..MaxIds /\ c \in Client
      BY <1>1 DEF AcquireNew, PoolIInv, PoolTypeOK
    <3>2. available' \in [Pool -> SUBSET Conn] /\ active' \in [Pool -> SUBSET Conn]
      BY <1>1, <3>1 DEF AcquireNew, PoolIInv, PoolTypeOK
    <3>3. held' \in [Client -> [pool : 0..Pools, conn : 0..MaxIds]]
      BY <1>1, <3>1 DEF AcquireNew, PoolIInv, PoolTypeOK
    <3> QED BY <1>1, <3>1, <3>2, <3>3 DEF AcquireNew, PoolIInv, PoolTypeOK, globals
  <2>2. /\ \A q \in Pool : available'[q] \subseteq available[q]
        /\ \A d \in Client \ {c} : held'[d] = held[d]
        /\ held'[c] = [pool |-> p, conn |-> ids + 1]
        /\ ids \in Nat /\ ids' = ids + 1
    BY <1>1 DEF AcquireNew, PoolIInv, PoolTypeOK
  <2>3. Numbered'
    BY <2>2 DEF PoolIInv, Numbered
  <2>4. Apart'
    BY <2>2 DEF PoolIInv, Apart
  <2>5. NoSharing'
    <3>1. \A d \in Client : held[d].conn # ids + 1
      BY <2>2 DEF PoolIInv, Numbered, Nothing
    <3>2. \A q \in Pool : ids + 1 \notin available[q]
      BY <2>2 DEF PoolIInv, Numbered
    <3>3. ASSUME NEW d \in Client, NEW e \in Client, held'[d] # Nothing, d # e
          PROVE  held'[d].conn # held'[e].conn
      <4>1. CASE d = c
        BY <2>2, <3>1, <3>3, <4>1
      <4>2. CASE e = c
        BY <2>2, <3>1, <3>3, <4>2
      <4>3. CASE d # c /\ e # c
        BY <2>2, <3>3, <4>3 DEF PoolIInv, NoSharing
      <4> QED BY <4>1, <4>2, <4>3
    <3>4. ASSUME NEW d \in Client, held'[d] # Nothing, NEW q \in Pool
          PROVE  held'[d].conn \notin available'[q]
      BY <2>2, <3>2, <3>4 DEF PoolIInv, NoSharing
    <3> QED BY <3>3, <3>4 DEF NoSharing
  <2> QED BY <2>1, <2>3, <2>4, <2>5 DEF PoolIInv
<1>2. CASE AcquireFails(c, p)
  <2>1. PoolTypeOK'
    BY <1>2 DEF AcquireFails, PoolIInv, PoolTypeOK, globals
  <2>2. /\ \A q \in Pool : available'[q] \subseteq available[q]
        /\ held' = held /\ ids' = ids
    BY <1>2 DEF AcquireFails, PoolIInv, PoolTypeOK
  <2> QED BY <2>1, <2>2 DEF PoolIInv, Numbered, Apart, NoSharing
<1> QED BY <1>1, <1>2

\* A connection that comes back is idle in its client's pool, and nobody's.
LEMMA ReleaseKeeps ==
  ASSUME PoolIInv, NEW c \in Client, Release(c)
  PROVE  PoolIInv'
<1> USE ConnectionPoolAssumption DEF Pool, Conn
<1> DEFINE p == held[c].pool
           conn == held[c].conn
<1>1. p \in Pool /\ conn \in 1..ids /\ conn \in Conn
  BY DEF Release, PoolIInv, Numbered, PoolTypeOK
<1>2. /\ \A d \in Client \ {c} : held'[d] = held[d] /\ (held[d] # Nothing => held[d].conn # conn)
      /\ held'[c] = Nothing
      /\ ids' = ids
      /\ \A q \in Pool : conn \notin available[q]
  BY <1>1 DEF Release, PoolIInv, PoolTypeOK, NoSharing
<1>3. \/ available' = available
      \/ available' = [available EXCEPT ![p] = @ \union {conn}]
  <2>1. CASE conn \notin active[p]
    BY <2>1 DEF Release
  <2>2. CASE conn \in active[p]
    BY <2>2 DEF Release
  <2> QED BY <2>1, <2>2
<1>4. PoolTypeOK'
  <2>1. \/ active' = active /\ known' = known
        \/ active' = [active EXCEPT ![p] = @ \ {conn}] /\ known' \subseteq known
    <3>1. CASE conn \notin active[p]
      BY <3>1 DEF Release
    <3>2. CASE conn \in active[p]
      BY <3>2 DEF Release
    <3> QED BY <3>1, <3>2
  <2>2. UNCHANGED <<valid, ids, cleaner, made, current, closing>>
    BY DEF Release, globals
  <2>3. held' \in [Client -> [pool : 0..Pools, conn : 0..MaxIds]]
    BY DEF Release, PoolIInv, PoolTypeOK, Nothing
  <2>4. available' \in [Pool -> SUBSET Conn]
    BY <1>1, <1>3 DEF PoolIInv, PoolTypeOK
  <2>5. active' \in [Pool -> SUBSET Conn] /\ known' \subseteq Conn
    BY <1>1, <2>1 DEF PoolIInv, PoolTypeOK
  <2> QED BY <2>2, <2>3, <2>4, <2>5 DEF PoolIInv, PoolTypeOK
<1>5. \A q \in Pool : available'[q] = available[q] \/ (q = p /\ available'[q] = available[q] \union {conn})
  BY <1>1, <1>3 DEF PoolIInv, PoolTypeOK
<1>6. Numbered'
  BY <1>1, <1>2, <1>5 DEF PoolIInv, Numbered
<1>7. Apart'
  BY <1>2, <1>5 DEF PoolIInv, Apart
<1>8. NoSharing'
  BY <1>2, <1>5 DEF PoolIInv, NoSharing, Numbered, Nothing
<1> QED BY <1>4, <1>6, <1>7, <1>8 DEF PoolIInv

\* A close_all that a replacement or none follows leaves the pools numbered.
LEMMA ReplacedTyped ==
  ASSUME PoolIInv, NEW by, NEW stopped \in [Pool -> {"none", "due", "on", "cancelled"}],
         Replaced(by, stopped)
  PROVE  /\ cleaner' \in [Pool -> {"none", "due", "on", "cancelled"}]
         /\ made' \in 0..Pools /\ current' \in 0..made'
BY ConnectionPoolAssumption DEF Replaced, PoolIInv, PoolTypeOK, Pool

\* Every other step leaves fewer idle connections and every client its own.
LEMMA OthersKeep ==
  ASSUME PoolIInv,
         \/ \E conn \in Conn : Expires(conn)
         \/ \E p \in Pool : CleanUp(p) \/ StartCleanup(p)
         \/ MakePool \/ InitializeFirst \/ CloseMoves
  PROVE  /\ PoolIInv'
         /\ held' = held
         /\ \A p \in Pool : available'[p] \subseteq available[p] /\ active'[p] \subseteq active[p]
<1> USE ConnectionPoolAssumption DEF Pool, Conn
<1> DEFINE Fewer ==
      /\ PoolTypeOK'
      /\ held' = held /\ ids' = ids
      /\ \A p \in Pool : available'[p] \subseteq available[p] /\ active'[p] \subseteq active[p]
<1>1. ASSUME \E conn \in Conn : Expires(conn) PROVE Fewer
  BY <1>1 DEF Expires, PoolIInv, PoolTypeOK, globals
<1>2. ASSUME \E p \in Pool : CleanUp(p) PROVE Fewer
  <2>1. PICK p \in Pool : CleanUp(p)
    BY <1>2
  <2>2. \A q \in Pool : available'[q] \subseteq available[q] /\ active'[q] \subseteq active[q]
    BY <2>1 DEF CleanUp, PoolIInv, PoolTypeOK
  <2>3. available' \in [Pool -> SUBSET Conn] /\ active' \in [Pool -> SUBSET Conn] /\ known' \subseteq Conn
    BY <2>1 DEF CleanUp, PoolIInv, PoolTypeOK
  <2> QED BY <2>1, <2>2, <2>3 DEF CleanUp, PoolIInv, PoolTypeOK, globals
<1>3. ASSUME \E p \in Pool : StartCleanup(p) PROVE Fewer
  BY <1>3 DEF StartCleanup, PoolIInv, PoolTypeOK, conns
<1>4. ASSUME MakePool PROVE Fewer
  BY <1>4 DEF MakePool, PoolIInv, PoolTypeOK, conns
<1>5. ASSUME InitializeFirst PROVE Fewer
  BY <1>5 DEF InitializeFirst, Replaced, PoolIInv, PoolTypeOK, conns
<1>6. ASSUME CloseMoves PROVE Fewer
  <2>1. PICK by \in {"close", "initialize"} : ClosePool(by) \/ CloseStarts(by) \/ CloseEnds(by)
    BY <1>6 DEF CloseMoves
  <2>2. ASSUME ClosePool(by) PROVE Fewer
    <3>1. current \in Pool
      BY <2>2 DEF ClosePool, PoolIInv, PoolTypeOK
    <3>2. /\ cleaner' \in [Pool -> {"none", "due", "on", "cancelled"}]
          /\ made' \in 0..Pools /\ current' \in 0..made'
      BY <2>2 DEF ClosePool, Replaced, PoolIInv, PoolTypeOK
    <3>3. \A q \in Pool : available'[q] \subseteq available[q] /\ active'[q] \subseteq active[q]
      BY <2>2, <3>1 DEF ClosePool, Emptied, PoolIInv, PoolTypeOK
    <3>4. available' \in [Pool -> SUBSET Conn] /\ active' \in [Pool -> SUBSET Conn] /\ known' \subseteq Conn
      BY <2>2, <3>1 DEF ClosePool, Emptied, PoolIInv, PoolTypeOK
    <3> QED BY <2>2, <3>2, <3>3, <3>4 DEF ClosePool, Emptied, PoolIInv, PoolTypeOK
  <2>3. ASSUME CloseStarts(by) PROVE Fewer
    <3>1. current \in Pool
      BY <2>3 DEF CloseStarts, PoolIInv, PoolTypeOK
    <3> QED BY <2>1, <2>3, <3>1 DEF CloseStarts, PoolIInv, PoolTypeOK, conns
  <2>4. ASSUME CloseEnds(by) PROVE Fewer
    <3>1. PICK t \in closing : /\ Emptied(t.pool)
                               /\ Replaced(by, [cleaner EXCEPT ![t.pool] = "none"])
                               /\ closing' = closing \ {t}
      BY <2>4 DEF CloseEnds
    <3>2. t.pool \in Pool
      BY <3>1 DEF PoolIInv, PoolTypeOK
    <3>3. [cleaner EXCEPT ![t.pool] = "none"] \in [Pool -> {"none", "due", "on", "cancelled"}]
      BY DEF PoolIInv, PoolTypeOK
    <3>4. /\ cleaner' \in [Pool -> {"none", "due", "on", "cancelled"}]
          /\ made' \in 0..Pools /\ current' \in 0..made'
      BY <3>1, <3>3, ReplacedTyped
    <3>5. UNCHANGED <<valid, ids, held>> /\ closing' \subseteq closing
      BY <3>1 DEF Emptied
    <3>6. \A q \in Pool : available'[q] \subseteq available[q] /\ active'[q] \subseteq active[q]
      BY <3>1, <3>2 DEF Emptied, PoolIInv, PoolTypeOK
    <3>7. available' \in [Pool -> SUBSET Conn] /\ active' \in [Pool -> SUBSET Conn] /\ known' \subseteq Conn
      BY <3>1, <3>2 DEF Emptied, PoolIInv, PoolTypeOK
    <3> QED BY <3>4, <3>5, <3>6, <3>7 DEF PoolIInv, PoolTypeOK
  <2> QED BY <2>1, <2>2, <2>3, <2>4
<1>7. Fewer
  BY <1>1, <1>2, <1>3, <1>4, <1>5, <1>6
<1>8. Numbered' /\ Apart' /\ NoSharing'
  BY <1>7 DEF PoolIInv, Numbered, Apart, NoSharing
<1> QED BY <1>7, <1>8 DEF PoolIInv

\* Every step of a pool keeps its invariant.
LEMMA PoolStepIInv == PoolIInv /\ [PoolNext]_poolVars => PoolIInv'
<1> SUFFICES ASSUME PoolIInv, [PoolNext]_poolVars PROVE PoolIInv'
  OBVIOUS
<1>1. CASE PoolNext
  BY <1>1, AcquireIdleKeeps, AcquireNewKeeps, ReleaseKeeps, OthersKeep DEF PoolNext
<1>2. CASE UNCHANGED poolVars
  BY <1>2 DEF poolVars, conns, globals, PoolIInv, PoolTypeOK, Numbered, Apart, NoSharing
<1> QED BY <1>1, <1>2

\* The invariant every theorem here rests on.
THEOREM PoolInvariant == PoolSpec => []PoolIInv
BY PoolInitIInv, PoolStepIInv, PTL DEF PoolSpec

\* No connection is with two clients, or idle while a client has it
\* (_active_connections and _available_connections of acquire and release).
THEOREM PoolNoSharing == PoolSpec => []NoSharing
<1>1. PoolIInv => NoSharing
  BY DEF PoolIInv
<1> QED BY <1>1, PoolInvariant, PTL

\* No step but a close_all deletes the directory of a connection in use.
THEOREM PoolInUseKept == PoolSpec => InUseKept
<1> DEFINE Kept(c) ==
      held[c] # Nothing /\ held'[c] = held[c] /\ held[c].conn \in known
        => held[c].conn \in known' \/ CloseMoves
<1>1. PoolIInv /\ [PoolNext]_poolVars => [\A c \in Client : Kept(c)]_poolVars
  <2> SUFFICES ASSUME PoolIInv, PoolNext, NEW c \in Client,
                      held[c] # Nothing, held'[c] = held[c], held[c].conn \in known,
                      ~ CloseMoves
               PROVE  held[c].conn \in known'
    OBVIOUS
  <2>0. \A p \in Pool : held[c].conn \notin available[p]
    BY DEF PoolIInv, NoSharing
  <2>1. ASSUME NEW d \in Client, NEW p \in Pool, AcquireIdle(d, p)
        PROVE  held[c].conn \in known'
    BY <2>0, <2>1 DEF AcquireIdle
  <2>2. ASSUME NEW d \in Client, NEW p \in Pool, AcquireNew(d, p) \/ AcquireFails(d, p)
        PROVE  held[c].conn \in known'
    BY <2>0, <2>2 DEF AcquireNew, AcquireFails
  <2>3. ASSUME NEW d \in Client, Release(d)
        PROVE  held[c].conn \in known'
    <3>1. d # c
      BY <2>3 DEF Release, PoolIInv, PoolTypeOK
    <3>2. held[d].conn # held[c].conn
      BY <2>3, <3>1 DEF Release, PoolIInv, NoSharing
    <3> QED BY <2>3, <3>2 DEF Release
  <2>4. ASSUME NEW p \in Pool, CleanUp(p) \/ StartCleanup(p)
        PROVE  held[c].conn \in known'
    BY <2>0, <2>4 DEF CleanUp, Expired, StartCleanup, conns
  <2>5. ASSUME NEW conn \in Conn, Expires(conn)
        PROVE  held[c].conn \in known'
    BY <2>5 DEF Expires
  <2>6. CASE MakePool \/ InitializeFirst
    BY <2>6 DEF MakePool, InitializeFirst, conns
  <2> QED BY <2>1, <2>2, <2>3, <2>4, <2>5, <2>6 DEF PoolNext
<1>2. PoolIInv /\ [PoolNext]_poolVars => [\A c \in Client :
        held[c] # Nothing /\ held'[c] = held[c] /\ held[c].conn \in known
          => held[c].conn \in known' \/ CloseMoves]_poolVars
  BY <1>1
<1> QED BY <1>2, PoolInvariant, PTL DEF PoolSpec, InUseKept

-----------------------------------------------------------------------------
\* Moving a connection between the sets, or dropping some, adds none.
LEMMA FewerFit ==
  ASSUME PoolIInv, NEW p \in Pool, available'[p] \subseteq available[p], active'[p] \subseteq active[p]
  PROVE  /\ Cardinality(active'[p]) <= Cardinality(active[p])
         /\ Cardinality(available'[p]) <= Cardinality(available[p])
         /\ Cardinality(active'[p]) \in Nat /\ Cardinality(available'[p]) \in Nat
         /\ Cardinality(active[p]) \in Nat /\ Cardinality(available[p]) \in Nat
<1>0. IsFiniteSet(Conn)
  <2>1. 1 \in Int /\ MaxIds \in Int
    BY ConnectionPoolAssumption
  <2>2. QED
    BY <2>1, FS_Interval DEF Conn
<1>1. active[p] \subseteq Conn /\ available[p] \subseteq Conn
  BY DEF PoolIInv, PoolTypeOK
<1>2. IsFiniteSet(active[p]) /\ IsFiniteSet(available[p])
  BY <1>0, <1>1, FS_Subset
<1>3. /\ IsFiniteSet(active'[p]) /\ Cardinality(active'[p]) <= Cardinality(active[p])
      /\ IsFiniteSet(available'[p]) /\ Cardinality(available'[p]) <= Cardinality(available[p])
  BY <1>2, FS_Subset
<1> QED BY <1>2, <1>3, FS_CardinalityType

\* The sets counted below are finite.
LEMMA PoolsFinite ==
  ASSUME PoolIInv, NEW p \in Pool
  PROVE  /\ IsFiniteSet(active[p]) /\ IsFiniteSet(available[p])
         /\ Cardinality(active[p]) \in Nat /\ Cardinality(available[p]) \in Nat
<1>0. IsFiniteSet(Conn)
  <2>1. 1 \in Int /\ MaxIds \in Int
    BY ConnectionPoolAssumption
  <2>2. QED
    BY <2>1, FS_Interval DEF Conn
<1>1. active[p] \subseteq Conn /\ available[p] \subseteq Conn
  BY DEF PoolIInv, PoolTypeOK
<1>2. IsFiniteSet(active[p]) /\ IsFiniteSet(available[p])
  BY <1>0, <1>1, FS_Subset
<1> QED BY <1>2, FS_CardinalityType

\* One element more, or one less.
LEMMA OneMore ==
  ASSUME NEW S, NEW x, IsFiniteSet(S)
  PROVE  /\ IsFiniteSet(S \union {x})
         /\ Cardinality(S \union {x}) \in Nat
         /\ Cardinality(S \union {x}) <= Cardinality(S) + 1
<1>1. IsFiniteSet(S \union {x}) /\ (Cardinality(S \union {x}) = IF x \in S THEN Cardinality(S) ELSE Cardinality(S) + 1)
  BY FS_AddElement
<1>2. Cardinality(S) \in Nat
  BY FS_CardinalityType
<1> QED BY <1>1, <1>2

\* ... or one less.
LEMMA OneLess ==
  ASSUME NEW S, NEW x \in S, IsFiniteSet(S)
  PROVE  IsFiniteSet(S \ {x}) /\ Cardinality(S \ {x}) = Cardinality(S) - 1
BY FS_RemoveElement

\* Every step keeps the number of connections within the maximum.
LEMMA StepLimit == PoolIInv /\ LimitKept /\ [PoolNext]_poolVars => LimitKept'
<1> SUFFICES ASSUME PoolIInv, LimitKept, [PoolNext]_poolVars, NEW p \in Pool
             PROVE  Cardinality(active'[p]) + Cardinality(available'[p]) <= MaxConnections
  BY DEF LimitKept
<1>0. /\ Cardinality(active[p]) + Cardinality(available[p]) <= MaxConnections
      /\ IsFiniteSet(active[p]) /\ IsFiniteSet(available[p])
      /\ Cardinality(active[p]) \in Nat /\ Cardinality(available[p]) \in Nat
      /\ MaxConnections \in Nat
  BY PoolsFinite, ConnectionPoolAssumption DEF LimitKept
<1>f. ASSUME available'[p] \subseteq available[p], active'[p] \subseteq active[p]
      PROVE  Cardinality(active'[p]) + Cardinality(available'[p]) <= MaxConnections
  BY <1>0, <1>f, FewerFit
<1>1. ASSUME NEW c \in Client, NEW q \in Pool, AcquireIdle(c, q)
      PROVE  Cardinality(active'[p]) + Cardinality(available'[p]) <= MaxConnections
  <2>1. PICK conn \in available[q] \cap valid, dropped \in SUBSET (available[q] \ valid) :
          /\ available' = [available EXCEPT ![q] = Popped(q, conn, dropped)]
          /\ active' = [active EXCEPT ![q] = @ \union {conn}]
    BY <1>1 DEF AcquireIdle
  <2>2. CASE q # p
    <3>1. available'[p] = available[p] /\ active'[p] = active[p]
      BY <2>1, <2>2 DEF PoolIInv, PoolTypeOK
    <3> QED BY <1>0, <3>1
  <2>3. CASE q = p
    <3>1. /\ active'[p] = active[p] \union {conn}
          /\ available'[p] \subseteq available[p] \ {conn}
          /\ conn \in available[p]
      BY <2>1, <2>3 DEF PoolIInv, PoolTypeOK, Popped
    <3>2. Cardinality(active'[p]) <= Cardinality(active[p]) + 1 /\ Cardinality(active'[p]) \in Nat
      BY <1>0, <3>1, OneMore
    <3>3. /\ IsFiniteSet(available[p] \ {conn})
          /\ Cardinality(available[p] \ {conn}) = Cardinality(available[p]) - 1
      BY <1>0, <3>1, OneLess
    <3>4. /\ Cardinality(available'[p]) <= Cardinality(available[p] \ {conn})
          /\ Cardinality(available'[p]) \in Nat
      BY <3>1, <3>3, FS_Subset, FS_CardinalityType
    <3> QED BY <1>0, <3>2, <3>3, <3>4
  <2> QED BY <2>2, <2>3
<1>2. ASSUME NEW c \in Client, NEW q \in Pool, AcquireNew(c, q)
      PROVE  Cardinality(active'[p]) + Cardinality(available'[p]) <= MaxConnections
  <2>1. CASE q # p
    <3>1. available'[p] = available[p] /\ active'[p] = active[p]
      BY <1>2, <2>1 DEF AcquireNew, PoolIInv, PoolTypeOK
    <3> QED BY <1>0, <3>1
  <2>2. CASE q = p
    <3>1. /\ active'[p] = active[p] \union {ids + 1}
          /\ available'[p] = {}
          /\ Cardinality(active[p]) < MaxConnections
      BY <1>2, <2>2 DEF AcquireNew, Room, PoolIInv, PoolTypeOK
    <3>2. Cardinality(active'[p]) <= Cardinality(active[p]) + 1 /\ Cardinality(active'[p]) \in Nat
      BY <1>0, <3>1, OneMore
    <3>3. Cardinality(available'[p]) = 0
      BY <3>1, FS_EmptySet
    <3> QED BY <1>0, <3>1, <3>2, <3>3
  <2> QED BY <2>1, <2>2
<1>3. ASSUME NEW c \in Client, NEW q \in Pool, AcquireFails(c, q)
      PROVE  Cardinality(active'[p]) + Cardinality(available'[p]) <= MaxConnections
  <2>1. available'[p] \subseteq available[p] /\ active'[p] \subseteq active[p]
    BY <1>3 DEF AcquireFails, PoolIInv, PoolTypeOK
  <2> QED BY <2>1, <1>f
<1>4. ASSUME NEW c \in Client, Release(c)
      PROVE  Cardinality(active'[p]) + Cardinality(available'[p]) <= MaxConnections
  <2> DEFINE q == held[c].pool
             conn == held[c].conn
  <2>1. CASE conn \notin active[q]
    <3>1. available' = available /\ active' = active
      BY <1>4, <2>1 DEF Release
    <3> QED BY <1>0, <3>1
  <2>2. CASE conn \in active[q] /\ q # p
    <3>1. available'[p] = available[p] /\ active'[p] = active[p]
      <4>1. active' = [active EXCEPT ![q] = @ \ {conn}]
        BY <1>4, <2>2 DEF Release
      <4>2. available' = available \/ available' = [available EXCEPT ![q] = @ \union {conn}]
        BY <1>4, <2>2 DEF Release
      <4> QED BY <2>2, <4>1, <4>2 DEF PoolIInv, PoolTypeOK
    <3> QED BY <1>0, <3>1
  <2>3. CASE conn \in active[q] /\ q = p
    <3>1. /\ active'[p] = active[p] \ {conn}
          /\ available'[p] = available[p] \/ available'[p] = available[p] \union {conn}
      <4>1. active' = [active EXCEPT ![q] = @ \ {conn}]
        BY <1>4, <2>3 DEF Release
      <4>2. available' = available \/ available' = [available EXCEPT ![q] = @ \union {conn}]
        BY <1>4, <2>3 DEF Release
      <4> QED BY <2>3, <4>1, <4>2 DEF PoolIInv, PoolTypeOK
    <3>2. Cardinality(active'[p]) = Cardinality(active[p]) - 1
      BY <1>0, <2>3, <3>1, OneLess
    <3>3. /\ Cardinality(available'[p]) <= Cardinality(available[p]) + 1
          /\ Cardinality(available'[p]) \in Nat
      <4>1. /\ Cardinality(available[p] \union {conn}) <= Cardinality(available[p]) + 1
            /\ Cardinality(available[p] \union {conn}) \in Nat
        BY <1>0, OneMore
      <4>2. CASE available'[p] = available[p]
        BY <1>0, <4>2
      <4>3. CASE available'[p] = available[p] \union {conn}
        BY <4>1, <4>3
      <4> QED BY <3>1, <4>2, <4>3
    <3> QED BY <1>0, <3>2, <3>3
  <2> QED BY <2>1, <2>2, <2>3
<1>5. ASSUME \/ \E conn \in Conn : Expires(conn)
             \/ \E q \in Pool : CleanUp(q) \/ StartCleanup(q)
             \/ MakePool \/ InitializeFirst \/ CloseMoves
      PROVE  Cardinality(active'[p]) + Cardinality(available'[p]) <= MaxConnections
  BY <1>5, OthersKeep, <1>f
<1>6. ASSUME UNCHANGED poolVars
      PROVE  Cardinality(active'[p]) + Cardinality(available'[p]) <= MaxConnections
  BY <1>0, <1>6 DEF poolVars, conns
<1> QED BY <1>1, <1>2, <1>3, <1>4, <1>5, <1>6 DEF PoolNext

\* A pool has at most max_connections storage directories, though acquire
\* compares with the active ones alone.
THEOREM PoolLimit == PoolSpec => []LimitKept
<1>1. PoolInit => LimitKept
  BY ConnectionPoolAssumption, FS_EmptySet DEF PoolInit, LimitKept
<1> QED BY <1>1, StepLimit, PoolInvariant, PTL DEF PoolSpec

-----------------------------------------------------------------------------
(***************************************************************************)
(* RequestBatcher: a request runs once, and a batch that ends leaves none  *)
(* of its callers waiting.                                                 *)
(***************************************************************************)

\* No request is twice in a sequence.
Single(seq) == \A i, j \in DOMAIN seq : seq[i] = seq[j] => i = j

\* What has not run yet is in one place, and in it once: that alone keeps the
\* batch, the flush and a caller beside them from running it again.
Unrun ==
  /\ Single(queue) /\ Single(flushing)
  /\ \A r \in Request :
       /\ In(r, queue) => runs[r] = 0 /\ ~In(r, flushing) /\ future[r] # "new"
       /\ In(r, flushing) => runs[r] = 0 /\ future[r] # "new"
       /\ future[r] = "new" => (runs[r] = 0 \/ r = direct) /\ ~In(r, batch)
       /\ runs[r] <= 1

\* A batch that waits for the lock has answered its callers; there is none
\* without a running one.
BatchAnswered ==
  /\ ~processing => batch = <<>> /\ ~answering
  /\ answering => \A r \in Request : In(r, batch) => future[r] # "waiting"

\* The request that runs under the lock is still its caller's own.
DirectNew == direct # NoRequest => direct \in Request /\ future[direct] = "new"

BatchIInv == BatchTypeOK /\ Unrun /\ BatchAnswered /\ DirectNew

\* The first n of a sequence and the rest share it between them.
LEMMA TakenLeft ==
  ASSUME NEW seq \in Seq(Request), NEW k \in Nat
  PROVE  /\ Taken(seq, k) \in Seq(Request) /\ Left(seq, k) \in Seq(Request)
         /\ \A r : In(r, Taken(seq, k)) => In(r, seq)
         /\ \A r : In(r, Left(seq, k)) => In(r, seq)
         /\ Single(seq) => /\ Single(Left(seq, k))
                           /\ \A r : In(r, Taken(seq, k)) => ~In(r, Left(seq, k))
<1> DEFINE m == IF k < Len(seq) THEN k ELSE Len(seq)
<1>1. m \in Nat /\ m <= Len(seq) /\ m <= k /\ Len(seq) \in Nat
  OBVIOUS
<1>2. /\ Taken(seq, k) \in Seq(Request) /\ DOMAIN Taken(seq, k) = 1..m
      /\ \A i \in 1..m : Taken(seq, k)[i] = seq[i]
  BY <1>1 DEF Taken
<1>3. /\ Left(seq, k) \in Seq(Request) /\ DOMAIN Left(seq, k) = 1..(Len(seq) - m)
      /\ \A i \in 1..(Len(seq) - m) : Left(seq, k)[i] = seq[i + m] /\ i + m \in DOMAIN seq
  <2>1. CASE k < Len(seq)
    BY <1>1, <2>1 DEF Left
  <2>2. CASE k >= Len(seq)
    BY <1>1, <2>2 DEF Left
  <2>3. QED
    BY <1>1, <2>1, <2>2
<1> HIDE DEF m
<1>4. \A i \in 1..m : i \in DOMAIN seq
  BY <1>1
<1>5. ASSUME Single(seq) PROVE Single(Left(seq, k)) /\ \A r : In(r, Taken(seq, k)) => ~In(r, Left(seq, k))
  <2>1. Single(Left(seq, k))
    BY <1>1, <1>3, <1>5 DEF Single
  <2>2. ASSUME NEW i \in 1..m, NEW j \in 1..(Len(seq) - m) PROVE seq[i] # seq[j + m]
    BY <1>1, <1>3, <1>4, <1>5 DEF Single
  <2>3. QED
    BY <1>2, <1>3, <2>1, <2>2 DEF In
<1>6. QED
  BY <1>2, <1>3, <1>4, <1>5 DEF In

LEMMA BatchInitIInv == BatchInit => BatchIInv
<1> SUFFICES ASSUME BatchInit PROVE BatchIInv
  OBVIOUS
<1>1. BatchTypeOK
  <2>1. queue \in Seq(Request) /\ batch \in Seq(Request) /\ flushing \in Seq(Request)
    BY DEF BatchInit
  <2>2. future \in [Request -> Future] /\ runs \in [Request -> Nat]
    BY DEF BatchInit, Future
  <2>3. {processing, answering} \subseteq BOOLEAN /\ due \in Nat /\ direct \in Request \union {NoRequest}
    BY DEF BatchInit
  <2>4. QED
    BY <2>1, <2>2, <2>3 DEF BatchTypeOK
<1>2. Unrun /\ BatchAnswered /\ DirectNew
  BY DEF BatchInit, Unrun, Single, In, BatchAnswered, DirectNew
<1>3. QED
  BY <1>1, <1>2 DEF BatchIInv

LEMMA EmptyQueue == <<>> \in Seq(Request) /\ Single(<<>>) /\ \A r : ~In(r, <<>>)
<1>1. <<>> \in Seq(Request) /\ DOMAIN <<>> = {}
  OBVIOUS
<1>2. QED
  BY <1>1 DEF Single, In

\* How often a request has run, once seq has been.
LEMMA RanEffect ==
  ASSUME NEW seq, Ran(seq), runs \in [Request -> Nat]
  PROVE  /\ runs' \in [Request -> Nat]
         /\ \A r \in Request : runs'[r] = IF In(r, seq) THEN runs[r] + 1 ELSE runs[r]
BY DEF Ran

LEMMA BatchStepTypeOK ==
  ASSUME BatchIInv, [BatchNext]_batchVars
  PROVE  BatchTypeOK'
<1>0. BatchTypeOK /\ DirectNew /\ BatchSize \in Nat
  BY RequestBatcherAssumption DEF BatchIInv
<1>1. ASSUME NEW r \in Request, AddRequest(r) PROVE BatchTypeOK'
  <2>1. queue' \in Seq(Request)
    BY <1>0, <1>1 DEF AddRequest, BatchTypeOK
  <2>2. future' \in [Request -> Future]
    BY <1>0, <1>1 DEF AddRequest, BatchTypeOK, Future
  <2>3. due' \in Nat
    BY <1>0, <1>1 DEF AddRequest, BatchTypeOK
  <2>4. QED
    BY <1>0, <1>1, <2>1, <2>2, <2>3 DEF AddRequest, BatchTypeOK
<1>2. ASSUME NEW r \in Request, RunDirectly(r) PROVE BatchTypeOK'
  BY <1>0, <1>2, RanEffect DEF RunDirectly, BatchTypeOK
<1>3. ASSUME NEW r \in Request, CancelCaller(r) PROVE BatchTypeOK'
  BY <1>0, <1>3 DEF CancelCaller, BatchTypeOK, Future, queueVars
<1>4. CASE DirectEnds
  BY <1>0, <1>4 DEF DirectEnds, BatchTypeOK, Future
<1>5. CASE ProcessBatch
  <2>1. due' \in Nat /\ UNCHANGED <<answering, flushing, direct, future>>
    BY <1>0, <1>5 DEF ProcessBatch, BatchTypeOK
  <2>2. CASE UNCHANGED <<queue, processing, batch, runs>>
    BY <1>0, <2>1, <2>2 DEF BatchTypeOK
  <2>3. CASE processing' = TRUE /\ batch' = Taken(queue, BatchSize) /\ queue' = Left(queue, BatchSize) /\ Ran(batch')
    BY <1>0, <2>1, <2>3, TakenLeft, RanEffect DEF BatchTypeOK
  <2>4. QED
    BY <1>5, <2>2, <2>3 DEF ProcessBatch
<1>6. ASSUME BatchOver PROVE batch' \in Seq(Request) /\ {processing', answering'} \subseteq BOOLEAN /\ due' \in Nat
  <2>1. batch' = <<>> /\ {processing', answering'} = {FALSE}
    BY <1>6 DEF BatchOver
  <2>2. due' \in Nat
    BY <1>0, <1>6 DEF BatchOver, BatchTypeOK
  <2>3. {FALSE} \subseteq BOOLEAN
    OBVIOUS
  <2>4. QED
    BY <2>1, <2>2, <2>3, EmptyQueue
<1>7. CASE BatchAnswers
  <2>1. future' \in [Request -> Future]
    BY <1>0, <1>7 DEF BatchAnswers, BatchTypeOK, Answered, Future
  <2>2. UNCHANGED <<queue, flushing, direct, runs>> /\ (BatchOver \/ (answering' = TRUE /\ UNCHANGED <<processing, batch, due>>))
    BY <1>7 DEF BatchAnswers
  <2>3. QED
    BY <1>0, <1>6, <2>1, <2>2 DEF BatchTypeOK
<1>8. CASE BatchEnds
  BY <1>0, <1>6, <1>8 DEF BatchEnds, BatchTypeOK
<1>9. CASE Flush
  BY <1>0, <1>9 DEF Flush, FlushTakes, BatchTypeOK
<1>10. CASE FlushRuns
  <2>1. Head(flushing) \in Request /\ Tail(flushing) \in Seq(Request)
    BY <1>0, <1>10 DEF FlushRuns, BatchTypeOK
  <2>2. Ran(<<Head(flushing)>>) /\ UNCHANGED <<queue, processing, due, batch, answering, direct>>
    BY <1>10 DEF FlushRuns
  <2>3. \/ flushing' = <<>> /\ future' = future
        \/ flushing' = Tail(flushing) /\ future' = [future EXCEPT ![Head(flushing)] = "answered"]
    BY <1>10 DEF FlushRuns
  <2>5. flushing' \in Seq(Request)
    BY <2>1, <2>3, EmptyQueue
  <2>6. future' \in [Request -> Future]
    BY <1>0, <2>1, <2>3 DEF BatchTypeOK, Future
  <2>4. QED
    BY <1>0, <2>2, <2>5, <2>6, RanEffect DEF BatchTypeOK
<1>11. CASE UNCHANGED batchVars
  BY <1>0, <1>11 DEF batchVars, queueVars, BatchTypeOK
<1>12. QED
  BY <1>1, <1>2, <1>3, <1>4, <1>5, <1>7, <1>8, <1>9, <1>10, <1>11 DEF BatchNext

\* A request that is queued is the only one of its name.
LEMMA Appended ==
  ASSUME NEW seq \in Seq(Request), NEW r \in Request
  PROVE  /\ \A q : In(q, Append(seq, r)) <=> In(q, seq) \/ q = r
         /\ Single(seq) /\ ~In(r, seq) => Single(Append(seq, r))
<1>1. /\ DOMAIN Append(seq, r) = 1..(Len(seq) + 1) /\ DOMAIN seq = 1..Len(seq) /\ Len(seq) \in Nat
      /\ Append(seq, r)[Len(seq) + 1] = r /\ \A i \in 1..Len(seq) : Append(seq, r)[i] = seq[i]
      /\ \A i \in 1..(Len(seq) + 1) : i \in 1..Len(seq) \/ i = Len(seq) + 1
  OBVIOUS
<1>2. \A q : In(q, Append(seq, r)) <=> In(q, seq) \/ q = r
  BY <1>1 DEF In
<1>3. Single(seq) /\ ~In(r, seq) => Single(Append(seq, r))
  BY <1>1 DEF In, Single
<1>4. QED
  BY <1>2, <1>3

\* A flush takes the head off a sequence.
LEMMA HeadTail ==
  ASSUME NEW seq \in Seq(Request), seq # <<>>
  PROVE  /\ Head(seq) \in Request /\ In(Head(seq), seq) /\ \A q : In(q, Tail(seq)) => In(q, seq)
         /\ \A q : In(q, <<Head(seq)>>) <=> q = Head(seq)
         /\ Single(seq) => Single(Tail(seq)) /\ ~In(Head(seq), Tail(seq))
<1>1. /\ Len(seq) \in Nat \ {0} /\ DOMAIN seq = 1..Len(seq) /\ DOMAIN Tail(seq) = 1..(Len(seq) - 1)
      /\ Head(seq) = seq[1] /\ \A i \in 1..(Len(seq) - 1) : Tail(seq)[i] = seq[i + 1] /\ i + 1 \in 1..Len(seq) /\ i + 1 # 1
  OBVIOUS
<1>2. 1 \in DOMAIN seq
  BY <1>1
<1>3. \A q : In(q, <<Head(seq)>>) <=> q = Head(seq)
  BY DEF In
<1>4. Head(seq) \in Request
  OBVIOUS
<1>5. QED
  BY <1>1, <1>2, <1>3, <1>4 DEF In, Single

LEMMA BatchStepUnrun ==
  ASSUME BatchIInv, [BatchNext]_batchVars
  PROVE  Unrun'
<1>0. Unrun /\ BatchTypeOK /\ DirectNew /\ BatchSize \in Nat /\ NoRequest \notin Request
  BY RequestBatcherAssumption DEF BatchIInv
<1> USE DEF Unrun
<1>1. ASSUME NEW r \in Request, AddRequest(r) PROVE Unrun'
  <2>1. /\ queue' = Append(queue, r) /\ UNCHANGED <<batch, flushing, direct, runs>> /\ direct = NoRequest
        /\ future[r] = "new" /\ \A q \in Request : future'[q] = IF q = r THEN "waiting" ELSE future[q]
    BY <1>0, <1>1 DEF AddRequest, Unlocked, BatchTypeOK
  <2>2. ~In(r, queue) /\ ~In(r, flushing) /\ runs[r] = 0
    BY <1>0, <2>1
  <2>3. Single(queue') /\ \A q : In(q, queue') <=> In(q, queue) \/ q = r
    BY <1>0, <2>1, <2>2, Appended DEF BatchTypeOK
  <2>4. QED
    BY <1>0, <2>1, <2>2, <2>3
<1>2. ASSUME NEW r \in Request, RunDirectly(r) PROVE Unrun'
  <2>1. UNCHANGED <<queue, flushing, batch, future>> /\ direct' = r /\ future[r] = "new" /\ direct = NoRequest
    BY <1>2 DEF RunDirectly, Unlocked
  <2>2. \A q \in Request : runs'[q] = IF q = r THEN runs[q] + 1 ELSE runs[q]
    BY SMTT(30), <1>2, RanEffect, <1>0 DEF RunDirectly, In, BatchTypeOK
  <2>3. runs[r] = 0
    BY <1>0, <2>1
  <2>4. QED
    BY <1>0, <2>1, <2>2, <2>3
<1>3. ASSUME NEW r \in Request, CancelCaller(r) PROVE Unrun'
  BY <1>0, <1>3 DEF CancelCaller, BatchTypeOK, queueVars
<1>4. CASE DirectEnds
  BY <1>0, <1>4 DEF DirectEnds, Unlocked, BatchTypeOK, DirectNew
<1>5. CASE ProcessBatch
  <2>1. UNCHANGED <<flushing, direct, future>> /\ direct = NoRequest
    BY <1>5 DEF ProcessBatch, Unlocked
  <2>2. CASE UNCHANGED <<queue, processing, batch, runs>>
    BY <1>0, <2>1, <2>2
  <2>3. CASE batch' = Taken(queue, BatchSize) /\ queue' = Left(queue, BatchSize) /\ Ran(batch')
    <3>1. /\ Single(queue') /\ \A r : In(r, queue') \/ In(r, batch') => In(r, queue)
          /\ \A r : In(r, batch') => ~In(r, queue')
      BY <1>0, <2>3, TakenLeft DEF BatchTypeOK
    <3>2. \A r \in Request : runs'[r] = IF In(r, batch') THEN runs[r] + 1 ELSE runs[r]
      BY <1>0, <2>3, RanEffect DEF BatchTypeOK
    <3>3. QED
      BY <1>0, <2>1, <3>1, <3>2
  <2>4. QED
    BY <1>5, <2>2, <2>3 DEF ProcessBatch
<1>6. CASE BatchAnswers
  <2>1. UNCHANGED <<queue, flushing, direct, runs>> /\ (batch' = <<>> \/ batch' = batch)
    BY <1>6 DEF BatchAnswers, BatchOver
  <2>2. \A r \in Request : future'[r] = "new" => future[r] = "new"
    BY <1>6 DEF BatchAnswers, Answered
  <2>3. \A r : In(r, batch') => In(r, batch)
    BY <2>1 DEF In
  <2>4. \A r \in Request : future[r] # "new" => future'[r] # "new"
    BY <2>2
  <2>5. QED
    BY <1>0, <2>1, <2>2, <2>3, <2>4
<1>7. CASE BatchEnds
  BY <1>0, <1>7 DEF BatchEnds, BatchOver, In
<1>8. CASE Flush
  <2>1. flushing' = queue /\ queue' = <<>> /\ UNCHANGED <<batch, direct, future, runs>>
    BY <1>8 DEF Flush, FlushTakes
  <2>2. Single(<<>>) /\ \A r : ~In(r, <<>>)
    BY DEF Single, In
  <2>3. QED
    BY <1>0, <2>1, <2>2
<1>9. CASE FlushRuns
  <2> DEFINE r == Head(flushing)
  <2>1. flushing \in Seq(Request) /\ flushing # <<>>
    BY <1>0, <1>9 DEF FlushRuns, BatchTypeOK
  <2>2. Ran(<<r>>) /\ UNCHANGED <<queue, batch, direct>>
    BY <1>9 DEF FlushRuns
  <2>3. r \in Request /\ In(r, flushing)
    BY <2>1, HeadTail
  <2>4. /\ flushing' \in {<<>>, Tail(flushing)}
        /\ \A q \in Request : future'[q] = future[q] \/ (q = r /\ future'[q] = "answered")
    BY <1>0, <1>9 DEF FlushRuns, BatchTypeOK
  <2>5. Single(flushing') /\ \A q : In(q, flushing') => In(q, flushing) /\ q # r
    <3>1. CASE flushing' = <<>>
      BY <3>1, EmptyQueue
    <3>2. CASE flushing' = Tail(flushing)
      BY <1>0, <2>1, <3>2, HeadTail
    <3>3. QED
      BY <2>4, <3>1, <3>2
  <2>6. \A q \in Request : runs'[q] = IF q = r THEN runs[q] + 1 ELSE runs[q]
    BY <1>0, <2>1, <2>2, RanEffect, HeadTail DEF BatchTypeOK
  <2> HIDE DEF r
  <2>7. QED
    BY <1>0, <2>2, <2>3, <2>4, <2>5, <2>6
<1>10. CASE UNCHANGED batchVars
  BY <1>0, <1>10 DEF batchVars, queueVars
<1>11. QED
  BY <1>1, <1>2, <1>3, <1>4, <1>5, <1>6, <1>7, <1>8, <1>9, <1>10 DEF BatchNext

\* The callers of a batch are answered when it ends.
LEMMA AnswersAll ==
  ASSUME BatchAnswers, NEW r \in Request, In(r, batch)
  PROVE  future'[r] # "waiting"
<1>1. future'[r] = Answered(r)
  BY DEF BatchAnswers
<1>2. QED
  BY <1>1 DEF Answered

LEMMA BatchStepAnswered ==
  ASSUME BatchIInv, [BatchNext]_batchVars
  PROVE  BatchAnswered' /\ DirectNew'
<1>0. Unrun /\ BatchTypeOK /\ DirectNew /\ BatchAnswered /\ NoRequest \notin Request
  BY RequestBatcherAssumption DEF BatchIInv
<1> USE DEF BatchAnswered, DirectNew
<1>1. ASSUME NEW r \in Request, AddRequest(r) \/ CancelCaller(r) PROVE BatchAnswered' /\ DirectNew'
  <2>1. /\ UNCHANGED <<processing, batch, answering, direct>>
        /\ (\A q \in Request \ {r} : future'[q] = future[q])
        /\ \/ future[r] = "new" /\ direct = NoRequest
           \/ future[r] = "waiting" /\ future'[r] = "cancelled"
    BY <1>0, <1>1 DEF AddRequest, CancelCaller, queueVars, BatchTypeOK, Unlocked
  <2>2. future[r] = "new" /\ direct = NoRequest => ~In(r, batch)
    BY <1>0 DEF Unrun
  <2>3. QED
    BY <1>0, <2>1, <2>2
<1>2. ASSUME NEW r \in Request, RunDirectly(r) PROVE BatchAnswered' /\ DirectNew'
  BY <1>0, <1>2 DEF RunDirectly
<1>3. CASE DirectEnds
  BY <1>0, <1>3 DEF DirectEnds, Unlocked, BatchTypeOK
<1>4. CASE ProcessBatch
  <2>1. UNCHANGED <<answering, direct, future>> /\ direct = NoRequest
    BY <1>4 DEF ProcessBatch, Unlocked
  <2>2. UNCHANGED <<processing, batch>> \/ (~processing /\ processing' = TRUE)
    BY <1>4 DEF ProcessBatch
  <2>3. answering => processing
    BY <1>0
  <2>4. QED
    BY <1>0, <2>1, <2>2, <2>3
<1>5. CASE BatchAnswers
  <2>1. \/ processing' = FALSE /\ batch' = <<>> /\ answering' = FALSE
        \/ processing /\ answering' = TRUE /\ UNCHANGED <<processing, batch>>
    BY <1>5 DEF BatchAnswers, BatchOver
  <2>2. direct' = direct /\ \A r \in Request : future[r] = "new" => future'[r] = "new"
    BY <1>5 DEF BatchAnswers, Answered
  <2>3. QED
    BY <1>0, <1>5, <2>1, <2>2, AnswersAll
<1>6. CASE BatchEnds
  BY <1>0, <1>6 DEF BatchEnds, BatchOver
<1>7. CASE Flush
  BY <1>0, <1>7 DEF Flush
<1>8. CASE FlushRuns
  <2>1. flushing \in Seq(Request) /\ flushing # <<>>
    BY <1>0, <1>8 DEF FlushRuns, BatchTypeOK
  <2>2. Head(flushing) \in Request /\ future[Head(flushing)] # "new"
    BY <1>0, <2>1, HeadTail DEF Unrun
  <2>3. /\ UNCHANGED <<processing, batch, answering, direct>>
        /\ \A q \in Request : future'[q] = future[q] \/ (q = Head(flushing) /\ future'[q] = "answered")
    BY <1>0, <1>8, <2>2 DEF FlushRuns, BatchTypeOK
  <2>4. QED
    BY <1>0, <2>2, <2>3
<1>9. CASE UNCHANGED batchVars
  BY <1>0, <1>9 DEF batchVars, queueVars
<1>10. QED
  BY <1>1, <1>2, <1>3, <1>4, <1>5, <1>6, <1>7, <1>8, <1>9 DEF BatchNext

LEMMA BatchStepIInv == BatchIInv /\ [BatchNext]_batchVars => BatchIInv'
<1> SUFFICES ASSUME BatchIInv, [BatchNext]_batchVars PROVE BatchIInv'
  OBVIOUS
<1>1. BatchTypeOK' /\ Unrun' /\ BatchAnswered' /\ DirectNew'
  BY BatchStepTypeOK, BatchStepUnrun, BatchStepAnswered
<1>2. QED
  BY <1>1 DEF BatchIInv

\* The types hold, and what has not run is in one place, for any number of
\* requests and any limits of batch and queue.
THEOREM BatchInvariant == BatchSpec => []BatchIInv
BY BatchInitIInv, BatchStepIInv, PTL DEF BatchSpec

\* _process_batch, flush and add_request's own run (obscura_request_optimizer.py):
\* none of them runs a request that another has run or will run, and a batch that
\* ends has answered each of its callers.
THEOREM BatchServesAll == BatchSpec => BatchServes
<1>1. ASSUME BatchIInv, [BatchNext]_batchVars
      PROVE  [\A r \in Request : /\ runs'[r] <= 1
                                 /\ batch # batch' /\ In(r, batch) => future'[r] # "waiting"]_batchVars
  <2>1. SUFFICES ASSUME NEW r \in Request
                 PROVE  runs'[r] <= 1 /\ (batch # batch' /\ In(r, batch) => future'[r] # "waiting")
    OBVIOUS
  <2>2. runs'[r] <= 1
    BY <1>1, BatchStepUnrun DEF Unrun
  <2>3. ASSUME batch # batch', In(r, batch) PROVE future'[r] # "waiting"
    <3>1. BatchAnswered /\ \A q : ~In(q, <<>>)
      BY <1>1 DEF BatchIInv, In
    <3>2. BatchAnswers \/ (answering /\ future' = future)
      BY <1>1, <2>3, <3>1 DEF BatchNext, AddRequest, RunDirectly, CancelCaller, DirectEnds, ProcessBatch,
         BatchEnds, Flush, FlushRuns, batchVars, queueVars, BatchAnswered
    <3>3. QED
      BY <2>3, <3>1, <3>2, AnswersAll DEF BatchAnswered
  <2>4. QED
    BY <2>2, <2>3
<1>2. QED
  BY <1>1, BatchInvariant, PTL DEF BatchSpec, BatchServes

-----------------------------------------------------------------------------
(***************************************************************************)
(* AsyncExecutor: the slots are accounted for however operations end.      *)
(***************************************************************************)

\* Who sleeps has an attempt left.
Retrying == \A o \in Operation : op[o] = "sleep" => attempt[o] < MaxRetries

\* Operations run only during the call, behind a slot each or one by one.
ExecIInv ==
  /\ ExecTypeOK /\ Retrying
  /\ InProgress # {} => gathered = "running"
  /\ gathered = "none" => ~flag
  /\ flag => slots + Cardinality(InProgress) = MaxConcurrent
  /\ ~flag => slots = MaxConcurrent /\ \A o, p \in InProgress : o = p

\* One operation begins, ends or goes on: what that does to those in progress.
LEMMA ProgressEffect ==
  ASSUME ExecTypeOK, NEW o \in Operation, NEW at \in Over \union {"queued", "fetch", "sleep"},
         op' = [op EXCEPT ![o] = at]
  PROVE  /\ IsFiniteSet(InProgress) /\ Cardinality(InProgress) \in Nat
         /\ at \in {"fetch", "sleep"} => InProgress' = InProgress \union {o}
         /\ at \notin {"fetch", "sleep"} => InProgress' = InProgress \ {o}
         /\ Cardinality(InProgress \union {o}) =
              IF o \in InProgress THEN Cardinality(InProgress) ELSE Cardinality(InProgress) + 1
         /\ Cardinality(InProgress \ {o}) =
              IF o \in InProgress THEN Cardinality(InProgress) - 1 ELSE Cardinality(InProgress)
         /\ op' \in [Operation -> Over \union {"queued", "fetch", "sleep"}]
<1>1. InProgress \subseteq Operation
  BY DEF InProgress
<1>2. IsFiniteSet(InProgress) /\ Cardinality(InProgress) \in Nat
  BY <1>1, AsyncExecutorAssumption, FS_Subset, FS_CardinalityType
<1>3. Cardinality(InProgress \union {o}) =
        IF o \in InProgress THEN Cardinality(InProgress) ELSE Cardinality(InProgress) + 1
  BY <1>2, FS_AddElement
<1>4. Cardinality(InProgress \ {o}) =
        IF o \in InProgress THEN Cardinality(InProgress) - 1 ELSE Cardinality(InProgress)
  BY <1>2, FS_RemoveElement
<1>5. /\ at \in {"fetch", "sleep"} => InProgress' = InProgress \union {o}
      /\ at \notin {"fetch", "sleep"} => InProgress' = InProgress \ {o}
  BY DEF InProgress, ExecTypeOK
<1>6. op' \in [Operation -> Over \union {"queued", "fetch", "sleep"}]
  BY DEF ExecTypeOK
<1> QED BY <1>2, <1>3, <1>4, <1>5, <1>6

\* Every step of an operation and of the call keeps it.
LEMMA ExecStep == ExecIInv /\ [ExecNext]_execVars => ExecIInv'
<1> SUFFICES ASSUME ExecIInv, [ExecNext]_execVars PROVE ExecIInv'
  OBVIOUS
<1>0. /\ ExecTypeOK /\ slots \in Nat /\ flag \in BOOLEAN
      /\ MaxConcurrent \in Nat /\ MaxRetries \in Nat
      /\ InProgress # {} => gathered = "running"
      /\ gathered = "none" => ~flag
      /\ Retrying
  BY AsyncExecutorAssumption DEF ExecIInv, ExecTypeOK
<1>1. CASE Call
  <2>1. InProgress' = InProgress /\ InProgress = {}
    BY <1>0, <1>1 DEF Call, InProgress
  <2>2. slots' = MaxConcurrent /\ Cardinality(InProgress') = 0
    BY <1>0, <1>1, <2>1, FS_EmptySet DEF Call, ExecIInv
  <2>3. ExecTypeOK' /\ Retrying'
    BY <1>0, <1>1 DEF Call, ExecTypeOK, Retrying
  <2> QED BY <1>0, <1>1, <2>1, <2>2, <2>3 DEF Call, ExecIInv
<1>2. ASSUME NEW o \in Operation, Begins(o) PROVE ExecIInv'
  <2>1. op' = [op EXCEPT ![o] = "fetch"] /\ o \notin InProgress /\ gathered' = "running"
        /\ flag' = flag /\ attempt' = attempt
    BY <1>2 DEF Begins, InProgress
  <2>2. /\ InProgress' = InProgress \union {o} /\ Cardinality(InProgress) \in Nat
        /\ Cardinality(InProgress') = Cardinality(InProgress) + 1
        /\ op' \in [Operation -> Over \union {"queued", "fetch", "sleep"}]
    BY <1>0, <2>1, ProgressEffect
  <2>5. Retrying'
    BY <1>0, <2>1 DEF Retrying, ExecTypeOK
  <2>3. CASE flag
    <3>1. slots > 0 /\ slots' = slots - 1
      BY <1>2, <2>3 DEF Begins
    <3>2. slots' + Cardinality(InProgress') = MaxConcurrent
      BY <1>0, <2>2, <2>3, <3>1 DEF ExecIInv
    <3>3. ExecTypeOK'
      BY <1>0, <2>1, <2>2, <3>1 DEF ExecTypeOK
    <3> QED BY <2>1, <2>3, <2>5, <3>2, <3>3 DEF ExecIInv
  <2>4. CASE ~flag
    <3>1. InProgress = {} /\ slots' = slots
      BY <1>2, <2>4 DEF Begins, InProgress, Over
    <3>2. ExecTypeOK'
      BY <1>0, <2>1, <2>2, <3>1 DEF ExecTypeOK
    <3> QED BY <2>1, <2>2, <2>4, <2>5, <3>1, <3>2 DEF ExecIInv
  <2> QED BY <1>0, <2>3, <2>4
<1>3. ASSUME NEW o \in Operation, o \in InProgress, NEW at \in Over, op' = [op EXCEPT ![o] = at],
             Releases, UNCHANGED <<flag, attempt>>,
             gathered' = gathered \/ (~flag /\ gathered' = "raised")
      PROVE  ExecIInv'
  <2>1. /\ InProgress' = InProgress \ {o} /\ Cardinality(InProgress) \in Nat
        /\ Cardinality(InProgress') = Cardinality(InProgress) - 1
        /\ op' \in [Operation -> Over \union {"queued", "fetch", "sleep"}]
    <3>1. at \in Over \union {"queued", "fetch", "sleep"} /\ at \notin {"fetch", "sleep"}
      BY DEF Over
    <3> QED BY <1>0, <1>3, <3>1, ProgressEffect
  <2>2. gathered = "running"
    BY <1>0, <1>3
  <2>5. Retrying'
    BY <1>0, <1>3 DEF Retrying, ExecTypeOK, Over
  <2>3. CASE flag
    <3>1. slots' + Cardinality(InProgress') = MaxConcurrent
      BY <1>0, <1>3, <2>1, <2>3 DEF ExecIInv, Releases
    <3>2. Cardinality(InProgress') \in Nat
      BY <1>0, <1>3, <2>1, AsyncExecutorAssumption, FS_Subset, FS_CardinalityType DEF InProgress
    <3>3. slots' \in 0..MaxConcurrent
      BY <1>0, <1>3, <2>3, <3>1, <3>2 DEF Releases
    <3>4. ExecTypeOK'
      BY <1>0, <1>3, <2>1, <2>2, <2>3, <3>3 DEF ExecTypeOK
    <3> QED BY <1>3, <2>2, <2>3, <2>5, <3>1, <3>4 DEF ExecIInv
  <2>4. CASE ~flag
    <3>1. InProgress = {o}
      BY <1>3, <2>4 DEF ExecIInv
    <3>2. ExecTypeOK'
      BY <1>0, <1>3, <2>1, <2>2, <2>4 DEF ExecTypeOK, Releases
    <3> QED BY <1>3, <2>1, <2>2, <2>4, <2>5, <3>1, <3>2 DEF ExecIInv, Releases
  <2> QED BY <1>0, <2>3, <2>4
<1>4. ASSUME NEW o \in Operation, o \in InProgress, NEW at \in {"fetch", "sleep"}, op' = [op EXCEPT ![o] = at],
             attempt' \in [Operation -> 1..MaxRetries], Retrying', UNCHANGED <<flag, slots, gathered>>
      PROVE  ExecIInv'
  <2>1. /\ InProgress' = InProgress
        /\ op' \in [Operation -> Over \union {"queued", "fetch", "sleep"}]
    <3>1. at \in Over \union {"queued", "fetch", "sleep"}
      BY <1>4
    <3>2. /\ InProgress' = InProgress \union {o}
          /\ op' \in [Operation -> Over \union {"queued", "fetch", "sleep"}]
      BY ONLY <1>0, <1>4, <3>1, ProgressEffect
    <3> QED BY <1>4, <3>2
  <2>2. ExecTypeOK'
    BY <1>0, <1>4, <2>1 DEF ExecTypeOK
  <2> QED BY <1>4, <2>1, <2>2 DEF ExecIInv
<1>5. ASSUME NEW o \in Operation, Fetched(o) PROVE ExecIInv'
  <2>1. o \in InProgress /\ "result" \in Over
    BY <1>5 DEF Fetched, InProgress, Over
  <2> QED BY <1>3, <1>5, <2>1 DEF Fetched
<1>6. ASSUME NEW o \in Operation, FetchFails(o) PROVE ExecIInv'
  <2>1. o \in InProgress /\ "error" \in Over
    BY <1>6 DEF FetchFails, InProgress, Over
  <2>2. CASE attempt[o] < MaxRetries
    <3>1. op' = [op EXCEPT ![o] = "sleep"] /\ attempt' = attempt
      BY <1>6, <2>2 DEF FetchFails
    <3>2. attempt' \in [Operation -> 1..MaxRetries] /\ Retrying'
      BY <1>0, <2>2, <3>1 DEF Retrying, ExecTypeOK
    <3> QED BY <1>4, <1>6, <2>1, <2>2, <3>1, <3>2 DEF FetchFails
  <2>3. CASE ~(attempt[o] < MaxRetries)
    BY <1>3, <1>6, <2>1, <2>3 DEF FetchFails
  <2> QED BY <2>2, <2>3
<1>7. ASSUME NEW o \in Operation, Retries(o) PROVE ExecIInv'
  <2>1. o \in InProgress
    BY <1>7 DEF Retries, InProgress
  <2>2. attempt[o] \in 1..MaxRetries /\ attempt[o] + 1 \in 1..MaxRetries
    BY <1>0, <1>7 DEF Retries, Retrying, ExecTypeOK
  <2>3. attempt' \in [Operation -> 1..MaxRetries]
    BY <1>0, <1>7, <2>2 DEF Retries, ExecTypeOK
  <2>4. Retrying'
    BY <1>0, <1>7 DEF Retries, Retrying, ExecTypeOK
  <2> QED BY <1>4, <1>7, <2>1, <2>3, <2>4 DEF Retries
<1>8. ASSUME NEW o \in Operation, TimesOut(o) PROVE ExecIInv'
  <2>1. o \in InProgress /\ "timeout" \in Over /\ Releases
    BY <1>8 DEF TimesOut, InProgress, Over, LeavesSlot, Releases
  <2> QED BY <1>3, <1>8, <2>1 DEF TimesOut
<1>9. CASE Gathers
  <2>1. InProgress = {} /\ InProgress' = InProgress
    BY <1>9 DEF Gathers, InProgress, Over
  <2> QED BY <1>0, <1>9, <2>1 DEF Gathers, ExecIInv, ExecTypeOK, Retrying
<1>10. CASE UNCHANGED execVars
  BY <1>0, <1>10 DEF execVars, ExecIInv, ExecTypeOK, InProgress, Retrying
<1> QED BY <1>1, <1>2, <1>5, <1>6, <1>7, <1>8, <1>9, <1>10 DEF ExecNext

\* The slots are accounted for, while operations end and try again in any order.
THEOREM ExecInvariant == ExecSpec => []ExecIInv
<1>1. ExecInit => ExecIInv
  <2> SUFFICES ASSUME ExecInit PROVE ExecIInv
    OBVIOUS
  <2>1. InProgress = {} /\ Retrying
    BY DEF ExecInit, InProgress, Retrying
  <2>2. attempt \in [Operation -> 1..MaxRetries] /\ slots \in 0..MaxConcurrent
    BY AsyncExecutorAssumption DEF ExecInit
  <2>3. ExecTypeOK
    BY <2>2 DEF ExecInit, ExecTypeOK
  <2>4. Cardinality(InProgress) = 0
    BY <2>1, FS_EmptySet
  <2> QED BY <2>1, <2>3, <2>4, AsyncExecutorAssumption DEF ExecInit, ExecIInv
<1> QED BY <1>1, ExecStep, PTL DEF ExecSpec

\* A slot comes back once for each operation, one by one there is one operation at
\* a time, and none is left running by execute_concurrent.
THEOREM ExecSlotsAccounted == ExecSpec => []SlotsAccounted
<1>1. ExecIInv => SlotsAccounted
  <2> SUFFICES ASSUME ExecIInv PROVE SlotsAccounted
    OBVIOUS
  <2>1. ASSUME ~flag PROVE Cardinality(InProgress) <= 1
    <3>1. CASE InProgress = {}
      BY <3>1, FS_EmptySet
    <3>2. CASE InProgress # {}
      <4>1. PICK o \in InProgress : TRUE
        BY <3>2
      <4>2. InProgress = {o}
        BY <2>1, <4>1 DEF ExecIInv
      <4> QED BY <4>2, FS_Singleton
    <3> QED BY <3>1, <3>2
  <2> QED BY <2>1 DEF ExecIInv, SlotsAccounted
<1> QED BY <1>1, ExecInvariant, PTL

-----------------------------------------------------------------------------
(***************************************************************************)
(* References: the facts about numbers and folds that its sequences rest on.*)
(* The libraries state induction and the equations of a fold for operators,*)
(* which no prover here can be given; as facts about sets of numbers and   *)
(* about the one function that a fold iterates they can be used.           *)
(***************************************************************************)

\* Induction over the numbers, as a fact about sets: each non-empty set of
\* numbers has a least element ...
LEMMA LeastOf ==
  ASSUME NEW T \in SUBSET Nat, T # {}
  PROVE  \E x \in T : \A y \in T : x <= y
<1> DEFINE R == OpToRel(<, Nat)
<1>1. IsWellFoundedOn(R, Nat)
  BY NatLessThanWellFounded
<1>2. \A x, y \in Nat : <<y, x>> \in R <=> y < x
  BY DEF OpToRel
<1> HIDE DEF R
<1>3. PICK x \in T : \A y \in T : ~ (<<y, x>> \in R)
  BY <1>1, WFMin
<1>4. \A y \in T : ~ (y < x)
  BY <1>2, <1>3
<1> QED BY <1>4, x \in Nat

\* ... so that one that has 0 and the successor of each of its elements up to n
\* has every number up to n.
LEMMA UpTo ==
  ASSUME NEW n \in Nat, NEW T, 0 \in T, \A i \in 1..n : i - 1 \in T => i \in T
  PROVE  0..n \subseteq T
<1> DEFINE U == (0..n) \ T
<1> SUFFICES ASSUME U # {} PROVE FALSE
  OBVIOUS
<1>1. U \in SUBSET Nat
  OBVIOUS
<1> HIDE DEF U
<1>2. PICK x \in U : \A y \in U : x <= y
  BY <1>1, LeastOf
<1>3. x \in 1..n /\ x - 1 \notin U
  BY <1>2 DEF U
<1> QED BY <1>3 DEF U

\* A finite set of numbers has a greatest element.
LEMMA GreatestOf ==
  ASSUME NEW n \in Nat, NEW D \in SUBSET (1..n), D # {}
  PROVE  Max(D) \in D /\ \A y \in D : y <= Max(D)
<1> DEFINE T == {n - d : d \in D}
<1>1. T \in SUBSET Nat /\ T # {}
  <2>1. \A d \in D : n - d \in Nat
    OBVIOUS
  <2> QED BY <2>1
<1> HIDE DEF T
<1>2. PICK x \in T : \A y \in T : x <= y
  BY <1>1, LeastOf
<1>3. PICK d \in D : x = n - d
  BY DEF T
<1>4. \A y \in D : n - y \in T
  BY DEF T
<1>5. \A y \in D : d >= y
  <2> TAKE y \in D
  <2>1. x <= n - y
    BY <1>2, <1>4
  <2> QED BY <2>1, <1>3
<1>6. \E m \in D : \A y \in D : m >= y
  BY <1>5
<1>7. Max(D) \in D /\ \A y \in D : Max(D) >= y
  BY <1>6 DEF Max
<1> QED BY <1>7

\* The greatest number of a range is its end.
LEMMA GreatestUpTo ==
  ASSUME NEW n \in Nat, n # 0
  PROVE  Max(1..n) = n /\ (1..n) \ {n} = 1..(n - 1)
<1>1. Max(1..n) \in 1..n /\ \A y \in 1..n : y <= Max(1..n)
  <2>1. 1..n \in SUBSET (1..n) /\ 1..n # {}
    OBVIOUS
  <2> QED BY <2>1, GreatestOf
<1>2. n <= Max(1..n)
  BY <1>1
<1> QED BY <1>1, <1>2

\* Iterating a step over each set of numbers up to m, the greatest number last.
Iterates(it, m, base, step) ==
  \A D \in SUBSET (1..m) : it[D] = IF D = {} THEN base ELSE step[<<Max(D), it[D \ {Max(D)}]>>]

\* What MapThenFoldSet takes for granted: such an iteration exists.
LEMMA IterationExists ==
  ASSUME NEW n \in Nat, NEW V, NEW base \in V, NEW step \in [(1..n) \X V -> V]
  PROVE  \E it \in [SUBSET (1..n) -> V] : Iterates(it, n, base, step)
<1> DEFINE T == {m \in 0..n : \E it \in [SUBSET (1..m) -> V] : Iterates(it, m, base, step)}
<1>1. 0 \in T
  <2> DEFINE it == [D \in SUBSET (1..0) |-> base]
  <2>1. it \in [SUBSET (1..0) -> V] /\ \A D \in SUBSET (1..0) : D = {}
    OBVIOUS
  <2>2. Iterates(it, 0, base, step)
    BY <2>1 DEF Iterates
  <2> QED BY <2>1, <2>2
<1>2. ASSUME NEW m \in 1..n, m - 1 \in T PROVE m \in T
  <2>1. PICK old \in [SUBSET (1..(m - 1)) -> V] : Iterates(old, m - 1, base, step)
    BY <1>2
  <2> DEFINE it == [D \in SUBSET (1..m) |->
                      IF m \in D THEN step[<<m, old[D \ {m}]>>] ELSE old[D]]
  <2>2. \A D \in SUBSET (1..m) : D \ {m} \in SUBSET (1..(m - 1)) /\ (m \notin D => D \in SUBSET (1..(m - 1)))
    OBVIOUS
  <2>3. it \in [SUBSET (1..m) -> V]
    BY <2>2
  <2>4. ASSUME NEW D \in SUBSET (1..m)
        PROVE  it[D] = IF D = {} THEN base ELSE step[<<Max(D), it[D \ {Max(D)}]>>]
    <3>1. CASE D = {}
      <4>1. it[D] = old[D]
        BY <3>1
      <4>2. D \in SUBSET (1..(m - 1))
        BY <3>1
      <4> HIDE DEF it
      <4> QED BY <2>1, <3>1, <4>1, <4>2 DEF Iterates
    <3>2. CASE D # {} /\ m \in D
      <4>1. Max(D) = m
        <5>1. m \in Nat /\ D # {}
          BY <3>2
        <5>2. Max(D) \in D /\ \A y \in D : y <= Max(D)
          BY <5>1, GreatestOf
        <5>3. Max(D) \in 1..m /\ m <= Max(D)
          BY <3>2, <5>2
        <5> HIDE DEF it
        <5> QED BY <5>3
      <4>2. it[D \ {m}] = old[D \ {m}]
        BY <2>2
      <4>3. it[D] = step[<<m, old[D \ {m}]>>]
        BY <3>2
      <4> HIDE DEF it
      <4> QED BY <3>2, <4>1, <4>2, <4>3
    <3>3. CASE D # {} /\ m \notin D
      <4>1. D \in SUBSET (1..(m - 1)) /\ D \ {Max(D)} \in SUBSET (1..(m - 1))
        BY <2>2, <3>3
      <4>2. it[D] = old[D] /\ it[D \ {Max(D)}] = old[D \ {Max(D)}]
        BY <3>3, <4>1
      <4> HIDE DEF it
      <4>3. old[D] = step[<<Max(D), old[D \ {Max(D)}]>>]
        BY <2>1, <3>3, <4>1 DEF Iterates
      <4> QED BY <3>3, <4>2, <4>3
    <3> QED BY <3>1, <3>2, <3>3
  <2> HIDE DEF it
  <2>5. Iterates(it, m, base, step)
    BY <2>4 DEF Iterates
  <2> QED BY <2>3, <2>5
<1> HIDE DEF T
<1>3. n \in T
  BY <1>1, <1>2, UpTo
<1> QED BY <1>3 DEF T

\* Folding by Merged, one reference after the other.
LEMMA MergedFolds ==
  ASSUME NEW R, NEW refs \in Seq(R)
  PROVE  \E m : /\ m[0] = <<>>
                /\ \A n \in 1..Len(refs) : m[n] = Merged(m[n - 1], refs[n])
                /\ FoldLeft(Merged, <<>>, refs) = m[Len(refs)]
<1> DEFINE N == Len(refs)
           V == Seq(R)
           step == [p \in (1..N) \X V |-> Merged(p[2], refs[p[1]])]
           Eq(g) == g = [D \in SUBSET DOMAIN refs |->
                           IF D = {} THEN <<>>
                           ELSE LET x == Max(D) IN Merged(g[D \ {x}], refs[x])]
           iter == CHOOSE g : Eq(g)
<1>0. N \in Nat /\ DOMAIN refs = 1..N /\ <<>> \in V /\ \A n \in 1..N : refs[n] \in R
  OBVIOUS
<1>1. \A s \in V, r \in R : Merged(s, r) \in V
  <2> TAKE s \in V, r \in R
  <2>1. CASE \E i \in DOMAIN s : s[i].url = r.url
    <3> DEFINE t == [i \in DOMAIN s |-> IF s[i].url = r.url THEN ChooseBetterReference(s[i], r) ELSE s[i]]
    <3>1. \A i \in DOMAIN s : t[i] \in R
      BY DEF ChooseBetterReference
    <3>2. t \in [1..Len(s) -> R] /\ Len(s) \in Nat
      BY <3>1
    <3>3. t \in V
      <4> HIDE DEF t
      <4> QED BY <3>2
    <3> QED BY <2>1, <3>3 DEF Merged
  <2>2. CASE ~ \E i \in DOMAIN s : s[i].url = r.url
    BY <2>2 DEF Merged
  <2> QED BY <2>1, <2>2
<1>2. step \in [(1..N) \X V -> V]
  <2>1. \A p \in (1..N) \X V : Merged(p[2], refs[p[1]]) \in V
    BY <1>0, <1>1
  <2> QED BY <2>1
<1>3. PICK it \in [SUBSET (1..N) -> V] : Iterates(it, N, <<>>, step)
  <2> HIDE DEF V, N, step
  <2> QED BY <1>0, <1>2, IterationExists
<1>4. Eq(it)
  <2>1. ASSUME NEW D \in SUBSET (1..N)
        PROVE  it[D] = IF D = {} THEN <<>> ELSE Merged(it[D \ {Max(D)}], refs[Max(D)])
    <3>1. CASE D = {}
      BY <1>3, <3>1 DEF Iterates
    <3>2. CASE D # {}
      <4>1. Max(D) \in 1..N
        BY <1>0, <3>2, GreatestOf
      <4>2. <<Max(D), it[D \ {Max(D)}]>> \in (1..N) \X V
        BY <4>1, <1>3
      <4>3. it[D] = step[<<Max(D), it[D \ {Max(D)}]>>]
        BY <1>3, <3>2 DEF Iterates
      <4>4. step[<<Max(D), it[D \ {Max(D)}]>>] = Merged(it[D \ {Max(D)}], refs[Max(D)])
        BY <4>2
      <4> QED BY <3>2, <4>3, <4>4
    <3> QED BY <3>1, <3>2
  <2> QED BY <1>0, <1>3, <2>1
<1>5. FoldLeft(Merged, <<>>, refs) = iter[DOMAIN refs]
  BY DEF FoldLeft, MapThenFoldSet
<1> HIDE DEF Eq
<1>6. Eq(iter)
  BY <1>4
<1> HIDE DEF iter
<1>7. iter[{}] = <<>> /\ \A D \in SUBSET (1..N) : D # {} => iter[D] = Merged(iter[D \ {Max(D)}], refs[Max(D)])
  BY <1>0, <1>6 DEF Eq
<1> DEFINE m == [n \in 0..N |-> iter[1..n]]
<1>8. m[0] = <<>>
  BY <1>0, <1>7
<1>9. ASSUME NEW n \in 1..N PROVE m[n] = Merged(m[n - 1], refs[n])
  <2>1. Max(1..n) = n /\ (1..n) \ {n} = 1..(n - 1)
    BY GreatestUpTo
  <2>2. 1..n \in SUBSET (1..N) /\ 1..n # {}
    BY <1>0
  <2>3. m[n] = iter[1..n] /\ m[n - 1] = iter[1..(n - 1)]
    BY <1>0
  <2> QED BY <1>7, <2>1, <2>2, <2>3
<1>10. FoldLeft(Merged, <<>>, refs) = m[Len(refs)]
  BY <1>0, <1>5
<1> HIDE DEF m
<1> QED BY <1>8, <1>9, <1>10

-----------------------------------------------------------------------------
(***************************************************************************)
(* References: a sequence of references as the growing sets of its urls.   *)
(* Each url once, in order and up to a cap, is then an equality of such sets.*)
(***************************************************************************)

\* The urls of the first n references, and the sets of them there are for any n.
Urls(s, n) == {s[i].url : i \in 1..n}
Chain(s) == {Urls(s, n) : n \in 0..Len(s)}
Short(s, c) == {T \in Chain(s) : Cardinality(T) <= c}

\* No url comes twice.
Distinct(s) == \A i, j \in DOMAIN s : s[i].url = s[j].url => i = j

\* One reference adds its url; what is before a place does not depend on the rest.
LEMMA UrlsGrow ==
  ASSUME NEW s
  PROVE  /\ Urls(s, 0) = {}
         /\ \A n \in Nat \ {0} : Urls(s, n) = Urls(s, n - 1) \union {s[n].url}
         /\ \A n \in Nat : \A k \in 0..n : Urls(s, k) \subseteq Urls(s, n)
<1>1. Urls(s, 0) = {}
  BY DEF Urls
<1>2. ASSUME NEW n \in Nat \ {0} PROVE Urls(s, n) = Urls(s, n - 1) \union {s[n].url}
  <2>1. 1..n = (1..(n - 1)) \union {n}
    OBVIOUS
  <2> QED BY <2>1 DEF Urls
<1>3. ASSUME NEW n \in Nat, NEW k \in 0..n PROVE Urls(s, k) \subseteq Urls(s, n)
  BY DEF Urls
<1> QED BY <1>1, <1>2, <1>3

\* The urls before a place are those of any sequence with the same urls there.
LEMMA UrlsAgree ==
  ASSUME NEW s, NEW t, NEW n \in Nat, \A i \in 1..n : s[i].url = t[i].url
  PROVE  \A k \in 0..n : Urls(s, k) = Urls(t, k)
BY DEF Urls

\* They are finitely many.
LEMMA UrlsFinite ==
  ASSUME NEW s, NEW n \in Nat
  PROVE  IsFiniteSet(Urls(s, n)) /\ Cardinality(Urls(s, n)) \in Nat
<1> DEFINE T == {k \in 0..n : IsFiniteSet(Urls(s, k))}
<1>1. 0 \in T
  BY UrlsGrow, FS_EmptySet
<1>2. ASSUME NEW k \in 1..n, k - 1 \in T PROVE k \in T
  <2>1. Urls(s, k) = Urls(s, k - 1) \union {s[k].url}
    BY UrlsGrow
  <2> QED BY <1>2, <2>1, FS_AddElement
<1> HIDE DEF T
<1>3. n \in T
  BY <1>1, <1>2, UpTo
<1>4. IsFiniteSet(Urls(s, n))
  BY <1>3 DEF T
<1> QED BY <1>4, FS_CardinalityType

\* A place adds one to their number or, when its url came before, nothing.
LEMMA UrlsCount ==
  ASSUME NEW s, NEW n \in Nat \ {0}
  PROVE  Cardinality(Urls(s, n)) = Cardinality(Urls(s, n - 1)) + (IF s[n].url \in Urls(s, n - 1) THEN 0 ELSE 1)
<1>1. Urls(s, n) = Urls(s, n - 1) \union {s[n].url}
  BY UrlsGrow
<1>2. IsFiniteSet(Urls(s, n - 1)) /\ Cardinality(Urls(s, n - 1)) \in Nat
  BY UrlsFinite
<1>3. Cardinality(Urls(s, n)) = IF s[n].url \in Urls(s, n - 1) THEN Cardinality(Urls(s, n - 1))
                                ELSE Cardinality(Urls(s, n - 1)) + 1
  BY <1>1, <1>2, FS_AddElement
<1> QED BY <1>2, <1>3

\* Distinct references have as many urls.
LEMMA DistinctCount ==
  ASSUME NEW R, NEW s \in Seq(R), Distinct(s), NEW n \in 0..Len(s)
  PROVE  Cardinality(Urls(s, n)) = n
<1> DEFINE T == {k \in 0..n : Cardinality(Urls(s, k)) = k}
<1>1. 0 \in T
  <2>1. Cardinality(Urls(s, 0)) = 0
    BY UrlsGrow, FS_EmptySet
  <2> QED BY <2>1
<1>2. ASSUME NEW k \in 1..n, k - 1 \in T PROVE k \in T
  <2>1. s[k].url \notin Urls(s, k - 1)
    BY DEF Distinct, Urls
  <2>2. Cardinality(Urls(s, k)) = Cardinality(Urls(s, k - 1)) + (IF s[k].url \in Urls(s, k - 1) THEN 0 ELSE 1)
    BY UrlsCount
  <2> QED BY <1>2, <2>1, <2>2
<1> HIDE DEF T
<1>3. n \in T
  BY SMTT(30), <1>1, <1>2, UpTo
<1> QED BY <1>3 DEF T

\* The first places are counted by their urls.
LEMMA FirstCount ==
  ASSUME NEW R, NEW s \in Seq(R), NEW n \in 0..Len(s)
  PROVE  Cardinality({j \in FirstPlaces(s) : j <= n}) = Cardinality(Urls(s, n))
<1> DEFINE Upto(k) == {j \in FirstPlaces(s) : j <= k}
           T == {k \in 0..n : IsFiniteSet(Upto(k)) /\ Cardinality(Upto(k)) = Cardinality(Urls(s, k))}
<1>0. DOMAIN s = 1..Len(s) /\ Len(s) \in Nat
  OBVIOUS
<1>1. 0 \in T
  <2>1. Upto(0) = {}
    BY <1>0 DEF FirstPlaces
  <2> HIDE DEF Upto
  <2>2. IsFiniteSet(Upto(0)) /\ Cardinality(Upto(0)) = Cardinality(Urls(s, 0))
    BY <2>1, UrlsGrow, FS_EmptySet
  <2> QED BY <2>2
<1>2. ASSUME NEW k \in 1..n, k - 1 \in T PROVE k \in T
  <2>1. k \in FirstPlaces(s) <=> s[k].url \notin Urls(s, k - 1)
    BY <1>0 DEF FirstPlaces, Urls
  <2>2. Cardinality(Urls(s, k)) = Cardinality(Urls(s, k - 1)) + (IF s[k].url \in Urls(s, k - 1) THEN 0 ELSE 1)
    BY UrlsCount
  <2>3. Cardinality(Urls(s, k - 1)) \in Nat
    BY UrlsFinite
  <2>4. CASE k \in FirstPlaces(s)
    <3>1. Upto(k) = Upto(k - 1) \union {k} /\ k \notin Upto(k - 1)
      BY <1>0, <2>4 DEF FirstPlaces
    <3>2. IsFiniteSet(Upto(k - 1)) /\ Cardinality(Upto(k - 1)) = Cardinality(Urls(s, k - 1))
      BY <1>2
    <3> HIDE DEF Upto
    <3>3. IsFiniteSet(Upto(k)) /\ Cardinality(Upto(k)) = Cardinality(Upto(k - 1)) + 1
      BY <3>1, <3>2, FS_AddElement
    <3> QED BY <2>1, <2>2, <2>3, <2>4, <3>2, <3>3
  <2>5. CASE k \notin FirstPlaces(s)
    <3>1. Upto(k) = Upto(k - 1)
      BY <1>0, <2>5 DEF FirstPlaces
    <3>2. IsFiniteSet(Upto(k - 1)) /\ Cardinality(Upto(k - 1)) = Cardinality(Urls(s, k - 1))
      BY <1>2
    <3> HIDE DEF Upto
    <3> QED BY <2>1, <2>2, <2>3, <2>5, <3>1, <3>2
  <2> QED BY <2>4, <2>5
<1> HIDE DEF T
<1>3. n \in T
  BY <1>1, <1>2, UpTo
<1> QED BY <1>3 DEF T

\* What merging one reference does: a url that is known keeps its place, another
\* one comes last.
LEMMA MergedEffect ==
  ASSUME NEW R, NEW s \in Seq(R), NEW r \in R
  PROVE  /\ Merged(s, r) \in Seq(R)
         /\ r.url \in Urls(s, Len(s)) =>
              /\ Len(Merged(s, r)) = Len(s)
              /\ \A i \in 1..Len(s) : Merged(s, r)[i].url = s[i].url
         /\ r.url \notin Urls(s, Len(s)) => Merged(s, r) = Append(s, r)
<1>0. DOMAIN s = 1..Len(s) /\ Len(s) \in Nat
  OBVIOUS
<1>1. CASE \E i \in DOMAIN s : s[i].url = r.url
  <2> DEFINE t == [i \in DOMAIN s |-> IF s[i].url = r.url THEN ChooseBetterReference(s[i], r) ELSE s[i]]
  <2>1. \A i \in DOMAIN s : t[i] \in R /\ t[i].url = s[i].url
    BY DEF ChooseBetterReference
  <2>2. t \in [1..Len(s) -> R]
    BY <1>0, <2>1
  <2>3. Merged(s, r) = t
    BY <1>1 DEF Merged
  <2> HIDE DEF t
  <2>4. t \in Seq(R) /\ Len(t) = Len(s)
    BY <1>0, <2>2
  <2> QED BY <1>0, <1>1, <2>1, <2>3, <2>4 DEF Urls
<1>2. CASE ~ \E i \in DOMAIN s : s[i].url = r.url
  <2>1. Merged(s, r) = Append(s, r)
    BY <1>2 DEF Merged
  <2>2. r.url \notin Urls(s, Len(s))
    BY <1>0, <1>2 DEF Urls
  <2> QED BY <2>1, <2>2
<1> QED BY <1>1, <1>2

-----------------------------------------------------------------------------
(***************************************************************************)
(* References: merging one reference after the other.                      *)
(***************************************************************************)

\* t is what merging the first n of the references gives: each url once, in the
\* order in which they came first.
Stands(t, refs, n) ==
  /\ Distinct(t)
  /\ Urls(t, Len(t)) = Urls(refs, n)
  /\ Chain(t) = {Urls(refs, k) : k \in 0..n}

\* None of them is better than the one that represents it.
Best(t, refs, n) ==
  \A i \in 1..n : \A k \in DOMAIN t :
    t[k].url = refs[i].url => ~Above(Score(refs[i]), Score(t[k]))

\* Merging the next reference keeps each url once and in order.
LEMMA StandsKept ==
  ASSUME NEW R, NEW refs \in Seq(R), NEW n \in 1..Len(refs), NEW t \in Seq(R), Stands(t, refs, n - 1)
  PROVE  Stands(Merged(t, refs[n]), refs, n)
<1> DEFINE r == refs[n]
           u == Merged(t, r)
<1> SUFFICES Stands(u, refs, n)
  OBVIOUS
<1>0. r \in R /\ Len(t) \in Nat /\ DOMAIN t = 1..Len(t) /\ n \in Nat \ {0}
  OBVIOUS
<1>1. /\ u \in Seq(R)
      /\ r.url \in Urls(t, Len(t)) => Len(u) = Len(t) /\ \A i \in 1..Len(t) : u[i].url = t[i].url
      /\ r.url \notin Urls(t, Len(t)) => u = Append(t, r)
  BY <1>0, MergedEffect
<1>2. Urls(refs, n) = Urls(refs, n - 1) \union {r.url}
  BY <1>0, UrlsGrow
<1>3. {Urls(refs, k) : k \in 0..n} = {Urls(refs, k) : k \in 0..(n - 1)} \union {Urls(refs, n)}
  <2>1. 0..n = (0..(n - 1)) \union {n}
    OBVIOUS
  <2> QED BY <2>1
<1> HIDE DEF u
<1>4. CASE r.url \in Urls(t, Len(t))
  <2>1. Len(u) = Len(t) /\ DOMAIN u = 1..Len(t) /\ \A i \in 1..Len(t) : u[i].url = t[i].url
    BY <1>1, <1>4
  <2>2. Distinct(u)
    BY <1>0, <2>1 DEF Distinct, Stands
  <2>3. \A k \in 0..Len(t) : Urls(u, k) = Urls(t, k)
    BY <1>0, <2>1, UrlsAgree
  <2>4. Urls(refs, n) = Urls(refs, n - 1)
    BY <1>2, <1>4 DEF Stands
  <2>5. Chain(u) = Chain(t)
    BY <2>1, <2>3 DEF Chain
  <2>6. {Urls(refs, k) : k \in 0..n} = {Urls(refs, k) : k \in 0..(n - 1)}
    <3>1. n - 1 \in 0..(n - 1)
      BY <1>0
    <3> QED BY <1>3, <2>4, <3>1
  <2>7. Urls(u, Len(u)) = Urls(refs, n)
    BY <1>0, <2>1, <2>3, <2>4 DEF Stands
  <2> QED BY <1>0, <2>2, <2>5, <2>6, <2>7 DEF Stands
<1>5. CASE r.url \notin Urls(t, Len(t))
  <2>1. /\ Len(u) = Len(t) + 1 /\ DOMAIN u = 1..(Len(t) + 1) /\ u[Len(t) + 1] = r
        /\ \A i \in 1..Len(t) : u[i] = t[i]
    BY SMTT(30), <1>0, <1>1, <1>5
  <2>2. Distinct(u)
    <3>1. \A i \in 1..Len(t) : t[i].url # r.url
      BY <1>5 DEF Urls
    <3>2. ASSUME NEW i \in 1..(Len(t) + 1), NEW j \in 1..(Len(t) + 1), u[i].url = u[j].url
          PROVE  i = j
      <4>1. CASE i = Len(t) + 1
        BY <1>0, <2>1, <3>1, <3>2, <4>1
      <4>2. CASE j = Len(t) + 1
        BY <1>0, <2>1, <3>1, <3>2, <4>2
      <4>3. CASE i \in 1..Len(t) /\ j \in 1..Len(t)
        BY <1>0, <2>1, <3>2, <4>3 DEF Distinct, Stands
      <4> QED BY <1>0, <4>1, <4>2, <4>3
    <3> QED BY <2>1, <3>2 DEF Distinct
  <2>3. \A k \in 0..Len(t) : Urls(u, k) = Urls(t, k)
    <3>1. \A i \in 1..Len(t) : u[i].url = t[i].url
      BY <2>1
    <3> QED BY <1>0, <3>1, UrlsAgree
  <2>4. Urls(u, Len(t) + 1) = Urls(u, Len(t)) \union {r.url}
    <3>1. Len(t) + 1 \in Nat \ {0} /\ (Len(t) + 1) - 1 = Len(t)
      BY <1>0
    <3>2. Urls(u, Len(t) + 1) = Urls(u, (Len(t) + 1) - 1) \union {u[Len(t) + 1].url}
      BY <3>1, UrlsGrow
    <3> QED BY <2>1, <3>1, <3>2
  <2>5. Urls(u, Len(u)) = Urls(refs, n)
    <3>1. Urls(u, Len(t)) = Urls(refs, n - 1)
      BY <1>0, <2>3 DEF Stands
    <3> QED BY <1>2, <2>1, <2>4, <3>1
  <2>6. Chain(u) = Chain(t) \union {Urls(u, Len(u))}
    <3>1. 0..Len(u) = (0..Len(t)) \union {Len(u)}
      BY <1>0, <2>1
    <3> QED BY <2>3, <3>1 DEF Chain
  <2>7. Chain(u) = {Urls(refs, k) : k \in 0..n}
    BY <1>3, <2>5, <2>6 DEF Stands
  <2> QED BY <2>2, <2>5, <2>7 DEF Stands
<1> QED BY <1>4, <1>5

\* Scores are compared in order: what does not beat one does not beat a better one.
LEMMA AboveOrders ==
  ASSUME NEW a, NEW b, NEW c, a.text \in Nat, b.text \in Nat, c.text \in Nat,
         ~Above(Score(a), Score(b)), ~Above(Score(b), Score(c))
  PROVE  ~Above(Score(a), Score(c))
<1>1. \A s, t : Above(s, t) <=>
        \/ s[1] > t[1]
        \/ s[2] > t[2] /\ s[1] = t[1]
        \/ s[3] > t[3] /\ s[1] = t[1] /\ s[2] = t[2]
  <2> TAKE s, t
  <2>1. 1..3 = {1, 2, 3} /\ 1..(1 - 1) = {} /\ 1..(2 - 1) = {1} /\ 1..(3 - 1) = {1, 2}
    OBVIOUS
  <2> QED BY <2>1 DEF Above
<1>2. ASSUME NEW r, r.text \in Nat PROVE Score(r)[1] \in {0, 1} /\ Score(r)[2] \in {0, 1} /\ Score(r)[3] \in Nat
  BY <1>2 DEF Score
<1> QED BY <1>1, <1>2

\* A score does not beat itself, nor the one that beats it.
LEMMA AboveStrict ==
  ASSUME NEW a, NEW b, a.text \in Nat, b.text \in Nat
  PROVE  ~Above(Score(a), Score(a)) /\ (Above(Score(a), Score(b)) => ~Above(Score(b), Score(a)))
<1>1. \A s, t : Above(s, t) <=>
        \/ s[1] > t[1]
        \/ s[2] > t[2] /\ s[1] = t[1]
        \/ s[3] > t[3] /\ s[1] = t[1] /\ s[2] = t[2]
  <2> TAKE s, t
  <2>1. 1..3 = {1, 2, 3} /\ 1..(1 - 1) = {} /\ 1..(2 - 1) = {1} /\ 1..(3 - 1) = {1, 2}
    OBVIOUS
  <2> QED BY <2>1 DEF Above
<1>2. ASSUME NEW r, r.text \in Nat PROVE Score(r)[1] \in {0, 1} /\ Score(r)[2] \in {0, 1} /\ Score(r)[3] \in Nat
  BY <1>2 DEF Score
<1> QED BY <1>1, <1>2

\* Merging the next reference keeps the best described one of each url.
LEMMA BestKept ==
  ASSUME NEW R, \A r \in R : r.text \in Nat, NEW refs \in Seq(R), NEW n \in 1..Len(refs),
         NEW t \in Seq(R), Stands(t, refs, n - 1), Best(t, refs, n - 1)
  PROVE  Best(Merged(t, refs[n]), refs, n)
<1> DEFINE r == refs[n]
           u == Merged(t, r)
<1>0. r \in R /\ Len(t) \in Nat /\ DOMAIN t = 1..Len(t) /\ n \in Nat /\ \A i \in 1..n : refs[i] \in R
  OBVIOUS
<1>1. CASE \E i \in DOMAIN t : t[i].url = r.url
  <2>1. u = [i \in DOMAIN t |-> IF t[i].url = r.url THEN ChooseBetterReference(t[i], r) ELSE t[i]]
    BY <1>1 DEF Merged
  <2> SUFFICES ASSUME NEW i \in 1..n, NEW k \in DOMAIN t, u[k].url = refs[i].url
               PROVE  ~Above(Score(refs[i]), Score(u[k]))
    BY <2>1 DEF Best
  <2>2. u[k] = IF t[k].url = r.url THEN ChooseBetterReference(t[k], r) ELSE t[k]
    BY <2>1
  <2>3. t[k].url = refs[i].url
    BY <2>2 DEF ChooseBetterReference
  <2>4. t[k].text \in Nat /\ r.text \in Nat /\ refs[i].text \in Nat
    BY <1>0
  <2>5. i # n => ~Above(Score(refs[i]), Score(t[k]))
    BY <1>0, <2>3 DEF Best
  <2> HIDE DEF u, r
  <2>6. CASE u[k] = t[k]
    <3>1. i = n => ~Above(Score(r), Score(t[k]))
      BY <2>2, <2>3, <2>4, <2>6, AboveStrict DEF ChooseBetterReference, r
    <3> QED BY <2>5, <2>6, <3>1 DEF r
  <2>7. CASE u[k] = r /\ Above(Score(r), Score(t[k]))
    <3>1. ~Above(Score(t[k]), Score(r)) /\ ~Above(Score(r), Score(r))
      BY <2>4, <2>7, AboveStrict
    <3>2. i # n => ~Above(Score(refs[i]), Score(r))
      BY <2>4, <2>5, <3>1, AboveOrders
    <3> QED BY <2>7, <3>1, <3>2 DEF r
  <2> QED BY <2>2, <2>6, <2>7 DEF ChooseBetterReference
<1>2. CASE ~ \E i \in DOMAIN t : t[i].url = r.url
  <2>1. u = Append(t, r)
    BY <1>2 DEF Merged
  <2>2. DOMAIN u = 1..(Len(t) + 1) /\ u[Len(t) + 1] = r /\ \A k \in 1..Len(t) : u[k] = t[k]
    BY <1>0, <2>1
  <2>3. \A i \in 1..(n - 1) : refs[i].url # r.url
    <3>1. r.url \notin Urls(t, Len(t))
      BY <1>0, <1>2 DEF Urls
    <3>2. r.url \notin Urls(refs, n - 1)
      BY <3>1 DEF Stands
    <3> QED BY <3>2 DEF Urls
  <2> SUFFICES ASSUME NEW i \in 1..n, NEW k \in 1..(Len(t) + 1), u[k].url = refs[i].url
               PROVE  ~Above(Score(refs[i]), Score(u[k]))
    BY <2>2 DEF Best
  <2>4. CASE k = Len(t) + 1
    <3>1. i = n
      BY <1>0, <2>2, <2>3, <2>4
    <3>2. ~Above(Score(r), Score(r))
      BY <1>0, AboveStrict
    <3> QED BY <2>2, <2>4, <3>1, <3>2
  <2>5. CASE k \in 1..Len(t)
    <3>1. u[k] = t[k] /\ i # n
      BY <1>0, <1>2, <2>2, <2>5
    <3>2. i \in 1..(n - 1)
      BY <1>0, <3>1
    <3> QED BY <1>0, <2>5, <3>1, <3>2 DEF Best
  <2> QED BY <1>0, <2>4, <2>5
<1> QED BY <1>1, <1>2

\* What is left after merging.
LEMMA FoldStands ==
  ASSUME NEW R, \A r \in R : r.text \in Nat, NEW refs \in Seq(R)
  PROVE  LET f == FoldLeft(Merged, <<>>, refs)
         IN f \in Seq(R) /\ Stands(f, refs, Len(refs)) /\ Best(f, refs, Len(refs))
<1>1. PICK m : /\ m[0] = <<>>
               /\ \A n \in 1..Len(refs) : m[n] = Merged(m[n - 1], refs[n])
               /\ FoldLeft(Merged, <<>>, refs) = m[Len(refs)]
  BY MergedFolds
<1> DEFINE T == {n \in 0..Len(refs) : m[n] \in Seq(R) /\ Stands(m[n], refs, n) /\ Best(m[n], refs, n)}
<1>2. 0 \in T
  <2>1. m[0] \in Seq(R) /\ Len(m[0]) = 0 /\ DOMAIN m[0] = {}
    BY <1>1
  <2>2. Chain(m[0]) = {Urls(refs, k) : k \in 0..0}
    <3>1. Urls(m[0], 0) = {} /\ Urls(refs, 0) = {}
      BY UrlsGrow
    <3>2. 0..0 = {0}
      OBVIOUS
    <3> QED BY <2>1, <3>1, <3>2 DEF Chain
  <2>3. Stands(m[0], refs, 0)
    BY <2>1, <2>2, UrlsGrow DEF Stands, Distinct
  <2>4. Best(m[0], refs, 0)
    BY DEF Best
  <2>5. 0 \in 0..Len(refs)
    OBVIOUS
  <2> QED BY <2>1, <2>3, <2>4, <2>5
<1>3. ASSUME NEW n \in 1..Len(refs), n - 1 \in T PROVE n \in T
  <2>1. m[n - 1] \in Seq(R) /\ Stands(m[n - 1], refs, n - 1) /\ Best(m[n - 1], refs, n - 1)
    BY <1>3
  <2>2. m[n] = Merged(m[n - 1], refs[n]) /\ refs[n] \in R
    BY <1>1
  <2>3. m[n] \in Seq(R)
    BY <2>1, <2>2, MergedEffect
  <2>4. Stands(m[n], refs, n) /\ Best(m[n], refs, n)
    BY <2>1, <2>2, StandsKept, BestKept
  <2>5. n \in 0..Len(refs)
    OBVIOUS
  <2> QED BY <2>3, <2>4, <2>5
<1> HIDE DEF T
<1>4. Len(refs) \in T
  <2>1. Len(refs) \in Nat
    OBVIOUS
  <2>2. \A n \in 1..Len(refs) : n - 1 \in T => n \in T
    BY <1>3
  <2>3. 0..Len(refs) \subseteq T
    BY <1>2, <2>1, <2>2, UpTo
  <2> QED BY <2>1, <2>3
<1> QED BY <1>1, <1>4 DEF T

\* DedupeReferences: each url once, up to the cap in the order in which they came
\* first, the best described one for each.
LEMMA DedupeRight ==
  ASSUME NEW R, \A r \in R : r.text \in Nat, NEW refs \in Seq(R), NEW cap \in Nat
  PROVE  LET d == DedupeReferences(refs, cap)
         IN /\ d \in Seq(R) /\ Len(d) <= cap /\ Distinct(d)
            /\ Chain(d) = Short(refs, cap)
            /\ Len(d) < cap => Urls(d, Len(d)) = Urls(refs, Len(refs))
            /\ Best(d, refs, Len(refs))
<1> DEFINE f == FoldLeft(Merged, <<>>, refs)
           l == IF Len(f) < cap THEN Len(f) ELSE cap
           d == SubSeq(f, 1, l)
<1>1. f \in Seq(R) /\ Stands(f, refs, Len(refs)) /\ Best(f, refs, Len(refs))
  BY FoldStands
<1>2. DedupeReferences(refs, cap) = d
  BY DEF DedupeReferences, FirstOf
<1> HIDE DEF f
<1>3. Len(f) \in Nat /\ l \in 0..Len(f) /\ l <= cap /\ DOMAIN f = 1..Len(f)
  BY <1>1
<1>4. d \in Seq(R) /\ Len(d) = l /\ DOMAIN d = 1..l /\ \A i \in 1..l : d[i] = f[i]
  BY <1>1, <1>3
<1> HIDE DEF d
<1>5. Distinct(d)
  BY <1>1, <1>3, <1>4 DEF Stands, Distinct
<1>6. \A k \in 0..l : Urls(d, k) = Urls(f, k)
  <2>1. \A i \in 1..l : d[i].url = f[i].url
    BY <1>4
  <2> QED BY <1>3, <2>1, UrlsAgree
<1>7. Chain(d) = Short(refs, cap)
  <2>1. \A k \in 0..Len(f) : Cardinality(Urls(f, k)) = k
    BY <1>1, DistinctCount DEF Stands
  <2>2. Chain(f) = Chain(refs)
    BY <1>1 DEF Stands, Chain
  <2>3. Short(refs, cap) = {Urls(f, k) : k \in 0..l}
    <3>1. ASSUME NEW k \in 0..l PROVE Urls(f, k) \in Short(refs, cap)
      <4>1. k \in 0..Len(f) /\ k <= cap
        BY <1>3
      <4>2. Urls(f, k) \in Chain(refs) /\ Cardinality(Urls(f, k)) = k
        BY <2>1, <2>2, <4>1 DEF Chain
      <4> QED BY <4>1, <4>2 DEF Short
    <3>2. ASSUME NEW S \in Short(refs, cap) PROVE S \in {Urls(f, k) : k \in 0..l}
      <4>1. PICK k \in 0..Len(f) : S = Urls(f, k)
        BY <2>2 DEF Short, Chain
      <4>2. k <= cap
        BY <2>1, <4>1 DEF Short
      <4> QED BY <1>3, <4>1, <4>2
    <3> QED BY <3>1, <3>2
  <2> QED BY <1>4, <1>6, <2>3 DEF Chain
<1>8. Len(d) < cap => Urls(d, Len(d)) = Urls(refs, Len(refs))
  BY <1>1, <1>3, <1>4, <1>6 DEF Stands
<1>9. Best(d, refs, Len(refs))
  BY <1>1, <1>3, <1>4 DEF Best
<1> QED BY <1>2, <1>3, <1>4, <1>5, <1>7, <1>8, <1>9

-----------------------------------------------------------------------------
(***************************************************************************)
(* References: pages, one after the other.                                 *)
(***************************************************************************)

\* What is kept of a sequence is a sequence of what may be kept.
LEMMA AmongTyped ==
  ASSUME NEW S, NEW s \in Seq(S), NEW I, NEW T, \A i \in I \cap DOMAIN s : s[i] \in T
  PROVE  Among(s, I) \in Seq(T)
<1> DEFINE N == Len(s)
           V == Seq(T)
           q == [i \in DOMAIN s |-> i]
           step == [p \in (1..N) \X V |-> IF p[1] \in I THEN Append(p[2], s[p[1]]) ELSE p[2]]
           Eq(g) == g = [D \in SUBSET DOMAIN q |->
                           IF D = {} THEN <<>>
                           ELSE LET x == Max(D)
                                IN IF q[x] \in I THEN Append(g[D \ {x}], s[q[x]]) ELSE g[D \ {x}]]
           iter == CHOOSE g : Eq(g)
<1>0. N \in Nat /\ DOMAIN s = 1..N /\ <<>> \in V /\ DOMAIN q = 1..N /\ \A n \in 1..N : q[n] = n
  OBVIOUS
<1>1. Among(s, I) = iter[DOMAIN q]
  BY DEF Among, FoldLeftDomain, FoldLeft, MapThenFoldSet
<1> HIDE DEF q
<1>2. step \in [(1..N) \X V -> V]
  <2>1. ASSUME NEW p \in (1..N) \X V PROVE (IF p[1] \in I THEN Append(p[2], s[p[1]]) ELSE p[2]) \in V
    BY <1>0
  <2> QED BY <2>1
<1>3. PICK it \in [SUBSET (1..N) -> V] : Iterates(it, N, <<>>, step)
  <2> HIDE DEF V, N, step
  <2> QED BY <1>0, <1>2, IterationExists
<1>4. Eq(it)
  <2>1. ASSUME NEW D \in SUBSET (1..N)
        PROVE  it[D] = IF D = {} THEN <<>>
                       ELSE LET x == Max(D)
                            IN IF q[x] \in I THEN Append(it[D \ {x}], s[q[x]]) ELSE it[D \ {x}]
    <3>1. CASE D = {}
      BY <1>3, <3>1 DEF Iterates
    <3>2. CASE D # {}
      <4>1. Max(D) \in 1..N
        BY <1>0, <3>2, GreatestOf
      <4>2. <<Max(D), it[D \ {Max(D)}]>> \in (1..N) \X V
        BY <4>1, <1>3
      <4>3. it[D] = step[<<Max(D), it[D \ {Max(D)}]>>]
        BY <1>3, <3>2 DEF Iterates
      <4>4. step[<<Max(D), it[D \ {Max(D)}]>>] =
              IF Max(D) \in I THEN Append(it[D \ {Max(D)}], s[Max(D)]) ELSE it[D \ {Max(D)}]
        BY <4>2
      <4> QED BY <1>0, <3>2, <4>1, <4>3, <4>4
    <3> QED BY <3>1, <3>2
  <2> QED BY <1>0, <1>3, <2>1
<1> HIDE DEF Eq
<1>6. Eq(iter)
  BY <1>4
<1> HIDE DEF iter
<1>10. \A D \in SUBSET (1..N) : D # {} =>
        iter[D] = IF q[Max(D)] \in I THEN Append(iter[D \ {Max(D)}], s[q[Max(D)]]) ELSE iter[D \ {Max(D)}]
  BY <1>0, <1>6 DEF Eq
<1> DEFINE U == {n \in 0..N : iter[1..n] \in V}
<1>7. 0 \in U
  <2>1. iter[{}] = <<>> /\ 1..0 = {} /\ 0 \in 0..N
    BY <1>0, <1>6 DEF Eq
  <2> QED BY <1>0, <2>1
<1>8. ASSUME NEW n \in 1..N, n - 1 \in U PROVE n \in U
  <2>1. Max(1..n) = n /\ (1..n) \ {n} = 1..(n - 1)
    BY GreatestUpTo
  <2>2. 1..n \in SUBSET (1..N) /\ 1..n # {}
    BY <1>0
  <2>3. iter[1..n] = IF n \in I THEN Append(iter[1..(n - 1)], s[n]) ELSE iter[1..(n - 1)]
    <3>1. q[n] = n
      BY <1>0
    <3> QED BY <1>10, <2>1, <2>2, <3>1
  <2>4. iter[1..(n - 1)] \in V /\ n \in 0..N
    BY <1>0, <1>8
  <2>5. n \in I => s[n] \in T
    BY <1>0
  <2>6. iter[1..n] \in V
    BY <2>3, <2>4, <2>5
  <2> QED BY <2>4, <2>6
<1> HIDE DEF U
<1>9. N \in U
  <2>1. \A n \in 1..N : n - 1 \in U => n \in U
    BY <1>8
  <2>2. 0..N \subseteq U
    BY <1>0, <1>7, <2>1, UpTo
  <2> QED BY <1>0, <2>2
<1> QED BY <1>0, <1>1, <1>9 DEF U

\* FlattenSeq appends one sequence after the other.
LEMMA FlattenUnrolled ==
  ASSUME NEW R, NEW seqs \in Seq(Seq(R)), seqs # <<>>
  PROVE  \E f : /\ f[1] = seqs[1]
                /\ \A n \in 2..Len(seqs) : f[n] = f[n - 1] \o seqs[n]
                /\ FlattenSeq(seqs) = f[Len(seqs)]
<1> DEFINE N == Len(seqs)
           V == Seq(R)
           step == [p \in (1..N) \X V |-> p[2] \o seqs[p[1]]]
           Eq(g) == g = [i \in 1..Len(seqs) |-> IF i = 1 THEN seqs[i] ELSE g[i - 1] \o seqs[i]]
           flatten == CHOOSE g : Eq(g)
<1>0. N \in Nat \ {0} /\ <<>> \in V /\ \A n \in 1..N : seqs[n] \in V
  OBVIOUS
<1>1. FlattenSeq(seqs) = flatten[N]
  BY <1>0 DEF FlattenSeq
<1>2. step \in [(1..N) \X V -> V]
  <2>1. \A p \in (1..N) \X V : p[2] \o seqs[p[1]] \in V
    BY <1>0
  <2> QED BY <2>1
<1>3. PICK it \in [SUBSET (1..N) -> V] : Iterates(it, N, <<>>, step)
  <2> HIDE DEF V, N, step
  <2> QED BY <1>0, <1>2, IterationExists
<1> DEFINE g == [i \in 1..N |-> it[1..i]]
<1>4. ASSUME NEW i \in 1..N PROVE g[i] = it[1..(i - 1)] \o seqs[i]
  <2>1. Max(1..i) = i /\ (1..i) \ {i} = 1..(i - 1)
    BY GreatestUpTo
  <2>2. 1..i \in SUBSET (1..N) /\ 1..i # {} /\ 1..(i - 1) \in SUBSET (1..N)
    <3> HIDE DEF g, N
    <3>1. i \in Nat /\ 1 <= i /\ i <= N /\ N \in Nat
      BY <1>0
    <3>2. 1..i \subseteq 1..N /\ 1..(i - 1) \subseteq 1..N
      BY <3>1
    <3>3. i \in 1..i
      BY <3>1
    <3> QED BY <3>2, <3>3
  <2>3. it[1..i] = step[<<i, it[1..(i - 1)]>>]
    <3> HIDE DEF g, N, V, step
    <3> QED BY ZenonT(60), <1>3, <2>1, <2>2 DEF Iterates
  <2>4. it[1..(i - 1)] \in V
    BY <1>3, <2>2
  <2> QED BY <2>3, <2>4
<1>5. Eq(g)
  <2>1. it[1..0] = <<>>
    <3>1. 1..0 = {} /\ {} \in SUBSET (1..N)
      OBVIOUS
    <3> QED BY <1>3, <3>1 DEF Iterates
  <2>2. ASSUME NEW i \in 1..N PROVE g[i] = IF i = 1 THEN seqs[i] ELSE g[i - 1] \o seqs[i]
    <3>1. CASE i = 1
      <4>1. g[i] = <<>> \o seqs[1]
        <5> HIDE DEF g
        <5>1. g[i] = it[1..(i - 1)] \o seqs[i]
          BY <1>4
        <5>2. i - 1 = 0
          BY <3>1
        <5> QED BY <2>1, <3>1, <5>1, <5>2
      <4> HIDE DEF g
      <4> QED BY <1>0, <3>1, <4>1
    <3>2. CASE i # 1
      <4>1. g[i - 1] = it[1..(i - 1)]
        BY <3>2
      <4> HIDE DEF g
      <4> QED BY <1>4, <3>2, <4>1
    <3> QED BY <3>1, <3>2
  <2> QED BY <2>2
<1> HIDE DEF Eq
<1>6. Eq(flatten)
  BY <1>5
<1> HIDE DEF flatten
<1>7. flatten[1] = seqs[1] /\ \A n \in 2..N : flatten[n] = flatten[n - 1] \o seqs[n]
  <2>1. \A i \in 1..N : flatten[i] = IF i = 1 THEN seqs[i] ELSE flatten[i - 1] \o seqs[i]
    BY <1>6 DEF Eq
  <2>2. 1 \in 1..N /\ \A n \in 2..N : n \in 1..N /\ n # 1
    BY <1>0
  <2> HIDE DEF N
  <2> QED BY <2>1, <2>2
<1> QED BY <1>1, <1>7

\* The urls of a sequence behind another one come on top of all of the first.
LEMMA ChainConcat ==
  ASSUME NEW R, NEW s \in Seq(R), NEW t \in Seq(R)
  PROVE  /\ Urls(s \o t, Len(s \o t)) = Urls(s, Len(s)) \union Urls(t, Len(t))
         /\ Chain(s \o t) = Chain(s) \union {Urls(s, Len(s)) \union T : T \in Chain(t)}
<1> DEFINE u == s \o t
           S == Urls(s, Len(s))
<1>0. Len(s) \in Nat /\ Len(t) \in Nat
  OBVIOUS
<1>1. /\ u \in Seq(R) /\ Len(u) = Len(s) + Len(t)
      /\ \A i \in 1..Len(s) : u[i] = s[i]
      /\ \A i \in 1..Len(t) : u[Len(s) + i] = t[i]
  OBVIOUS
<1> HIDE DEF u
<1>2. \A k \in 0..Len(s) : Urls(u, k) = Urls(s, k)
  <2>1. \A i \in 1..Len(s) : u[i].url = s[i].url
    BY <1>1
  <2> QED BY <1>0, <2>1, UrlsAgree
<1>3. ASSUME NEW k \in 0..Len(t) PROVE Urls(u, Len(s) + k) = S \union Urls(t, k)
  <2>1. Urls(u, Len(s) + k) = {u[i].url : i \in 1..Len(s)} \union {u[Len(s) + i].url : i \in 1..k}
    <3>1. \A i \in 1..(Len(s) + k) : i \in 1..Len(s) \/ (i - Len(s) \in 1..k /\ i = Len(s) + (i - Len(s)))
      BY <1>0
    <3>2. 1..Len(s) \subseteq 1..(Len(s) + k) /\ \A i \in 1..k : Len(s) + i \in 1..(Len(s) + k)
      BY <1>0
    <3> QED BY <3>1, <3>2 DEF Urls
  <2>2. {u[i].url : i \in 1..Len(s)} = S
    BY <1>1 DEF Urls
  <2>3. {u[Len(s) + i].url : i \in 1..k} = Urls(t, k)
    <3>1. \A i \in 1..k : u[Len(s) + i].url = t[i].url
      BY <1>0, <1>1
    <3> QED BY <3>1 DEF Urls
  <2> QED BY <2>1, <2>2, <2>3
<1>4. Urls(u, Len(u)) = S \union Urls(t, Len(t))
  BY <1>0, <1>1, <1>3
<1>5. Chain(u) = Chain(s) \union {S \union T : T \in Chain(t)}
  <2>1. ASSUME NEW k \in 0..Len(u) PROVE Urls(u, k) \in Chain(s) \union {S \union T : T \in Chain(t)}
    <3>1. CASE k \in 0..Len(s)
      BY <1>2, <3>1 DEF Chain
    <3>2. CASE k \notin 0..Len(s)
      <4>1. k - Len(s) \in 0..Len(t) /\ k = Len(s) + (k - Len(s))
        BY <1>0, <1>1, <3>2
      <4>2. Urls(u, k) = S \union Urls(t, k - Len(s))
        BY <1>3, <4>1
      <4> QED BY <4>1, <4>2 DEF Chain
    <3> QED BY <3>1, <3>2
  <2>2. ASSUME NEW k \in 0..Len(s) PROVE Urls(s, k) \in Chain(u)
    BY <1>0, <1>1, <1>2 DEF Chain
  <2>3. ASSUME NEW k \in 0..Len(t) PROVE S \union Urls(t, k) \in Chain(u)
    <3>1. Len(s) + k \in 0..Len(u)
      BY <1>0, <1>1
    <3> QED BY <1>3, <3>1 DEF Chain
  <2> HIDE DEF S
  <2>4. Chain(u) \subseteq Chain(s) \union {S \union T : T \in Chain(t)}
    BY <2>1 DEF Chain
  <2>5. Chain(s) \subseteq Chain(u)
    BY <2>2 DEF Chain
  <2>6. {S \union T : T \in Chain(t)} \subseteq Chain(u)
    BY <2>3 DEF Chain
  <2> QED BY <2>4, <2>5, <2>6
<1> QED BY <1>4, <1>5 DEF u

\* What is in a chain is finite, and part of the whole.
LEMMA ChainMember ==
  ASSUME NEW R, NEW s \in Seq(R)
  PROVE  /\ Urls(s, Len(s)) \in Chain(s)
         /\ \A T \in Chain(s) : IsFiniteSet(T) /\ Cardinality(T) \in Nat /\ T \subseteq Urls(s, Len(s))
<1>1. Len(s) \in Nat
  OBVIOUS
<1>2. ASSUME NEW k \in 0..Len(s)
      PROVE  IsFiniteSet(Urls(s, k)) /\ Cardinality(Urls(s, k)) \in Nat /\ Urls(s, k) \subseteq Urls(s, Len(s))
  <2>1. k \in Nat
    OBVIOUS
  <2> QED BY <1>1, <2>1, UrlsFinite, UrlsGrow
<1> QED BY <1>1, <1>2 DEF Chain

\* A chain grows one by one.
LEMMA ChainPasses ==
  ASSUME NEW R, NEW s \in Seq(R), NEW c \in Nat, Cardinality(Urls(s, Len(s))) >= c
  PROVE  \E T \in Chain(s) : Cardinality(T) = c
<1> DEFINE N == {n \in 0..Len(s) : Cardinality(Urls(s, n)) >= c}
<1>0. Len(s) \in Nat
  OBVIOUS
<1>1. N \in SUBSET Nat /\ N # {}
  BY <1>0
<1> HIDE DEF N
<1>2. PICK n \in N : \A k \in N : n <= k
  BY <1>1, LeastOf
<1>3. n \in 0..Len(s) /\ Cardinality(Urls(s, n)) >= c /\ (n # 0 => n - 1 \notin N)
  BY <1>0, <1>2 DEF N
<1>4. CASE n = 0
  <2>1. Cardinality(Urls(s, 0)) = 0
    BY UrlsGrow, FS_EmptySet
  <2>2. c = 0
    BY <1>3, <1>4, <2>1
  <2> QED BY <1>3, <1>4, <2>1, <2>2 DEF Chain
<1>5. CASE n # 0
  <2>1. n \in Nat \ {0} /\ n - 1 \in 0..Len(s) /\ n - 1 \in Nat
    BY <1>0, <1>3, <1>5
  <2>2. Cardinality(Urls(s, n - 1)) \in Nat
    BY <2>1, UrlsFinite
  <2>3. Cardinality(Urls(s, n)) = Cardinality(Urls(s, n - 1)) + (IF s[n].url \in Urls(s, n - 1) THEN 0 ELSE 1)
    BY <2>1, UrlsCount
  <2>4. ~ (Cardinality(Urls(s, n - 1)) >= c)
    BY <1>3, <1>5, <2>1 DEF N
  <2>5. Cardinality(Urls(s, n)) = c
    BY <1>3, <2>2, <2>3, <2>4
  <2> QED BY <1>3, <2>5 DEF Chain
<1> QED BY <1>4, <1>5

\* Cutting a page at the cap before it is put behind the others changes nothing up
\* to the cap.
LEMMA ShortConcat ==
  ASSUME NEW R, NEW a \in Seq(R), NEW b \in Seq(R), NEW x \in Seq(R), NEW y \in Seq(R), NEW c \in Nat,
         Short(a, c) = Short(b, c), Urls(b, Len(b)) \subseteq Urls(a, Len(a)), Chain(y) = Short(x, c)
  PROVE  /\ Short(a \o x, c) = Short(b \o y, c)
         /\ Urls(b \o y, Len(b \o y)) \subseteq Urls(a \o x, Len(a \o x))
<1> DEFINE A == Urls(a, Len(a))
           B == Urls(b, Len(b))
<1>1. /\ Urls(a \o x, Len(a \o x)) = A \union Urls(x, Len(x))
      /\ Chain(a \o x) = Chain(a) \union {A \union T : T \in Chain(x)}
  BY ChainConcat
<1>2. /\ Urls(b \o y, Len(b \o y)) = B \union Urls(y, Len(y))
      /\ Chain(b \o y) = Chain(b) \union {B \union T : T \in Chain(y)}
  BY ChainConcat
<1>3. /\ A \in Chain(a) /\ \A T \in Chain(a) : IsFiniteSet(T) /\ Cardinality(T) \in Nat /\ T \subseteq A
      /\ B \in Chain(b) /\ \A T \in Chain(b) : IsFiniteSet(T) /\ Cardinality(T) \in Nat /\ T \subseteq B
  BY ChainMember
<1>4. /\ \A T \in Chain(x) : IsFiniteSet(T) /\ Cardinality(T) \in Nat /\ T \subseteq Urls(x, Len(x))
      /\ Urls(y, Len(y)) \in Chain(y)
  BY ChainMember
<1>5. Urls(y, Len(y)) \subseteq Urls(x, Len(x)) /\ Chain(y) \subseteq Chain(x)
  BY <1>4 DEF Short
<1> HIDE DEF A, B
<1>6. Urls(b \o y, Len(b \o y)) \subseteq Urls(a \o x, Len(a \o x))
  BY <1>1, <1>2, <1>5 DEF A, B
<1>7. \A S, T : IsFiniteSet(S) /\ IsFiniteSet(T) => IsFiniteSet(S \union T) /\ Cardinality(S \union T) \in Nat
  BY FS_Union, FS_CardinalityType
<1>8. \A S, T : IsFiniteSet(T) /\ S \subseteq T =>
         Cardinality(S) <= Cardinality(T) /\ (Cardinality(S) = Cardinality(T) => S = T)
  BY FS_Subset
<1>9. CASE Cardinality(A) <= c
  <2>1. A \in Short(b, c)
    BY <1>3, <1>9 DEF Short
  <2>2. A = B
    BY <1>3, <2>1 DEF Short, A, B
  <2>3. ASSUME NEW T \in Chain(x), Cardinality(A \union T) <= c PROVE T \in Chain(y)
    <3>1. Cardinality(T) <= Cardinality(A \union T) /\ Cardinality(T) \in Nat /\ Cardinality(A \union T) \in Nat
      BY <1>3, <1>4, <1>7, <1>8
    <3>2. Cardinality(T) <= c
      BY <2>3, <3>1
    <3> QED BY <3>2 DEF Short
  <2> QED BY <1>1, <1>2, <1>5, <1>6, <2>2, <2>3 DEF Short
<1>10. CASE ~ (Cardinality(A) <= c)
  <2>1. PICK T \in Chain(a) : Cardinality(T) = c
    <3>1. Cardinality(A) \in Nat
      BY <1>3
    <3>2. Cardinality(A) >= c
      BY <1>10, <3>1
    <3> QED BY <3>2, ChainPasses DEF A
  <2>2. T \in Chain(b) /\ T \subseteq B
    BY <1>3, <2>1 DEF Short
  <2>3. Cardinality(B) >= c /\ Cardinality(B) \in Nat
    BY <1>3, <1>8, <2>1, <2>2
  <2>4. ASSUME NEW U \in Chain(x) PROVE ~ (Cardinality(A \union U) <= c)
    <3>1. Cardinality(A) <= Cardinality(A \union U) /\ Cardinality(A) \in Nat /\ Cardinality(A \union U) \in Nat
      BY <1>3, <1>4, <1>7, <1>8
    <3> QED BY <1>10, <3>1
  <2>5. ASSUME NEW U \in Chain(y), Cardinality(B \union U) <= c PROVE B \union U \in Chain(b)
    <3>1. IsFiniteSet(B \union U) /\ Cardinality(B \union U) \in Nat
      BY <1>3, <1>4, <1>5, <1>7
    <3>2. Cardinality(B) <= Cardinality(B \union U) /\ (Cardinality(B) = Cardinality(B \union U) => B = B \union U)
      BY <1>8, <3>1
    <3>3. Cardinality(B) = Cardinality(B \union U)
      BY <2>3, <2>5, <3>1, <3>2
    <3> QED BY <1>3, <3>2, <3>3
  <2>6. Short(a \o x, c) = Short(a, c)
    BY <1>1, <2>4 DEF Short
  <2>7. Short(b \o y, c) = Short(b, c)
    BY <1>2, <2>5 DEF Short
  <2> QED BY <1>6, <2>6, <2>7
<1> QED BY <1>9, <1>10

-----------------------------------------------------------------------------
(***************************************************************************)
(* References: the three answers.                                          *)
(***************************************************************************)

\* What a link of a section can become.
Reference(sec) == {NormalizeReference(a, sec) : a \in Anchor} \ {Dropped}

\* ... and a permalink that a response carried.
Post(c) == [kind |-> "feed_post", url |-> PostUrl(c), text |-> 0, context |-> "feed"]

\* The text of a reference is the length of one of its labels, or nothing.
LEMMA ReferenceTyped ==
  ASSUME NEW sec, NEW r \in Reference(sec)
  PROVE  r.text \in Nat
<1>1. PICK a \in Anchor : r = NormalizeReference(a, sec) /\ r # Dropped
  BY DEF Reference
<1> DEFINE kind == ClassifyLink(a)
           text == IF kind = "company_urn" THEN 0 ELSE ReferenceText(a, kind)
<1>2. r.text = text
  BY <1>1 DEF NormalizeReference
<1>3. ReferenceText(a, kind) \in Nat
  <2> HIDE DEF kind
  <2> DEFINE good == {CleanLabel(l, kind) : l \in a.labels} \ {0}
             best == IF good \subseteq {2} THEN good ELSE good \ {2}
  <2>1. a.labels \in SUBSET [whole : Nat, head : Nat]
    BY ReferencesAssumption
  <2>2. \A l \in a.labels : CleanLabel(l, kind) \in Nat
    BY <2>1 DEF CleanLabel
  <2>3. good \in SUBSET Nat
    BY <2>2
  <2> HIDE DEF good
  <2>4. good # {} => best # {} /\ best \in SUBSET Nat
    BY <2>3
  <2>5. ReferenceText(a, kind) = IF good = {} THEN 0 ELSE CHOOSE n \in best : \A k \in best : n <= k
    BY DEF ReferenceText, good
  <2> HIDE DEF best
  <2>6. CASE good # {}
    <3>1. \E n \in best : \A k \in best : n <= k
      BY <2>4, <2>6, LeastOf
    <3> QED BY <2>4, <2>5, <2>6, <3>1
  <2> QED BY <2>5, <2>6
<1> QED BY <1>2, <1>3

\* The first of a sequence are of its elements.
LEMMA FirstOfTyped ==
  ASSUME NEW S, NEW s \in Seq(S), NEW n \in Nat
  PROVE  FirstOf(s, n) \in Seq(S)
<1> DEFINE l == IF Len(s) < n THEN Len(s) ELSE n
<1>1. l \in 0..Len(s)
  OBVIOUS
<1>2. FirstOf(s, n) = SubSeq(s, 1, l)
  BY DEF FirstOf
<1> HIDE DEF l
<1> QED BY <1>1, <1>2

\* What the reader gets of a page.
Page == [main : BOOLEAN, links : Seq(Anchor)]

\* The links of a page become references, or are dropped.
LEMMA NormalizedTyped ==
  ASSUME NEW page \in Page, NEW sec
  PROVE  Normalized(page, sec) \in Seq(Reference(sec))
<1> DEFINE inside == Among(page.links, {i \in DOMAIN page.links : page.main => page.links[i].main})
           first == FirstOf(inside, MaxAnchors)
           raw == Among(first, {i \in DOMAIN first : first[i].place # ""})
           refs == [i \in DOMAIN raw |-> NormalizeReference(raw[i], sec)]
           kept == {i \in DOMAIN refs : refs[i] # Dropped}
<1>1. Normalized(page, sec) = Among(refs, kept)
  BY DEF Normalized, RootContent
<1>2. page.links \in Seq(Anchor) /\ \A i \in DOMAIN page.links : page.links[i] \in Anchor
  BY DEF Page
<1>3. inside \in Seq(Anchor)
  <2> DEFINE I == {i \in DOMAIN page.links : page.main => page.links[i].main}
  <2>1. \A i \in I \cap DOMAIN page.links : page.links[i] \in Anchor
    BY <1>2
  <2> HIDE DEF I
  <2>2. Among(page.links, I) \in Seq(Anchor)
    BY <1>2, <2>1, AmongTyped
  <2> QED BY <2>2 DEF I
<1> HIDE DEF inside
<1>4. first \in Seq(Anchor)
  BY <1>3, ReferencesAssumption, FirstOfTyped
<1> HIDE DEF first
<1>5. raw \in Seq(Anchor)
  <2> DEFINE I == {i \in DOMAIN first : first[i].place # ""}
  <2>1. \A i \in I \cap DOMAIN first : first[i] \in Anchor
    <3> HIDE DEF I
    <3>1. \A i \in DOMAIN first : first[i] \in Anchor
      BY <1>4
    <3> QED BY <3>1
  <2> HIDE DEF I
  <2>2. Among(first, I) \in Seq(Anchor)
    BY <1>4, <2>1, AmongTyped
  <2> QED BY <2>2 DEF I
<1> HIDE DEF raw
<1> DEFINE N == {NormalizeReference(a, sec) : a \in Anchor}
<1>6. refs \in Seq(N) /\ \A i \in kept \cap DOMAIN refs : refs[i] \in Reference(sec)
  <2>1. \A i \in DOMAIN raw : raw[i] \in Anchor
    BY <1>5
  <2>2. \A i \in DOMAIN raw : NormalizeReference(raw[i], sec) \in N
    BY <2>1
  <2>3. DOMAIN raw = 1..Len(raw) /\ Len(raw) \in Nat
    BY <1>5
  <2>4. refs \in [1..Len(raw) -> N]
    BY <2>2, <2>3
  <2>5. refs \in Seq(N)
    <3> HIDE DEF refs, N
    <3> QED BY <2>3, <2>4
  <2>6. \A i \in kept : refs[i] \in Reference(sec)
    BY <2>2 DEF Reference
  <2> QED BY <2>5, <2>6
<1> HIDE DEF refs, kept, N
<1>7. Among(refs, kept) \in Seq(Reference(sec))
  BY <1>6, AmongTyped
<1> QED BY <1>1, <1>7

\* build_references: each url of the page once, up to the cap, the best described
\* link for each.
LEMMA BuildRight ==
  ASSUME NEW page \in Page, NEW sec \in DOMAIN Caps
  PROVE  LET d == BuildReferences(page, sec)
             all == Normalized(page, sec)
         IN /\ all \in Seq(Reference(sec)) /\ d \in Seq(Reference(sec)) /\ Len(d) <= Caps[sec]
            /\ Chain(d) = Short(all, Caps[sec])
            /\ Best(d, all, Len(all))
<1>1. Normalized(page, sec) \in Seq(Reference(sec)) /\ Caps[sec] \in Nat
  BY NormalizedTyped, ReferencesAssumption
<1>2. \A r \in Reference(sec) : r.text \in Nat
  BY ReferenceTyped
<1> QED BY <1>1, <1>2, DedupeRight DEF BuildReferences

\* Folding by Named keeps what is there and adds the posts that are not.
LEMMA NamedFolds ==
  ASSUME NEW Q, NEW posts \in Seq(Q), NEW named \in Seq(Permalink), \A c \in Permalink : Post(c) \in Q
  PROVE  LET f == FoldLeft(Named, posts, named)
         IN /\ f \in Seq(Q)
            /\ \A i \in DOMAIN named : named[i].post => PostUrl(named[i]) \in Urls(f, Len(f))
<1> DEFINE N == Len(named)
           V == Seq(Q)
           step == [p \in (1..N) \X V |-> Named(p[2], named[p[1]])]
           Eq(g) == g = [D \in SUBSET DOMAIN named |->
                           IF D = {} THEN posts
                           ELSE LET x == Max(D) IN Named(g[D \ {x}], named[x])]
           iter == CHOOSE g : Eq(g)
<1>0. N \in Nat /\ DOMAIN named = 1..N /\ posts \in V /\ \A n \in 1..N : named[n] \in Permalink
  OBVIOUS
<1>1. ASSUME NEW s \in V, NEW c \in Permalink
      PROVE  /\ Named(s, c) \in V
             /\ Urls(s, Len(s)) \subseteq Urls(Named(s, c), Len(Named(s, c)))
             /\ c.post => PostUrl(c) \in Urls(Named(s, c), Len(Named(s, c)))
  <2>0. Len(s) \in Nat /\ DOMAIN s = 1..Len(s)
    OBVIOUS
  <2>1. CASE ~c.post \/ \E i \in DOMAIN s : s[i].url = PostUrl(c)
    <3>1. Named(s, c) = s
      BY <2>1 DEF Named
    <3> QED BY <2>0, <2>1, <3>1 DEF Urls
  <2>2. CASE ~ (~c.post \/ \E i \in DOMAIN s : s[i].url = PostUrl(c))
    <3>1. Named(s, c) = Append(s, Post(c)) /\ Post(c) \in Q /\ Post(c).url = PostUrl(c)
      BY <2>2 DEF Named, Post
    <3> DEFINE u == Append(s, Post(c))
    <3>2. /\ u \in V /\ Len(u) = Len(s) + 1 /\ u[Len(u)] = Post(c)
          /\ \A i \in 1..Len(s) : u[i] = s[i]
      BY <2>0, <3>1
    <3> HIDE DEF u
    <3>3. 1..Len(s) \subseteq 1..Len(u) /\ Len(u) \in 1..Len(u)
      BY <2>0, <3>2
    <3>4. Urls(s, Len(s)) \subseteq Urls(u, Len(u)) /\ PostUrl(c) \in Urls(u, Len(u))
      BY <3>1, <3>2, <3>3 DEF Urls
    <3> QED BY <3>1, <3>2, <3>4 DEF u
  <2> QED BY <2>1, <2>2
<1>2. step \in [(1..N) \X V -> V]
  <2>1. \A p \in (1..N) \X V : Named(p[2], named[p[1]]) \in V
    BY <1>0, <1>1
  <2> QED BY <2>1
<1>3. PICK it \in [SUBSET (1..N) -> V] : Iterates(it, N, posts, step)
  <2> HIDE DEF V, N, step
  <2> QED BY <1>0, <1>2, IterationExists
<1>4. Eq(it)
  <2>1. ASSUME NEW D \in SUBSET (1..N)
        PROVE  it[D] = IF D = {} THEN posts ELSE Named(it[D \ {Max(D)}], named[Max(D)])
    <3>1. CASE D = {}
      BY <1>3, <3>1 DEF Iterates
    <3>2. CASE D # {}
      <4>1. Max(D) \in 1..N
        BY <1>0, <3>2, GreatestOf
      <4>2. <<Max(D), it[D \ {Max(D)}]>> \in (1..N) \X V
        BY <4>1, <1>3
      <4>3. it[D] = step[<<Max(D), it[D \ {Max(D)}]>>]
        BY <1>3, <3>2 DEF Iterates
      <4>4. step[<<Max(D), it[D \ {Max(D)}]>>] = Named(it[D \ {Max(D)}], named[Max(D)])
        BY <4>2
      <4> QED BY <3>2, <4>3, <4>4
    <3> QED BY <3>1, <3>2
  <2> QED BY <1>0, <1>3, <2>1
<1>5. FoldLeft(Named, posts, named) = iter[DOMAIN named]
  BY DEF FoldLeft, MapThenFoldSet
<1> HIDE DEF Eq
<1>6. Eq(iter)
  BY <1>4
<1> HIDE DEF iter
<1>7. iter[{}] = posts /\ \A D \in SUBSET (1..N) : D # {} => iter[D] = Named(iter[D \ {Max(D)}], named[Max(D)])
  BY <1>0, <1>6 DEF Eq
<1> DEFINE Has(f, n) == f \in V /\ \A i \in 1..n : named[i].post => PostUrl(named[i]) \in Urls(f, Len(f))
           T == {n \in 0..N : Has(iter[1..n], n)}
<1>8. 0 \in T
  <2>1. 1..0 = {} /\ 0 \in 0..N
    BY <1>0
  <2> QED BY <1>0, <1>7, <2>1
<1>9. ASSUME NEW n \in 1..N, n - 1 \in T PROVE n \in T
  <2>1. Max(1..n) = n /\ (1..n) \ {n} = 1..(n - 1)
    BY GreatestUpTo
  <2>2. 1..n \in SUBSET (1..N) /\ 1..n # {} /\ n \in 0..N
    <3>1. 1..n \subseteq 1..N /\ n \in 1..n /\ n \in 0..N
      BY <1>0
    <3> QED BY <3>1
  <2>3. iter[1..n] = Named(iter[1..(n - 1)], named[n])
    BY <1>7, <2>1, <2>2
  <2>4. Has(iter[1..(n - 1)], n - 1) /\ named[n] \in Permalink
    BY <1>0, <1>9
  <2>5. \A i \in 1..n : i \in 1..(n - 1) \/ i = n
    BY <1>0
  <2> DEFINE f == iter[1..(n - 1)]
             h == iter[1..n]
  <2>6. f \in V /\ h = Named(f, named[n])
    BY <2>3, <2>4
  <2> HIDE DEF f, h, V
  <2>7. /\ h \in V /\ Urls(f, Len(f)) \subseteq Urls(h, Len(h))
        /\ named[n].post => PostUrl(named[n]) \in Urls(h, Len(h))
    BY <1>1, <2>4, <2>6
  <2>8. Has(h, n)
    BY <2>4, <2>5, <2>7 DEF f
  <2> QED BY <2>2, <2>8 DEF h
<1> HIDE DEF T
<1>10. N \in T
  <2>1. \A n \in 1..N : n - 1 \in T => n \in T
    BY <1>9
  <2>2. 0..N \subseteq T
    BY <1>0, <1>8, <2>1, UpTo
  <2> QED BY <1>0, <2>2
<1>11. Has(iter[1..N], N)
  BY <1>10 DEF T
<1> QED BY <1>0, <1>5, <1>11

\* The feed's answer has each post that a response carried, unless it is full.
LEMMA FeedRight ==
  ASSUME RefTypeOK, pages # <<>>
  PROVE  \A i \in DOMAIN captured :
           captured[i].post /\ Len(FeedReferences) < Caps["feed"] =>
             \E n \in DOMAIN FeedReferences : FeedReferences[n].url = PostUrl(captured[i])
<1> DEFINE refs == BuildReferences(pages[1], "feed")
           kept == {i \in DOMAIN refs : refs[i].kind = "feed_post"}
           posts == Among(refs, kept)
           Q == Reference("feed") \union {Post(c) : c \in Permalink}
           all == FoldLeft(Named, posts, captured)
           d == DedupeReferences(all, Caps["feed"])
<1>0. "feed" \in DOMAIN Caps /\ Caps["feed"] \in Nat
  BY ReferencesAssumption
<1>1. FeedReferences = d
  BY DEF FeedReferences
<1>2. pages[1] \in Page /\ captured \in Seq(Permalink)
  <2> HIDE DEF refs, kept, posts, Q, all, d
  <2>1. pages \in Seq(Page) /\ captured \in Seq(Permalink)
    BY DEF RefTypeOK, Page
  <2> QED BY <2>1
<1>3. refs \in Seq(Reference("feed"))
  BY <1>0, <1>2, BuildRight
<1> HIDE DEF refs
<1>4. posts \in Seq(Q)
  <2>1. \A i \in kept \cap DOMAIN refs : refs[i] \in Q
    <3>1. \A i \in DOMAIN refs : refs[i] \in Reference("feed")
      BY <1>3
    <3> QED BY <3>1
  <2> HIDE DEF kept, Q
  <2> QED BY <1>3, <2>1, AmongTyped
<1>5. \A c \in Permalink : Post(c) \in Q
  OBVIOUS
<1>6. \A r \in Q : r.text \in Nat
  <2>1. \A c \in Permalink : Post(c).text \in Nat
    BY DEF Post
  <2> QED BY <2>1, ReferenceTyped
<1> HIDE DEF posts, Q
<1>7. all \in Seq(Q) /\ \A i \in DOMAIN captured : captured[i].post => PostUrl(captured[i]) \in Urls(all, Len(all))
  BY <1>2, <1>4, <1>5, NamedFolds
<1> HIDE DEF all
<1>8. d \in Seq(Q) /\ (Len(d) < Caps["feed"] => Urls(d, Len(d)) = Urls(all, Len(all)))
  BY <1>0, <1>6, <1>7, DedupeRight
<1> HIDE DEF d
<1>9. Len(d) < Caps["feed"] => \A i \in DOMAIN captured : captured[i].post =>
        \E n \in DOMAIN d : d[n].url = PostUrl(captured[i])
  <2>1. DOMAIN d = 1..Len(d)
    BY <1>8
  <2> QED BY <1>7, <1>8, <2>1 DEF Urls
<1> QED BY <1>1, <1>9

\* What is in one of the sequences is in all of them put together.
LEMMA FlattenHolds ==
  ASSUME NEW R, NEW ys \in Seq(Seq(R)), NEW p \in DOMAIN ys, NEW i \in DOMAIN ys[p]
  PROVE  /\ FlattenSeq(ys) \in Seq(R)
         /\ \E k \in DOMAIN FlattenSeq(ys) : FlattenSeq(ys)[k] = ys[p][i]
<1> DEFINE N == Len(ys)
<1>0. N \in Nat /\ p \in 1..N /\ \A n \in 1..N : ys[n] \in Seq(R)
  OBVIOUS
<1>1. PICK g : /\ g[1] = ys[1]
               /\ \A n \in 2..N : g[n] = g[n - 1] \o ys[n]
               /\ FlattenSeq(ys) = g[N]
  <2>1. ys # <<>>
    OBVIOUS
  <2> QED BY <2>1, FlattenUnrolled
<1> DEFINE Holds(s, t) == \A j \in DOMAIN t : \E k \in DOMAIN s : s[k] = t[j]
           T == {0} \union {n \in 1..N : g[n] \in Seq(R) /\ \A q \in 1..n : Holds(g[n], ys[q])}
<1>2. ASSUME NEW n \in 1..N, n - 1 \in T PROVE n \in T
  <2>1. CASE n = 1
    <3>1. g[1] = ys[1] /\ ys[1] \in Seq(R) /\ 1..1 = {1}
      BY <1>0, <1>1, <2>1
    <3> QED BY <2>1, <3>1
  <2>2. CASE n # 1
    <3>1. n \in 2..N /\ n - 1 \in 1..N /\ n - 1 # 0
      BY <1>0, <2>2
    <3> DEFINE a == g[n - 1]
               b == ys[n]
    <3>2. a \in Seq(R) /\ b \in Seq(R) /\ g[n] = a \o b
      BY <1>0, <1>1, <1>2, <3>1
    <3>3. \A q \in 1..(n - 1) : Holds(a, ys[q])
      BY <1>2, <3>1
    <3>4. b = ys[n]
      OBVIOUS
    <3> HIDE DEF a, b
    <3>5. /\ a \o b \in Seq(R) /\ DOMAIN (a \o b) = 1..(Len(a) + Len(b))
          /\ DOMAIN a = 1..Len(a) /\ DOMAIN b = 1..Len(b) /\ Len(a) \in Nat /\ Len(b) \in Nat
          /\ \A k \in 1..Len(a) : (a \o b)[k] = a[k]
          /\ \A k \in 1..Len(b) : (a \o b)[Len(a) + k] = b[k]
      BY <3>2
    <3>6. Holds(a \o b, b)
      <4> SUFFICES ASSUME NEW j \in DOMAIN b PROVE \E k \in DOMAIN (a \o b) : (a \o b)[k] = b[j]
        OBVIOUS
      <4>1. Len(a) + j \in DOMAIN (a \o b) /\ (a \o b)[Len(a) + j] = b[j]
        BY <3>5
      <4> QED BY <4>1
    <3>7. ASSUME NEW t, Holds(a, t) PROVE Holds(a \o b, t)
      <4>1. \A k \in DOMAIN a : k \in DOMAIN (a \o b) /\ (a \o b)[k] = a[k]
        BY <3>5
      <4> QED BY <3>7, <4>1
    <3>8. \A q \in 1..n : q = n \/ q \in 1..(n - 1)
      BY <1>0
    <3> HIDE DEF Holds
    <3>9. \A q \in 1..n : Holds(a \o b, ys[q])
      BY <3>3, <3>4, <3>6, <3>7, <3>8
    <3> QED BY <3>2, <3>5, <3>9
  <2> QED BY <2>1, <2>2
<1> HIDE DEF T
<1>3. N \in T
  <2>1. 0 \in T
    BY DEF T
  <2>2. 0..N \subseteq T
    <3> HIDE DEF N
    <3>1. \A n \in 1..N : n - 1 \in T => n \in T
      BY <1>2
    <3> QED BY <1>0, <2>1, <3>1, UpTo
  <2>3. N \in 0..N
    BY <1>0
  <2> QED BY <2>2, <2>3
<1>4. g[N] \in Seq(R) /\ Holds(g[N], ys[p])
  BY <1>0, <1>3 DEF T
<1> QED BY <1>1, <1>4

\* The pages of a listing, cut each, have up to the cap what the pages have.
LEMMA PagesShort ==
  ASSUME NEW R, NEW c \in Nat, NEW xs \in Seq(Seq(R)), NEW ys \in Seq(Seq(R)), Len(xs) = Len(ys),
         \A i \in 1..Len(xs) : Chain(ys[i]) = Short(xs[i], c)
  PROVE  /\ FlattenSeq(xs) \in Seq(R) /\ FlattenSeq(ys) \in Seq(R)
         /\ Short(FlattenSeq(xs), c) = Short(FlattenSeq(ys), c)
         /\ Urls(FlattenSeq(ys), Len(FlattenSeq(ys))) \subseteq Urls(FlattenSeq(xs), Len(FlattenSeq(xs)))
<1> DEFINE N == Len(xs)
<1>0. N \in Nat /\ \A i \in 1..N : xs[i] \in Seq(R) /\ ys[i] \in Seq(R)
  OBVIOUS
<1>1. CASE N = 0
  <2>1. xs = <<>> /\ ys = <<>>
    <3> DEFINE S == Seq(R)
    <3>1. xs \in Seq(S) /\ ys \in Seq(S) /\ Len(xs) = 0 /\ Len(ys) = 0
      BY <1>1
    <3> HIDE DEF S
    <3> QED BY <3>1
  <2>2. FlattenSeq(<<>>) = <<>>
    BY DEF FlattenSeq
  <2>3. <<>> \in Seq(R)
    OBVIOUS
  <2> QED BY <2>1, <2>2, <2>3
<1>2. CASE N # 0
  <2>0. xs # <<>> /\ ys # <<>>
    BY <1>2
  <2>1. PICK f : /\ f[1] = xs[1]
                 /\ \A n \in 2..N : f[n] = f[n - 1] \o xs[n]
                 /\ FlattenSeq(xs) = f[N]
    BY <2>0, FlattenUnrolled
  <2>2. PICK g : /\ g[1] = ys[1]
                 /\ \A n \in 2..N : g[n] = g[n - 1] \o ys[n]
                 /\ FlattenSeq(ys) = g[N]
    <3>1. \E g : /\ g[1] = ys[1]
                 /\ \A n \in 2..Len(ys) : g[n] = g[n - 1] \o ys[n]
                 /\ FlattenSeq(ys) = g[Len(ys)]
      BY <2>0, FlattenUnrolled
    <3> QED BY <3>1
  <2> DEFINE Good(a, b) == /\ a \in Seq(R) /\ b \in Seq(R)
                           /\ Short(a, c) = Short(b, c)
                           /\ Urls(b, Len(b)) \subseteq Urls(a, Len(a))
             T == {0} \union {n \in 1..N : Good(f[n], g[n])}
  <2>3. ASSUME NEW n \in 1..N, n - 1 \in T PROVE n \in T
    <3>1. CASE n = 1
      <4> DEFINE a == xs[1]
                 b == ys[1]
      <4>1. a \in Seq(R) /\ b \in Seq(R) /\ Chain(b) = Short(a, c)
        BY <1>0, <3>1
      <4>2. Short(b, c) = Short(a, c)
        BY <4>1 DEF Short
      <4> HIDE DEF a, b
      <4>3. Urls(b, Len(b)) \in Chain(b) /\ \A S \in Chain(a) : S \subseteq Urls(a, Len(a))
        BY <4>1, ChainMember
      <4>4. Good(a, b)
        BY <4>1, <4>2, <4>3 DEF Short
      <4> QED BY <2>1, <2>2, <3>1, <4>4 DEF a, b
    <3>2. CASE n # 1
      <4>1. n \in 2..N /\ n - 1 \in 1..N
        BY <1>0, <3>2
      <4>2. Good(f[n - 1], g[n - 1])
        BY <2>3, <4>1
      <4>3. f[n] = f[n - 1] \o xs[n] /\ g[n] = g[n - 1] \o ys[n]
        BY <2>1, <2>2, <4>1
      <4>4. xs[n] \in Seq(R) /\ ys[n] \in Seq(R) /\ Chain(ys[n]) = Short(xs[n], c)
        BY <1>0
      <4> DEFINE a == f[n - 1]
                 b == g[n - 1]
                 x == xs[n]
                 y == ys[n]
      <4>5. a \in Seq(R) /\ b \in Seq(R) /\ x \in Seq(R) /\ y \in Seq(R)
        BY <4>2, <4>4
      <4>6. Short(a, c) = Short(b, c) /\ Urls(b, Len(b)) \subseteq Urls(a, Len(a)) /\ Chain(y) = Short(x, c)
        BY <4>2, <4>4
      <4>7. f[n] = a \o x /\ g[n] = b \o y
        BY <4>3
      <4> HIDE DEF a, b, x, y
      <4>8. a \o x \in Seq(R) /\ b \o y \in Seq(R)
        BY <4>5
      <4>9. Good(a \o x, b \o y)
        <5>1. /\ Short(a \o x, c) = Short(b \o y, c)
              /\ Urls(b \o y, Len(b \o y)) \subseteq Urls(a \o x, Len(a \o x))
          BY <4>5, <4>6, ShortConcat
        <5> QED BY <4>8, <5>1
      <4> QED BY <4>7, <4>9
    <3> QED BY <3>1, <3>2
  <2> HIDE DEF T
  <2>4. N \in T
    <3>1. 0 \in T
      BY DEF T
    <3>2. \A n \in 1..N : n - 1 \in T => n \in T
      BY <2>3
    <3>3. 0..N \subseteq T
      BY <1>0, <3>1, <3>2, UpTo
    <3> QED BY <1>0, <3>3
  <2>5. Good(f[N], g[N])
    BY <1>2, <2>4 DEF T
  <2> QED BY <2>1, <2>2, <2>5
<1> QED BY <1>1, <1>2

\* What is in short order is found at its rank.
LEMMA ByRank ==
  ASSUME NEW R, NEW s \in Seq(R), NEW t \in Seq(R), NEW c \in Nat,
         Distinct(t), Chain(t) = Short(s, c),
         NEW i \in FirstPlaces(s), Cardinality(Urls(s, i)) <= c
  PROVE  Cardinality(Urls(s, i)) \in 1..Len(t) /\ t[Cardinality(Urls(s, i))].url = s[i].url
<1> DEFINE r == Cardinality(Urls(s, i))
<1>1. i \in 1..Len(s) /\ Len(s) \in Nat /\ Len(t) \in Nat /\ i \in Nat \ {0} /\ s[i].url \notin Urls(s, i - 1)
  <2>1. DOMAIN s = 1..Len(s) /\ i \in DOMAIN s /\ \A j \in 1..(i - 1) : s[j].url # s[i].url
    BY DEF FirstPlaces
  <2> QED BY <2>1 DEF Urls
<1>2. r = Cardinality(Urls(s, i - 1)) + 1 /\ Cardinality(Urls(s, i - 1)) \in Nat
  <2>1. i - 1 \in Nat
    BY <1>1
  <2> QED BY <1>1, <2>1, UrlsCount, UrlsFinite
<1>3. Urls(s, i) = Urls(s, i - 1) \union {s[i].url}
  BY <1>1, UrlsGrow
<1>4. Urls(s, i) \in Chain(t) /\ Urls(s, i - 1) \in Chain(t)
  <2>1. Urls(s, i) \in Chain(s) /\ Urls(s, i - 1) \in Chain(s)
    BY <1>1 DEF Chain
  <2> QED BY <1>2, <2>1 DEF Short
<1>5. \A k \in 0..Len(t) : Cardinality(Urls(t, k)) = k
  BY DistinctCount
<1>6. PICK k \in 0..Len(t) : Urls(s, i) = Urls(t, k)
  BY <1>4 DEF Chain
<1>7. PICK l \in 0..Len(t) : Urls(s, i - 1) = Urls(t, l)
  BY <1>4 DEF Chain
<1>8. k = r /\ l = r - 1
  BY <1>2, <1>5, <1>6, <1>7
<1>9. r \in 1..Len(t)
  BY <1>1, <1>2, <1>8
<1>10. t[r].url \in Urls(t, r)
  <2>1. r \in 1..r
    BY <1>9
  <2> HIDE DEF r
  <2> QED BY <2>1 DEF Urls
<1>11. t[r].url \notin Urls(t, r - 1)
  <2> HIDE DEF r
  <2>1. \A j \in 1..(r - 1) : j \in DOMAIN t /\ r \in DOMAIN t /\ j # r
    BY <1>9
  <2> QED BY <2>1 DEF Distinct, Urls
<1>12. t[r].url = s[i].url
  <2> HIDE DEF r
  <2> QED BY <1>3, <1>6, <1>7, <1>8, <1>10, <1>11
<1> QED BY <1>9, <1>12

\* A listing's references are the urls of all its pages, in the order in which
\* they first came, up to the cap.
LEMMA ListingRight ==
  ASSUME RefTypeOK
  PROVE  LET all == FlattenSeq([i \in DOMAIN pages |-> Normalized(pages[i], "search_results")])
             refs == ListingReferences
             first == FirstPlaces(all)
             Rank(i) == Cardinality({j \in first : j <= i})
         IN /\ Len(refs) <= Cardinality(first)
            /\ \A i \in first : Rank(i) <= Caps["search_results"] =>
                 Rank(i) <= Len(refs) /\ refs[Rank(i)].url = all[i].url
<1> DEFINE sec == "search_results"
           R == Reference(sec)
           c == Caps[sec]
           xs == [i \in DOMAIN pages |-> Normalized(pages[i], sec)]
           ys == [i \in DOMAIN pages |-> BuildReferences(pages[i], sec)]
           all == FlattenSeq(xs)
           cut == FlattenSeq(ys)
           refs == DedupeReferences(cut, c)
           first == FirstPlaces(all)
<1>0. sec \in DOMAIN Caps /\ c \in Nat
  BY ReferencesAssumption
<1>1. DOMAIN pages = 1..Len(pages) /\ Len(pages) \in Nat /\ \A i \in 1..Len(pages) : pages[i] \in Page
  <2>1. pages \in Seq(Page)
    BY DEF RefTypeOK, Page
  <2> HIDE DEF Page
  <2> QED BY <2>1
<1>2. \A i \in 1..Len(pages) : /\ Normalized(pages[i], sec) \in Seq(R) /\ BuildReferences(pages[i], sec) \in Seq(R)
                              /\ Chain(BuildReferences(pages[i], sec)) = Short(Normalized(pages[i], sec), c)
  <2> HIDE DEF sec
  <2> QED BY <1>0, <1>1, BuildRight
<1> HIDE DEF sec, R, c
<1>3. xs \in [1..Len(pages) -> Seq(R)] /\ ys \in [1..Len(pages) -> Seq(R)]
  BY <1>1, <1>2
<1>4. \A i \in 1..Len(pages) : Chain(ys[i]) = Short(xs[i], c)
  BY <1>1, <1>2
<1> HIDE DEF xs, ys
<1>5. xs \in Seq(Seq(R)) /\ ys \in Seq(Seq(R)) /\ Len(xs) = Len(pages) /\ Len(ys) = Len(pages)
  <2> DEFINE S == Seq(R)
  <2>1. xs \in [1..Len(pages) -> S] /\ ys \in [1..Len(pages) -> S]
    BY <1>3
  <2> HIDE DEF S
  <2>2. xs \in Seq(S) /\ ys \in Seq(S) /\ Len(xs) = Len(pages) /\ Len(ys) = Len(pages)
    BY <1>1, <2>1
  <2> QED BY <2>2 DEF S
<1>6. /\ all \in Seq(R) /\ cut \in Seq(R) /\ Short(all, c) = Short(cut, c)
      /\ Urls(cut, Len(cut)) \subseteq Urls(all, Len(all))
  BY ZenonT(60), <1>0, <1>4, <1>5, PagesShort
<1>7. ListingReferences = refs
  BY DEF ListingReferences, ys, sec, c
<1> HIDE DEF all, cut
<1>8. refs \in Seq(R) /\ Distinct(refs) /\ Chain(refs) = Short(all, c)
  <2>1. \A r \in R : r.text \in Nat
    BY ReferenceTyped DEF R
  <2>2. refs \in Seq(R) /\ Distinct(refs) /\ Chain(refs) = Short(cut, c)
    BY <1>0, <1>6, <2>1, DedupeRight
  <2> QED BY <1>6, <2>2
<1> HIDE DEF refs
<1> DEFINE Rank(i) == Cardinality({j \in first : j <= i})
<1>9. \A i \in 0..Len(all) : Rank(i) = Cardinality(Urls(all, i))
  BY <1>6, FirstCount
<1>10. DOMAIN all = 1..Len(all) /\ Len(all) \in Nat /\ Len(refs) \in Nat /\ first \subseteq 1..Len(all)
  <2>1. DOMAIN all = 1..Len(all) /\ Len(all) \in Nat /\ Len(refs) \in Nat
    BY <1>6, <1>8
  <2> QED BY <2>1 DEF FirstPlaces
<1>11. Len(refs) <= Cardinality(first)
  <2>1. first = {j \in first : j <= Len(all)}
    BY <1>10
  <2>2. Cardinality(first) = Cardinality(Urls(all, Len(all)))
    <3>1. Cardinality({j \in first : j <= Len(all)}) = Cardinality(Urls(all, Len(all)))
      BY <1>9, <1>10
    <3> QED BY <2>1, <3>1
  <2>3. Urls(refs, Len(refs)) \in Chain(all)
    <3>1. Urls(refs, Len(refs)) \in Chain(refs)
      BY <1>8, ChainMember
    <3> QED BY <1>8, <3>1 DEF Short
  <2>4. Urls(refs, Len(refs)) \subseteq Urls(all, Len(all)) /\ IsFiniteSet(Urls(all, Len(all)))
    BY <1>6, <2>3, ChainMember
  <2>5. Cardinality(Urls(refs, Len(refs))) <= Cardinality(Urls(all, Len(all)))
    BY <2>4, FS_Subset
  <2>6. Cardinality(Urls(refs, Len(refs))) = Len(refs)
    BY <1>8, <1>10, DistinctCount
  <2> QED BY <2>2, <2>5, <2>6
<1>12. ASSUME NEW i \in first, Rank(i) <= c
       PROVE  Rank(i) <= Len(refs) /\ refs[Rank(i)].url = all[i].url
  <2>1. Rank(i) = Cardinality(Urls(all, i))
    BY <1>9, <1>10
  <2>2. Cardinality(Urls(all, i)) <= c
    BY <1>12, <2>1
  <2> HIDE DEF Rank
  <2>3. Cardinality(Urls(all, i)) \in 1..Len(refs) /\ refs[Cardinality(Urls(all, i))].url = all[i].url
    BY <1>0, <1>6, <1>8, <2>2, ByRank
  <2> QED BY <1>10, <2>1, <2>3
<1> HIDE DEF Rank, first
<1> QED BY <1>7, <1>11, <1>12 DEF all, xs, first, sec, c, Rank

\* ... each as the best of the pages' own references to it.
LEMMA ListingBest ==
  ASSUME RefTypeOK, NEW n \in DOMAIN ListingReferences, NEW p \in DOMAIN pages,
         NEW i \in DOMAIN BuildReferences(pages[p], "search_results"),
         BuildReferences(pages[p], "search_results")[i].url = ListingReferences[n].url
  PROVE  ~Above(Score(BuildReferences(pages[p], "search_results")[i]),
                Score(ListingReferences[n]))
<1> DEFINE sec == "search_results"
           R == Reference(sec)
           ys == [q \in DOMAIN pages |-> BuildReferences(pages[q], sec)]
           cut == FlattenSeq(ys)
<1>0. sec \in DOMAIN Caps /\ Caps[sec] \in Nat
  BY ReferencesAssumption
<1>1. DOMAIN pages = 1..Len(pages) /\ Len(pages) \in Nat /\ \A q \in 1..Len(pages) : pages[q] \in Page
  <2>1. pages \in Seq(Page)
    BY DEF RefTypeOK, Page
  <2> HIDE DEF Page
  <2> QED BY <2>1
<1>2. \A q \in 1..Len(pages) : BuildReferences(pages[q], sec) \in Seq(R)
  <2> HIDE DEF sec
  <2> QED BY <1>0, <1>1, BuildRight
<1>3. ListingReferences = DedupeReferences(cut, Caps[sec])
  BY DEF ListingReferences
<1>4. ys[p] = BuildReferences(pages[p], sec) /\ p \in DOMAIN ys
  OBVIOUS
<1>5. \A r \in R : r.text \in Nat
  BY ReferenceTyped
<1> HIDE DEF sec, R
<1>6. ys \in Seq(Seq(R))
  <2> DEFINE S == Seq(R)
  <2>1. ys \in [1..Len(pages) -> S]
    BY <1>1, <1>2
  <2> HIDE DEF S, ys
  <2>2. ys \in Seq(S)
    BY <1>1, <2>1
  <2> QED BY <2>2 DEF S
<1>7. i \in DOMAIN ys[p]
  BY <1>4 DEF sec
<1> HIDE DEF ys
<1>8. cut \in Seq(R) /\ \E k \in DOMAIN cut : cut[k] = ys[p][i]
  BY <1>4, <1>6, <1>7, FlattenHolds
<1> HIDE DEF cut
<1>9. PICK k \in 1..Len(cut) : cut[k] = ys[p][i]
  BY <1>8
<1> DEFINE d == DedupeReferences(cut, Caps[sec])
<1>10. Best(d, cut, Len(cut))
  BY <1>0, <1>5, <1>8, DedupeRight
<1>11. n \in DOMAIN d /\ ys[p][i].url = d[n].url
  BY <1>3, <1>4 DEF sec
<1>12. ~Above(Score(cut[k]), Score(d[n]))
  BY <1>9, <1>10, <1>11 DEF Best
<1> HIDE DEF d
<1> QED BY <1>3, <1>4, <1>9, <1>12 DEF d, sec

-----------------------------------------------------------------------------
(***************************************************************************)
(* References: what LinkedIn shows.                                        *)
(***************************************************************************)

\* No permalink is captured before there is a page.
RefIInv == RefTypeOK /\ (captured # <<>> => pages # <<>>)

\* Each page, link and permalink shown keeps it.
LEMMA RefStep == RefIInv /\ [RefNext]_refVars => RefIInv'
<1> SUFFICES ASSUME RefIInv, [RefNext]_refVars PROVE RefIInv'
  OBVIOUS
<1>0. pages \in Seq(Page) /\ captured \in Seq(Permalink)
  BY DEF RefIInv, RefTypeOK, Page
<1> SUFFICES pages' \in Seq(Page) /\ captured' \in Seq(Permalink) /\ (captured' # <<>> => pages' # <<>>)
  BY DEF RefIInv, RefTypeOK, Page
<1>1. CASE ShowsLink
  <2>1. PICK a \in Anchor : pages' = [pages EXCEPT ![Len(pages)].links = Append(@, a)]
    BY <1>1 DEF ShowsLink
  <2>2. pages # <<>> /\ captured' = captured
    BY <1>1 DEF ShowsLink
  <2> DEFINE n == Len(pages)
             last == pages[n]
             page == [last EXCEPT !.links = Append(@, a)]
  <2>3. n \in 1..Len(pages) /\ last \in Page
    BY <1>0, <2>2
  <2>4. page \in Page
    BY <2>3 DEF Page
  <2>5. pages' = [pages EXCEPT ![n] = page]
    BY <2>1
  <2> HIDE DEF page, Page
  <2>6. pages' \in Seq(Page) /\ Len(pages') = Len(pages)
    BY <1>0, <2>3, <2>4, <2>5
  <2>7. pages' # <<>>
    BY <1>0, <2>2, <2>3, <2>6
  <2> QED BY <1>0, <2>2, <2>6, <2>7
<1>2. CASE TurnsPage
  <2>1. PICK m \in BOOLEAN : pages' = Append(pages, [main |-> m, links |-> <<>>])
    BY <1>2 DEF TurnsPage
  <2>2. [main |-> m, links |-> <<>>] \in Page
    BY DEF Page
  <2>3. captured' = captured
    BY <1>2 DEF TurnsPage
  <2> QED BY <1>0, <2>1, <2>2, <2>3
<1>3. CASE Captures
  <2>1. pages' = pages /\ pages # <<>> /\ \E c \in Permalink : captured' = Append(captured, c)
    BY <1>3 DEF Captures
  <2> QED BY <1>0, <2>1
<1>4. CASE UNCHANGED refVars
  BY <1>0, <1>4 DEF refVars, RefIInv
<1> QED BY <1>1, <1>2, <1>3, <1>4 DEF RefNext

\* Types, and no permalink before the page whose responses carried it.
THEOREM RefInvariant == RefSpec => []RefIInv
<1>1. RefInit => RefIInv
  BY DEF RefInit, RefIInv, RefTypeOK
<1> QED BY <1>1, RefStep, PTL DEF RefSpec

\* What the caps keep, for any links, caps, labels, and any number of pages and
\* permalinks: of each page the best described of its links to a url, of a listing,
\* whose pages are cut one by one, the urls in the order in which they first came,
\* each as the best of the pages' own references to it, and of the feed's
\* permalinks every post unless the answer is full.
THEOREM ReferencesAreRight == RefSpec => []ReferencesRight
<1>1. RefIInv => ReferencesRight
  <2> SUFFICES ASSUME RefIInv PROVE ReferencesRight
    OBVIOUS
  <2>1. RefTypeOK /\ (captured # <<>> => pages # <<>>)
    BY DEF RefIInv
  <2>2. \A p \in DOMAIN pages, sec \in DOMAIN Caps :
           LET refs == BuildReferences(pages[p], sec)
               all == Normalized(pages[p], sec)
           IN /\ Len(refs) <= Caps[sec]
              /\ \A n \in DOMAIN refs : \A i \in DOMAIN all :
                   all[i].url = refs[n].url => ~Above(Score(all[i]), Score(refs[n]))
    <3> SUFFICES ASSUME NEW p \in DOMAIN pages, NEW sec \in DOMAIN Caps
                 PROVE  LET refs == BuildReferences(pages[p], sec)
                            all == Normalized(pages[p], sec)
                        IN /\ Len(refs) <= Caps[sec]
                           /\ \A n \in DOMAIN refs : \A i \in DOMAIN all :
                                all[i].url = refs[n].url => ~Above(Score(all[i]), Score(refs[n]))
      OBVIOUS
    <3> DEFINE refs == BuildReferences(pages[p], sec)
               all == Normalized(pages[p], sec)
    <3>1. pages[p] \in Page
      <4>1. pages \in Seq(Page)
        BY <2>1 DEF RefTypeOK, Page
      <4> QED BY <4>1
    <3>2. all \in Seq(Reference(sec)) /\ Len(refs) <= Caps[sec] /\ Best(refs, all, Len(all))
      BY <3>1, BuildRight
    <3> HIDE DEF refs, all
    <3>3. DOMAIN all = 1..Len(all)
      BY <3>2
    <3>4. \A n \in DOMAIN refs : \A i \in DOMAIN all :
            all[i].url = refs[n].url => ~Above(Score(all[i]), Score(refs[n]))
      BY <3>2, <3>3 DEF Best
    <3> QED BY <3>2, <3>4 DEF refs, all
  <2>3. \A i \in DOMAIN captured :
          captured[i].post /\ Len(FeedReferences) < Caps["feed"] =>
            \E n \in DOMAIN FeedReferences : FeedReferences[n].url = PostUrl(captured[i])
    <3>1. CASE captured = <<>>
      BY <3>1
    <3>2. CASE captured # <<>>
      BY <2>1, <3>2, FeedRight
    <3> QED BY <3>1, <3>2
  <2>4. \A n \in DOMAIN ListingReferences, p \in DOMAIN pages :
           LET own == BuildReferences(pages[p], "search_results")
           IN \A i \in DOMAIN own :
                own[i].url = ListingReferences[n].url =>
                  ~Above(Score(own[i]), Score(ListingReferences[n]))
    BY <2>1, ListingBest
  <2> QED BY <2>1, <2>2, <2>3, <2>4, ListingRight DEF ReferencesRight
<1> QED BY <1>1, RefInvariant, PTL
=============================================================================
