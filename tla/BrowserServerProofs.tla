------------------------- MODULE BrowserServerProofs -------------------------
(***************************************************************************)
(* Proofs about BrowserServer for any processes and any number of calls,   *)
(* logins and sessions: references to the lease are accounted for on every *)
(* path, so one process uses the profile at a time, none takes the browser *)
(* from under another's call, and the references implement                 *)
(* ProfileOwnership.  The module's type invariant is proved beside it.     *)
(***************************************************************************)
EXTENDS BrowserServer, TLAPS

\* The part of the type invariant that the references depend on.
Typed ==
  /\ refs \in [Proc -> Nat]
  /\ kept \in [Proc -> Nat]
  /\ call \in [Proc -> CallState]
  /\ login \in [Proc -> LoginState]
  /\ closer \in [Proc -> {"none", "call", "login"}]

\* At most one process has references to the lease.
Exclusive == \A p, q \in Proc : p = q \/ refs[p] = 0 \/ refs[q] = 0

\* The lifecycle lock is a login's only while that login closes the singleton.
CloserShape == \A p \in Proc : closer[p] = "login" => login[p] = "close"

IInv == Typed /\ LeaseAccounted /\ Exclusive /\ CloserShape

\* The references that p's own call, login and unconfirmed browsers account for.
Due(p) == One(CallHolds(p)) + One(LoginHolds(p)) + kept[p]

\* Nothing that another process's references depend on changes.
Elsewhere(p) ==
  \A q \in Proc \ {p} :
    /\ refs'[q] = refs[q] /\ kept'[q] = kept[q] /\ closer'[q] = closer[q]
    /\ call'[q] = call[q] /\ login'[q] = login[q]

\* What a step of p does to the lease: it settles p's references, and gets a
\* first one only when nobody has any.
Settles(p) ==
  /\ Typed'
  /\ Elsewhere(p)
  /\ refs'[p] = Due(p)'
  /\ refs'[p] > 0 => refs[p] > 0 \/ Free(p)
  /\ closer'[p] = "login" => login'[p] = "close"

\* The step at each action of a call: it takes one reference when the call
\* passes the middleware's lease and gives it back when the call ends.
LEMMA CallSettles ==
  ASSUME IInv, NEW p \in Proc, CallStep(p)
  PROVE  Settles(p)
<1> USE DEF IInv, Typed, LeaseAccounted, Exclusive, CloserShape, Settles, Elsewhere,
            Due, One, CallHolds, LoginHolds, CallState, LoginState, Free
<1>1. CASE TakeLease(p)
  BY <1>1 DEF TakeLease, TakeRef, CallTo, LoginTo, callVars, loginVars, singletonVars
<1>2. CASE GiveUp(p)
  BY <1>2 DEF GiveUp, CallTo, LoginTo, callVars, loginVars, singletonVars
<1>3. CASE GatePasses(p)
  BY <1>3 DEF GatePasses, CallTo, LoginTo, callVars, loginVars, singletonVars
<1>4. CASE GateWaits(p)
  BY <1>4 DEF GateWaits, CallTo, LoginTo, callVars, loginVars, singletonVars
<1>5. CASE CallFails(p)
  BY <1>5 DEF CallFails, CallTo, LoginTo, callVars, loginVars, singletonVars
<1>6. CASE AuthError(p)
  BY <1>6 DEF AuthError, CallTo, LoginTo, callVars, loginVars, singletonVars
<1>7. CASE Reuse(p)
  BY <1>7 DEF Reuse, CallTo, LoginTo, callVars, loginVars, singletonVars
<1>8. CASE ClearPort(p)
  BY <1>8 DEF ClearPort, CallTo, LoginTo, callVars, loginVars, singletonVars
<1>9. CASE Launch(p)
  BY <1>9 DEF Launch, CallTo, LoginTo, callVars, loginVars, singletonVars
<1>10. CASE Created(p)
  BY <1>10 DEF Created, CallTo, LoginTo, callVars, loginVars, singletonVars
<1>11. CASE StartFails(p)
  BY <1>11 DEF StartFails, CallTo, LoginTo, callVars, loginVars, singletonVars
<1>12. CASE ToolEnds(p)
  BY <1>12 DEF ToolEnds, CallTo, LoginTo, callVars, loginVars, singletonVars
<1>13. CASE CloseSession(p)
  BY <1>13 DEF CloseSession, CallTo, LoginTo, callVars, loginVars, singletonVars
<1>14. CASE Finish(p)
  BY <1>14 DEF Finish, DropRef, CallTo, LoginTo, callVars, loginVars, singletonVars
<1>15. CASE NothingToClose(p, "call")
  BY <1>15 DEF NothingToClose, Closing, Closed, Relogin, StartRotating, TakeRef,
               CallTo, LoginTo, callVars, loginVars, singletonVars
<1>16. CASE CloseStart(p, "call")
  BY <1>16 DEF CloseStart, Closing, Closed, Relogin, StartRotating, TakeRef, CallTo,
               LoginTo, callVars, loginVars, singletonVars
<1>17. CASE CloseEnd(p, "call")
  BY <1>17 DEF CloseEnd, Closing, Closed, Relogin, StartRotating, TakeRef, CallTo,
               LoginTo, callVars, loginVars, singletonVars
<1>18. QED
  BY ONLY CallStep(p), <1>1, <1>2, <1>3, <1>4, <1>5, <1>6, <1>7, <1>8, <1>9, <1>10,
     <1>11, <1>12, <1>13, <1>14, <1>15, <1>16, <1>17 DEF CallStep

\* interactive_login takes its reference or leaves the lease alone.
LEMMA RotatingSettles ==
  ASSUME IInv, NEW p \in Proc, login[p] = "close", StartRotating(p), UNCHANGED kept,
         closer' \in [Proc -> {"none", "call", "login"}],
         \A q \in Proc : closer'[q] = IF q = p THEN "none" ELSE closer[q]
  PROVE  Settles(p)
<1> USE DEF IInv, Typed, LeaseAccounted, Exclusive, CloserShape, Settles, Elsewhere,
            Due, One, CallHolds, LoginHolds, CallState, LoginState
<1>1. CASE Free(p)
  <2>1. /\ refs' = [refs EXCEPT ![p] = @ + 1]
        /\ login' = [login EXCEPT ![p] = "rotate"]
        /\ UNCHANGED <<call, kept>>
    BY <1>1 DEF StartRotating, TakeRef, LoginTo
  <2>2. Typed'
    BY <2>1
  <2>3. QED
    BY ONLY <1>1, <2>1, <2>2, IInv, p \in Proc, login[p] = "close",
            \A q \in Proc : closer'[q] = IF q = p THEN "none" ELSE closer[q]
<1>2. CASE ~ Free(p)
  <2>1. /\ login' = [login EXCEPT ![p] = "none"]
        /\ UNCHANGED <<refs, call, kept>>
    BY ONLY <1>2, StartRotating(p), UNCHANGED kept DEF StartRotating, LoginTo
  <2>2. Typed'
    BY <2>1
  <2>3. QED
    BY ONLY <2>1, <2>2, IInv, p \in Proc, login[p] = "close",
            \A q \in Proc : closer'[q] = IF q = p THEN "none" ELSE closer[q]
<1>3. QED
  BY <1>1, <1>2

\* The step at each action of a login: one reference from StartRotating until
\* the login ends, which it leaves behind when its close is not confirmed.
LEMMA LoginSettles ==
  ASSUME IInv, NEW p \in Proc, LoginStep(p)
  PROVE  Settles(p)
<1> USE DEF IInv, Typed, LeaseAccounted, Exclusive, CloserShape, Settles, Elsewhere,
            Due, One, CallHolds, LoginHolds, CallState, LoginState, Free
<1>1. CASE Prepared(p)
  BY <1>1 DEF Prepared, CallTo, LoginTo, callVars, loginVars, singletonVars
<1>2. CASE Rotate(p)
  BY <1>2 DEF Rotate, CallTo, LoginTo, callVars, loginVars, singletonVars
<1>3. CASE RotateFails(p)
  BY <1>3 DEF RotateFails, DropRef, CallTo, LoginTo, callVars, loginVars, singletonVars
<1>4. CASE LoginClearPort(p)
  BY <1>4 DEF LoginClearPort, CallTo, LoginTo, callVars, loginVars, singletonVars
<1>5. CASE LoginLaunch(p)
  BY <1>5 DEF LoginLaunch, CallTo, LoginTo, callVars, loginVars, singletonVars
<1>6. CASE LoginStartFails(p)
  BY <1>6 DEF LoginStartFails, CallTo, LoginTo, callVars, loginVars, singletonVars
<1>7. CASE LoginSaves(p)
  BY <1>7 DEF LoginSaves, CallTo, LoginTo, callVars, loginVars, singletonVars
<1>8. CASE LoginFails(p)
  BY <1>8 DEF LoginFails, CallTo, LoginTo, callVars, loginVars, singletonVars
<1>9. CASE LoginCloses(p)
  <2>1. CASE login[p] = "saved"
    <3>1. /\ refs' = [refs EXCEPT ![p] = @ - 1]
          /\ login' = [login EXCEPT ![p] = "none"]
          /\ UNCHANGED <<call, closer, kept>>
      BY <1>9, <2>1 DEF LoginCloses, DropRef, LoginTo, callVars, singletonVars
    <3>2. QED
      BY <2>1, <3>1
  <2>2. CASE login[p] = "failed"
    BY <1>9, <2>2 DEF LoginCloses, LoginTo, callVars, singletonVars
  <2>3. QED
    BY <1>9, <2>1, <2>2 DEF LoginCloses
<1>10. CASE Undo(p)
  BY <1>10 DEF Undo, DropRef, CallTo, LoginTo, callVars, loginVars, singletonVars
<1>11. CASE NothingToClose(p, "login")
  <2>1. login[p] = "close" /\ StartRotating(p) /\ UNCHANGED kept
    BY <1>11 DEF NothingToClose, Closing, Closed
  <2>2. /\ closer' \in [Proc -> {"none", "call", "login"}]
        /\ \A q \in Proc : closer'[q] = IF q = p THEN "none" ELSE closer[q]
    BY <1>11 DEF NothingToClose
  <2>3. QED
    BY ONLY <2>1, <2>2, IInv, p \in Proc, RotatingSettles
<1>12. CASE CloseStart(p, "login")
  BY <1>12 DEF CloseStart, Closing, Closed, Relogin, StartRotating, TakeRef, CallTo,
               LoginTo, callVars, loginVars, singletonVars
<1>13. CASE CloseEnd(p, "login")
  <2>1. login[p] = "close" /\ StartRotating(p) /\ UNCHANGED kept
    BY <1>13 DEF CloseEnd, Closed
  <2>2. /\ closer' \in [Proc -> {"none", "call", "login"}]
        /\ \A q \in Proc : closer'[q] = IF q = p THEN "none" ELSE closer[q]
    BY <1>13 DEF CloseEnd
  <2>3. QED
    BY ONLY <2>1, <2>2, IInv, p \in Proc, RotatingSettles
<1>14. QED
  BY ONLY LoginStep(p), <1>1, <1>2, <1>3, <1>4, <1>5, <1>6, <1>7, <1>8, <1>9, <1>10,
     <1>11, <1>12, <1>13 DEF LoginStep

\* Starting something takes no reference, and a death leaves none.
LEMMA EnvironmentSettles ==
  ASSUME IInv, NEW p \in Proc, Environment(p)
  PROVE  Settles(p)
<1> USE DEF IInv, Typed, LeaseAccounted, Exclusive, CloserShape, Settles, Elsewhere,
            Due, One, CallHolds, LoginHolds, CallState, LoginState, Free
<1>1. CASE StartCall(p)
  BY <1>1 DEF StartCall, CallTo, LoginTo, callVars, loginVars, singletonVars
<1>2. CASE Shutdown(p)
  BY <1>2 DEF Shutdown, CallTo, LoginTo, callVars, loginVars, singletonVars
<1>3. CASE StartLogin(p)
  BY <1>3 DEF StartLogin, CallTo, LoginTo, callVars, loginVars, singletonVars
<1>4. CASE Die(p)
  BY <1>4 DEF Die, CallTo, LoginTo, callVars, loginVars, singletonVars
<1>5. QED
  BY ONLY Environment(p), <1>1, <1>2, <1>3, <1>4 DEF Environment

\* Every step is one process's and settles its references.
LEMMA StepSettles ==
  ASSUME IInv, Next
  PROVE  \E p \in Proc : Settles(p)
<1>1. PICK p \in Proc : CallStep(p) \/ LoginStep(p) \/ Environment(p)
  BY DEF Next
<1>2. Settles(p)
  BY <1>1, CallSettles, LoginSettles, EnvironmentSettles
<1>3. QED
  BY <1>2

\* Settled references stay accounted for everywhere and stay one process's.
LEMMA SettledKeeps ==
  ASSUME IInv, NEW p \in Proc, Settles(p)
  PROVE  IInv'
<1>1. LeaseAccounted'
  <2> SUFFICES ASSUME NEW q \in Proc PROVE refs'[q] = Due(q)'
    BY DEF LeaseAccounted, Due
  <2>1. CASE q = p
    BY <2>1 DEF Settles
  <2>2. CASE q # p
    <3>1. Due(q)' = Due(q)
      BY <2>2 DEF Settles, Elsewhere, Due, CallHolds, LoginHolds
    <3>2. QED
      BY <2>2, <3>1 DEF Settles, Elsewhere, IInv, LeaseAccounted, Due
  <2>3. QED
    BY <2>1, <2>2
<1>2. Exclusive'
  BY DEF Exclusive, Settles, Elsewhere, Free, IInv, Typed
<1>3. CloserShape'
  BY DEF CloserShape, Settles, Elsewhere, IInv
<1>4. QED
  BY <1>1, <1>2, <1>3 DEF IInv, Settles

\* The inductive invariant.  LeaseAccounted alone is not one: that nobody else
\* gets a reference while a process has one needs Exclusive, and the counts
\* need their types; CloserShape says whose step ends a close.
THEOREM LeaseInductive == Spec => []IInv
<1>1. Init => IInv
  BY DEF Init, IInv, Typed, LeaseAccounted, Exclusive, CloserShape, One, CallHolds,
         LoginHolds,
         CallState, LoginState
<1>2. IInv /\ [Next]_vars => IInv'
  <2>1. ASSUME IInv, Next PROVE IInv'
    BY <2>1, StepSettles, SettledKeeps
  <2>2. ASSUME IInv, UNCHANGED vars PROVE IInv'
    BY <2>2 DEF IInv, Typed, LeaseAccounted, Exclusive, CloserShape, One, CallHolds,
                LoginHolds,
                vars, callVars, loginVars, singletonVars
  <2>3. QED
    BY <2>1, <2>2
<1>3. QED
  BY <1>1, <1>2, PTL DEF Spec

\* However calls and logins of a process interleave, fail, are cancelled or
\* die, its references are those of the call and the login that are past their
\* try_acquire and of the browsers whose close was not confirmed.
THEOREM References == Spec => []LeaseAccounted
<1>1. IInv => LeaseAccounted
  BY DEF IInv
<1>2. QED
  BY <1>1, LeaseInductive, PTL

\* Two processes that use the profile would both have references.
LEMMA OneUserFromInvariant == IInv => OneUser
<1> SUFFICES ASSUME IInv, NEW p \in Proc, NEW q \in Proc,
                    CallHolds(p) \/ LoginHolds(p) \/ kept[p] > 0,
                    CallHolds(q) \/ LoginHolds(q) \/ kept[q] > 0
             PROVE  p = q
  BY DEF OneUser
<1>1. refs[p] > 0 /\ refs[q] > 0
  BY DEF IInv, Typed, LeaseAccounted, One
<1>2. QED
  BY <1>1 DEF IInv, Exclusive

\* Two processes never use the profile at the same time.
THEOREM OneUserAtATime == Spec => []OneUser
BY OneUserFromInvariant, LeaseInductive, PTL

\* What another process does without the lease leaves p's browser on the port:
\* clearing the port needs a call or a login that holds, and every kill is of
\* the process's own browser.
LEMMA PortKept ==
  ASSUME IInv, NEW p \in Proc, NEW r \in Proc \ {p}, obscura = <<p, "tool">>, CallHolds(p),
         CallStep(r) \/ LoginStep(r) \/ Environment(r)
  PROVE  obscura' = obscura
<1>1. ~ CallHolds(r) /\ ~ LoginHolds(r)
  BY OneUserFromInvariant DEF OneUser
<1>2. \A use : obscura # <<r, use>>
  OBVIOUS
<1>3. \A use : AfterKill(r, use) = {obscura}
  BY <1>2 DEF AfterKill
<1>4. obscura[1] # r
  OBVIOUS
<1>5. CASE CallStep(r)
  <2>1. CASE ClearPort(r) \/ Launch(r)
    BY <1>1, <2>1 DEF ClearPort, Launch, CallHolds
  <2>2. CASE AuthError(r) \/ StartFails(r)
    BY <1>3, <2>2 DEF AuthError, StartFails
  <2>3. CASE CloseStart(r, "call") \/ CloseEnd(r, "call") \/ NothingToClose(r, "call")
    BY <1>2, <1>3, <2>3 DEF CloseStart, CloseEnd, NothingToClose
  <2>4. CASE \/ TakeLease(r) \/ GiveUp(r) \/ GatePasses(r) \/ GateWaits(r) \/ CallFails(r)
             \/ Reuse(r) \/ Created(r) \/ ToolEnds(r) \/ CloseSession(r) \/ Finish(r)
    BY <2>4 DEF TakeLease, GiveUp, GatePasses, GateWaits, CallFails, Reuse, Created, ToolEnds,
                CloseSession, Finish
  <2>5. QED
    BY <1>5, <2>1, <2>2, <2>3, <2>4 DEF CallStep
<1>6. CASE LoginStep(r)
  <2>1. CASE LoginClearPort(r) \/ LoginLaunch(r) \/ LoginStartFails(r)
    BY <1>1, <2>1 DEF LoginClearPort, LoginLaunch, LoginStartFails, LoginHolds
  <2>2. CASE LoginCloses(r)
    BY <1>3, <2>2 DEF LoginCloses
  <2>3. CASE CloseStart(r, "login") \/ CloseEnd(r, "login") \/ NothingToClose(r, "login")
    BY <1>2, <1>3, <2>3 DEF CloseStart, CloseEnd, NothingToClose
  <2>4. CASE \/ Prepared(r) \/ Rotate(r) \/ RotateFails(r) \/ LoginSaves(r) \/ LoginFails(r)
             \/ Undo(r)
    BY <2>4 DEF Prepared, Rotate, RotateFails, LoginSaves, LoginFails, Undo
  <2>5. QED
    BY <1>6, <2>1, <2>2, <2>3, <2>4 DEF LoginStep
<1>7. CASE Environment(r)
  BY <1>4, <1>7 DEF Environment, StartCall, Shutdown, StartLogin, Die
<1>8. QED
  BY <1>5, <1>6, <1>7

\* Only the process that runs a call takes the browser from under it: whoever
\* clears the port first holds the lease.
THEOREM PageIsSafe == Spec => PageSafeFromOthers
<1>1. IInv /\ [Next]_vars =>
        [\A p \in Proc :
           obscura = <<p, "tool">> /\ obscura' # obscura /\ call[p] \in {"check", "tool"} =>
             \A q \in Proc \ {p} : UNCHANGED <<call[q], login[q]>>]_vars
  <2> SUFFICES ASSUME IInv, Next, NEW p \in Proc, obscura = <<p, "tool">>, obscura' # obscura,
                      call[p] \in {"check", "tool"}, NEW q \in Proc \ {p}
               PROVE  UNCHANGED <<call[q], login[q]>>
    OBVIOUS
  <2>1. PICK r \in Proc : CallStep(r) \/ LoginStep(r) \/ Environment(r)
    BY DEF Next
  <2>2. CallHolds(p)
    BY DEF CallHolds
  <2>3. r = p
    BY <2>1, <2>2, PortKept
  <2>4. Settles(p)
    BY <2>1, <2>3, CallSettles, LoginSettles, EnvironmentSettles
  <2>5. QED
    BY <2>4 DEF Settles, Elsewhere
<1>2. QED
  BY <1>1, LeaseInductive, PTL DEF Spec, PageSafeFromOthers

\* The references implement exclusive ownership of the profile: a process
\* becomes the owner only when there is none, and stops being it before
\* another can.
THEOREM BrowserImplements == Spec => OwnershipSpec
<1>1. Init => Ownership!Init
  BY DEF Init, Ownership!Init, Owners
<1>2. IInv /\ [Next]_vars => [Ownership!Next]_Owners
  <2> SUFFICES ASSUME IInv, [Next]_vars
               PROVE  Ownership!Next \/ Owners' = Owners
    OBVIOUS
  <2>1. CASE UNCHANGED vars
    BY <2>1 DEF vars, Owners
  <2>2. CASE Next
    <3>1. PICK p \in Proc : Settles(p)
      BY <2>2, StepSettles
    <3>2. CASE refs[p] = 0 /\ refs'[p] > 0
      <4>1. Owners = {} /\ Owners' = {p}
        BY <3>1, <3>2 DEF Settles, Elsewhere, Free, Owners
      <4>2. QED
        BY <4>1 DEF Ownership!Next, Ownership!Take
    <3>3. CASE refs[p] > 0 /\ refs'[p] = 0
      <4>1. Owners = {p} /\ Owners' = {}
        BY <3>1, <3>3 DEF Settles, Elsewhere, Owners, IInv, Exclusive
      <4>2. QED
        BY <4>1 DEF Ownership!Next, Ownership!Drop
    <3>4. CASE (refs[p] > 0) = (refs'[p] > 0)
      BY <3>1, <3>4 DEF Settles, Elsewhere, Owners
    <3>5. QED
      BY <3>1, <3>2, <3>3, <3>4 DEF Settles, Typed, IInv
  <2>3. QED
    BY <2>1, <2>2
<1>3. QED
  BY <1>1, <1>2, LeaseInductive, PTL DEF Spec, OwnershipSpec, Ownership!Spec
-----------------------------------------------------------------------------
\* What the references do not depend on: browsers, sessions and what is on disk.
DataTyped ==
  /\ browser \in [Proc -> BOOLEAN]
  /\ cookies \in [Proc -> Session]
  /\ flag \in [Proc -> BOOLEAN]
  /\ fresh \in [Proc -> Session]
  /\ retired \in [Proc -> Stored \union {None}]
  /\ obscura \in (Proc \X Use) \union {None}
  /\ store \in Stored
  /\ minted \in Session

\* The counters keep to their bounds: a queued call has still to be counted,
\* and a login past its preparation may still leave a reference behind.
Counted ==
  /\ inFlight \in [Proc -> 0..MaxCalls]
  /\ kept \in [Proc -> 0..MaxKept]
  /\ \A p \in Proc : /\ call[p] = "queued" => inFlight[p] < MaxCalls
                     /\ login[p] \notin {"none", "prepare"} => kept[p] < MaxKept

\* A browser loads a session there is, and a close leaves nothing or an orphan.
LEMMA LoadedTyped ==
  ASSUME DataTyped
  PROVE  /\ Loaded \subseteq Session
         /\ \A p \in Proc, use \in Use : AfterKill(p, use) \subseteq (Proc \X Use) \union {None}
         /\ Nothing \in Stored
<1>1. Loaded \subseteq Session
  <2>1. CASE HasSession(store.jar)
    BY <2>1 DEF DataTyped, Stored, HasSession, Loaded
  <2>2. CASE ~ HasSession(store.jar)
    BY <2>2 DEF Loaded
  <2>3. QED
    BY <2>1, <2>2
<1>2. Nothing \in Stored
  BY DEF Nothing, Stored
<1>3. QED
  BY <1>1, <1>2 DEF DataTyped, AfterKill, Use

\* What each part of a process does to the sessions and browsers.
LEMMA CallData ==
  ASSUME DataTyped, NEW p \in Proc, CallStep(p)
  PROVE  DataTyped'
<1>0. /\ Loaded \subseteq Session
      /\ \A use \in Use : AfterKill(p, use) \subseteq (Proc \X Use) \union {None}
      /\ Nothing \in Stored
  BY LoadedTyped
<1> USE DEF DataTyped, callVars, loginVars, singletonVars
<1>1. CASE \/ TakeLease(p) \/ GiveUp(p) \/ GatePasses(p) \/ CallFails(p) \/ Reuse(p)
           \/ ToolEnds(p) \/ CloseSession(p) \/ Finish(p)
  BY <1>1 DEF TakeLease, GiveUp, GatePasses, CallFails, Reuse, ToolEnds, CloseSession, Finish
<1>2. CASE GateWaits(p)
  BY <1>0, <1>2 DEF GateWaits
<1>3. CASE AuthError(p) \/ StartFails(p)
  BY <1>0, <1>3 DEF AuthError, StartFails, Use
<1>4. CASE ClearPort(p) \/ Created(p)
  BY <1>4 DEF ClearPort, Created
<1>5. CASE Launch(p)
  <2>1. PICK n \in Session : /\ cookies' = [cookies EXCEPT ![p] = n]
                             /\ minted' = IF n > minted THEN n ELSE minted
    BY <1>0, <1>5 DEF Launch
  <2>2. /\ cookies' \in [Proc -> Session] /\ minted' \in Session
        /\ obscura' \in (Proc \X Use) \union {None}
    BY <1>5, <2>1 DEF Launch, Use
  <2>3. store' \in Stored
    BY <1>5 DEF Launch, Stored
  <2>4. QED
    BY <1>5, <2>2, <2>3 DEF Launch
<1>6. CASE CloseStart(p, "call")
  BY <1>6 DEF CloseStart, Use, Stored
<1>7. CASE NothingToClose(p, "call")
  BY <1>0, <1>7 DEF NothingToClose, Closed, Relogin, StartRotating
<1>8. CASE CloseEnd(p, "call")
  BY <1>0, <1>8 DEF CloseEnd, Closed, Relogin, StartRotating, Use
<1>9. QED
  BY ONLY CallStep(p), <1>1, <1>2, <1>3, <1>4, <1>5, <1>6, <1>7, <1>8 DEF CallStep

LEMMA LoginData ==
  ASSUME DataTyped, NEW p \in Proc, LoginStep(p)
  PROVE  DataTyped'
<1>0. /\ Loaded \subseteq Session
      /\ \A use \in Use : AfterKill(p, use) \subseteq (Proc \X Use) \union {None}
      /\ Nothing \in Stored
  BY LoadedTyped
<1> USE DEF DataTyped, callVars, loginVars, singletonVars
<1>1. CASE Prepared(p) \/ RotateFails(p) \/ LoginFails(p) \/ LoginClearPort(p)
  BY <1>1 DEF Prepared, RotateFails, LoginFails, LoginClearPort
<1>2. CASE Rotate(p)
  BY <1>0, <1>2 DEF Rotate
<1>3. CASE LoginLaunch(p)
  <2>1. PICK n \in Session : /\ fresh' = [fresh EXCEPT ![p] = n]
                             /\ minted' = IF n > minted THEN n ELSE minted
    BY <1>0, <1>3 DEF LoginLaunch
  <2>2. /\ fresh' \in [Proc -> Session] /\ minted' \in Session
        /\ obscura' \in (Proc \X Use) \union {None}
    BY <1>3, <2>1 DEF LoginLaunch, Use
  <2>3. store' \in Stored
    BY <1>3 DEF LoginLaunch, Stored
  <2>4. QED
    BY <1>3, <2>2, <2>3 DEF LoginLaunch
<1>4. CASE LoginStartFails(p)
  BY <1>4 DEF LoginStartFails, Use
<1>5. CASE LoginSaves(p)
  BY <1>5 DEF LoginSaves, Stored
<1>6. CASE LoginCloses(p)
  BY <1>0, <1>6 DEF LoginCloses, Use
<1>7. CASE Undo(p)
  BY <1>7 DEF Undo
<1>8. CASE CloseStart(p, "login")
  BY <1>8 DEF CloseStart, Use, Stored
<1>9. CASE NothingToClose(p, "login")
  BY <1>0, <1>9 DEF NothingToClose, Closed, Relogin, StartRotating
<1>10. CASE CloseEnd(p, "login")
  BY <1>0, <1>10 DEF CloseEnd, Closed, Relogin, StartRotating, Use
<1>11. QED
  BY ONLY LoginStep(p), <1>1, <1>2, <1>3, <1>4, <1>5, <1>6, <1>7, <1>8, <1>9, <1>10
     DEF LoginStep

LEMMA EnvironmentData ==
  ASSUME DataTyped, NEW p \in Proc, Environment(p)
  PROVE  DataTyped'
<1> USE DEF DataTyped, callVars, loginVars, singletonVars
<1>1. CASE StartCall(p) \/ Shutdown(p) \/ StartLogin(p)
  BY <1>1 DEF StartCall, Shutdown, StartLogin
<1>2. CASE Die(p)
  BY <1>2, BrowserServerAssumption DEF Die, Session, Use
<1>3. QED
  BY <1>1, <1>2 DEF Environment

\* The call is counted when it takes the lease, once; the login's reference is
\* left behind by the step that ends the login.
LEMMA CallCounted ==
  ASSUME IInv, Counted, NEW p \in Proc, CallStep(p)
  PROVE  Counted'
<1> USE DEF Counted, IInv, Typed, callVars, loginVars, singletonVars, CallTo, LoginTo
<1>1. CASE TakeLease(p)
  <2>1. /\ inFlight' = [inFlight EXCEPT ![p] = @ + 1]
        /\ call' = [call EXCEPT ![p] = "gate"]
        /\ UNCHANGED <<login, kept>> /\ call[p] = "queued"
    BY <1>1 DEF TakeLease
  <2>2. inFlight' \in [Proc -> 0..MaxCalls]
    BY <2>1, BrowserServerAssumption
  <2>3. QED
    BY <2>1, <2>2
<1>2. CASE \/ GiveUp(p) \/ GatePasses(p) \/ CallFails(p) \/ Reuse(p) \/ Finish(p)
           \/ ToolEnds(p) \/ CloseSession(p)
  BY <1>2 DEF GiveUp, GatePasses, CallFails, Reuse, ToolEnds, CloseSession, Finish
<1>3. CASE GateWaits(p)
  BY <1>3 DEF GateWaits
<1>4. CASE AuthError(p) \/ StartFails(p) \/ ClearPort(p) \/ Created(p) \/ Launch(p)
  BY <1>4 DEF AuthError, StartFails, ClearPort, Created, Launch
<1>5. CASE CloseStart(p, "call")
  BY <1>5 DEF CloseStart
<1>6. CASE NothingToClose(p, "call")
  BY <1>6 DEF NothingToClose, Closing, Closed, Relogin
<1>7. CASE CloseEnd(p, "call")
  BY <1>7 DEF CloseEnd, Closed, Relogin
<1>8. QED
  BY ONLY CallStep(p), <1>1, <1>2, <1>3, <1>4, <1>5, <1>6, <1>7 DEF CallStep

LEMMA LoginCounted ==
  ASSUME IInv, Counted, NEW p \in Proc, LoginStep(p)
  PROVE  Counted'
<1> USE DEF Counted, IInv, Typed, callVars, loginVars, singletonVars, CallTo, LoginTo
<1>1. CASE Prepared(p)
  BY <1>1 DEF Prepared
<1>2. CASE Rotate(p) \/ RotateFails(p) \/ LoginClearPort(p) \/ LoginLaunch(p)
  BY <1>2 DEF Rotate, RotateFails, LoginClearPort, LoginLaunch
<1>3. CASE LoginStartFails(p)
  <2>1. /\ kept' = [kept EXCEPT ![p] = @ + 1]
        /\ login' = [login EXCEPT ![p] = "none"]
        /\ UNCHANGED <<call, inFlight>> /\ kept[p] < MaxKept
    BY <1>3 DEF LoginStartFails
  <2>2. kept' \in [Proc -> 0..MaxKept]
    BY <2>1, BrowserServerAssumption
  <2>3. QED
    BY <2>1, <2>2
<1>4. CASE LoginSaves(p) \/ LoginFails(p) \/ LoginCloses(p) \/ Undo(p)
  BY <1>4 DEF LoginSaves, LoginFails, LoginCloses, Undo
<1>5. CASE CloseStart(p, "login")
  BY <1>5 DEF CloseStart
<1>6. CASE NothingToClose(p, "login")
  BY <1>6 DEF NothingToClose, Closing, Closed, StartRotating
<1>7. CASE CloseEnd(p, "login")
  BY <1>7 DEF CloseEnd, Closed, StartRotating, CloserShape
<1>8. QED
  BY ONLY LoginStep(p), <1>1, <1>2, <1>3, <1>4, <1>5, <1>6, <1>7 DEF LoginStep

LEMMA EnvironmentCounted ==
  ASSUME IInv, Counted, NEW p \in Proc, Environment(p)
  PROVE  Counted'
<1> USE BrowserServerAssumption
        DEF Counted, IInv, Typed, callVars, loginVars, singletonVars, CallTo, LoginTo
<1>1. CASE StartCall(p) \/ Shutdown(p)
  BY <1>1 DEF StartCall, Shutdown
<1>2. CASE StartLogin(p)
  BY <1>2 DEF StartLogin
<1>3. CASE Die(p)
  BY <1>3 DEF Die
<1>4. QED
  BY <1>1, <1>2, <1>3 DEF Environment

\* Type correctness, the bounds of the counters with it: a call is counted
\* once, a login leaves at most one reference behind, and what is on disk, in a
\* browser or in the quarantine is a session that was minted or none.
THEOREM BrowserTypes == Spec => []TypeOK
<1> DEFINE TInv == DataTyped /\ Counted
<1>1. Init => TInv
  <2> SUFFICES ASSUME Init PROVE TInv
    OBVIOUS
  <2>1. Counted
    BY BrowserServerAssumption DEF Init, Counted
  <2>2. 0 \in Session /\ (MaxSessions > 0 => 1 \in Session)
    BY BrowserServerAssumption DEF Session
  <2>3. store \in Stored /\ minted \in Session
    <3>1. CASE store = Nothing /\ minted = 0
      BY <2>2, <3>1 DEF Stored, Nothing
    <3>2. CASE store = [profile |-> TRUE, state |-> TRUE, jar |-> 1] /\ minted = 1 /\ MaxSessions > 0
      BY <2>2, <3>2 DEF Stored
    <3>3. QED
      BY <3>1, <3>2 DEF Init
  <2>4. DataTyped
    BY <2>2, <2>3 DEF Init, DataTyped
  <2>5. QED
    BY <2>1, <2>4
<1>2. IInv /\ TInv /\ [Next]_vars => TInv'
  <2>1. ASSUME IInv, TInv, Next PROVE TInv'
    <3>1. PICK p \in Proc : CallStep(p) \/ LoginStep(p) \/ Environment(p)
      BY <2>1 DEF Next
    <3>2. QED
      BY <2>1, <3>1, CallData, LoginData, EnvironmentData,
         CallCounted, LoginCounted, EnvironmentCounted
  <2>2. ASSUME TInv, UNCHANGED vars PROVE TInv'
    BY <2>2 DEF DataTyped, Counted, vars, callVars, loginVars, singletonVars
  <2>3. QED
    BY <2>1, <2>2
<1>3. IInv /\ TInv => TypeOK
  BY DEF IInv, Typed, DataTyped, Counted, TypeOK
<1> HIDE DEF TInv
<1>4. QED
  BY <1>1, <1>2, <1>3, LeaseInductive, PTL DEF Spec
=============================================================================
