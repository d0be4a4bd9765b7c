------------------------- MODULE SessionStoreProofs -------------------------
(***************************************************************************)
(* Proofs about SessionStore: whatever fails, is refused, is cancelled or  *)
(* dies, a committed session stays whole in one place, a profile belongs   *)
(* to its metadata, a failed flow gives back what it found, and a logout   *)
(* that succeeds leaves nothing.                                           *)
(***************************************************************************)
EXTENDS SessionStore, TLAPS

-----------------------------------------------------------------------------
(***************************************************************************)
(* The inductive invariant.                                                *)
(***************************************************************************)

\* What a session cannot do without.
Core == {"profile", "cookies", "source"}

\* The steps in which pieces are between the active paths and a quarantine.
Transit == {"rotate", "undo", "back", "reretire"}

\* A flow past its rotation and not yet at its end.
Replacing == {"launch", "login", "exported", "closing", "stage", "validate", "verdict",
              "cleanup", "restore"}

Committing == {"closing", "cleanup", "restore", "done"}

\* What a flow is and what it has rotated fits where it is.
StageInv ==
  /\ pc = "idle" => kind = "login"
  /\ pc \in {"idle", "begin"} => ~ok
  /\ pc \in {"idle", "begin", "clear"} => retired = 0
  /\ pc \in Transit \union {"park", "restore"} => retired \in Boxes
  /\ kind = "logout" => pc \in {"begin", "clear", "done"}
  /\ pc = "clear" => kind = "logout"
  /\ ok /\ kind # "logout" => n \in committed

\* A rotation fills an empty quarantine, a restore empties it.
LoopInv ==
  /\ pc = "rotate" => /\ todo \intersect moved = {}
                      /\ \A a \in Piece \ moved : box[retired][a] = 0
  /\ pc = "park" => moved = {}
  /\ pc = "back" => todo = Present(box[retired]) /\ todo \intersect moved = {}

\* Sessions are numbered as they are tried, and no worker thread that lost its
\* flow extracts one that was, or may yet be, committed.
NumberInv ==
  /\ n <= used /\ committed \subseteq 1..used
  /\ \A p \in Proc : late[p] \subseteq 1..used /\ late[p] \intersect committed = {}
  /\ pc \notin Committing => n \notin committed
  /\ pc \in {"login", "exported", "stage", "validate", "verdict"} =>
       n # 0 /\ \A p \in Proc : n \notin late[p]

\* What is at the active paths while they are emptied and filled again.  Only
\* the cookies may be somebody else's, who writes without the lease, and the
\* profile a rejected candidate's, which could not be removed.
LiveInv ==
  /\ pc = "rotate" => \A a \in Piece \ (todo \union {"cookies"}) : live[a] = 0
  /\ pc = "launch" => live.profile = 0
  /\ pc \in {"stage", "validate"} => live.profile \in {0} \union strays
  /\ pc \in {"login", "exported"} => live.profile = n
  /\ pc = "verdict" => live.profile \in {n} \union strays
  /\ pc \in {"exported", "validate", "verdict"} =>
       live.cookies # 0 /\ (live.cookies = n \/ (n \in spoilt /\ live.cookies \in strays))
  /\ pc \in Replacing /\ n \notin committed => live.source = 0
  /\ pc \in Committing /\ n \in committed =>
       live.profile \in {n} \union strays /\ live.source = n /\ live.cookies # 0
  /\ pc = "park" => \A a \in Piece \ todo :
                      live[a] \notin committed /\ (a # "cookies" => live[a] = 0) /\ live[a] \in {0} \union strays

\* No profile and no cookies of t beside another session's metadata in u, but for
\* the strays; be it across the two places that a session moves between.
Agree(t, u) ==
  u.source # 0 => /\ t.profile \in {0, u.source} \union strays
                  /\ t.cookies \in {0, u.source} \union strays

PairInv ==
  /\ Agree(live, live)
  /\ \A b \in Boxes : Agree(box[b], box[b])
  /\ pc \in Transit => Agree(live, box[retired]) /\ Agree(box[retired], live)

\* Where a session is: whole in one place, or on its way between the active
\* paths and the flow's quarantine, the pieces of L still, or again, active.
At(store, s) == \A a \in Core : store[a] = s

Split(s, L) ==
  \A a \in Core : IF a \in L THEN live[a] = s /\ box[retired][a] # s
                             ELSE box[retired][a] = s /\ live[a] # s

Elsewhere(s) == \E b \in Boxes \ {retired} : At(box[b], s)

Whereabouts(s) ==
  \/ Elsewhere(s)
  \/ pc = "rotate" /\ Split(s, todo)
  \/ pc = "undo" /\ Split(s, Piece \ todo)
  \/ pc = "park" /\ At(box[retired], s)
  \/ pc = "back" /\ Split(s, moved)
  \/ pc = "reretire" /\ Split(s, todo)
  \/ /\ pc \notin Transit \union {"park"}
     /\ At(live, s) \/ (retired \in Boxes /\ At(box[retired], s))

WholeInv == \A s \in committed \ spoilt : Whereabouts(s)

\* A flow that nothing has disturbed knows where what it found is ...
CleanInv ==
  clean =>
    /\ pc \notin {"undo", "reretire"}
    /\ pc = "begin" => live = before
    /\ pc = "rotate" => \A a \in Piece : IF a \in todo THEN live[a] = before[a]
                                                       ELSE box[retired][a] = before[a]
    /\ pc \in Replacing \union {"park"} /\ retired # 0 => box[retired] = before
    /\ pc = "park" => \A a \in Piece \ todo : live[a] = 0
    /\ pc = "back" => \A a \in Piece : IF a \in todo THEN box[retired][a] = before[a]
                                                     ELSE live[a] = before[a]
    /\ pc = "done" /\ kind \in {"login", "import"} /\ retired # 0 /\ n \notin committed =>
         live = before

\* ... and a logout, what it has still to remove.
LogoutInv ==
  clean /\ ok /\ kind = "logout" /\ Present(before) \intersect Core # {} =>
    /\ \A a \in Piece : live[a] # 0 => pc = "clear" /\ a \in todo
    /\ \A b \in Boxes : /\ box[b] # Nothing => pc = "clear" /\ <<b, "box">> \in sweep
                        /\ debris[b] # Nothing => pc = "clear" /\ <<b, "debris">> \in sweep

IInv == TypeOK /\ StageInv /\ LoopInv /\ NumberInv /\ LiveInv /\ PairInv /\ WholeInv /\ CleanInv /\ LogoutInv

-----------------------------------------------------------------------------
(***************************************************************************)
(* Pieces and types.                                                       *)
(***************************************************************************)

\* The loops take the pieces in an order, so one of them comes first.
LEMMA FirstIn ==
  ASSUME NEW S \in SUBSET Piece, S # {}
  PROVE  First(S) \in S
<1>1. Order["profile"] = 1 /\ Order["cookies"] = 2 /\ Order["source"] = 3 /\ Order["runtime"] = 4
  BY DEF Order
<1>2. \A a \in S : a \in {"profile", "cookies", "source", "runtime"}
  BY DEF Piece
<1>3. \E a \in S : \A b \in S : Order[a] <= Order[b]
  BY <1>1, <1>2
<1>4. QED
  BY <1>3 DEF First

\* u is t with v as its piece a; y is x with v as piece a of the store at b.
Changed(t, u, a, v) == u \in Pieces /\ u[a] = v /\ \A c \in Piece \ {a} : u[c] = t[c]

BoxChanged(x, y, b, a, v) ==
  /\ y \in [Boxes -> Pieces]
  /\ Changed(x[b], y[b], a, v)
  /\ \A c \in Boxes \ {b} : y[c] = x[c]

\* That is what EXCEPT makes of a store, and of several.
LEMMA Updated ==
  ASSUME NEW t \in Pieces, NEW a \in Piece, NEW v \in {0} \union Session
  PROVE  Changed(t, [t EXCEPT ![a] = v], a, v)
BY DEF Pieces, Changed

LEMMA BoxUpdated ==
  ASSUME NEW x \in [Boxes -> Pieces], NEW b \in Boxes, NEW a \in Piece, NEW v \in {0} \union Session
  PROVE  BoxChanged(x, [x EXCEPT ![b][a] = v], b, a, v)
<1> DEFINE y == [x EXCEPT ![b][a] = v]
<1>1. y = [x EXCEPT ![b] = [x[b] EXCEPT ![a] = v]]
  OBVIOUS
<1>2. x[b] \in Pieces
  OBVIOUS
<1>3. Changed(x[b], [x[b] EXCEPT ![a] = v], a, v)
  BY <1>2, Updated
<1> HIDE DEF y
<1>4. y[b] = [x[b] EXCEPT ![a] = v] /\ (\A c \in Boxes \ {b} : y[c] = x[c]) /\ DOMAIN y = Boxes
  BY <1>1
<1>5. y \in [Boxes -> Pieces]
  BY <1>1, <1>3 DEF Changed
<1>6. BoxChanged(x, y, b, a, v)
  BY <1>3, <1>4, <1>5 DEF BoxChanged
<1>7. QED
  BY <1>6 DEF y

-----------------------------------------------------------------------------
(***************************************************************************)
(* What the steps do to the files.                                         *)
(***************************************************************************)

\* The types that a step on the files depends on.
FilesTyped == live \in Pieces /\ box \in [Boxes -> Pieces] /\ debris \in [Boxes -> Pieces]

\* A piece goes from the active paths into the flow's quarantine, or back.
ToBox(a) ==
  /\ Changed(live, live', a, 0) /\ BoxChanged(box, box', retired, a, live[a])
  /\ debris' = debris

ToLive(a) ==
  /\ Changed(live, live', a, box[retired][a]) /\ BoxChanged(box, box', retired, a, 0)
  /\ debris' = debris

\* A piece of the active paths is written or removed.
Writes(a, v) == Changed(live, live', a, v) /\ box' = box /\ debris' = debris

LEMMA ValueIn ==
  ASSUME FilesTyped, NEW a \in Piece
  PROVE  /\ live[a] \in {0} \union Session
         /\ \A b \in Boxes : box[b] \in Pieces /\ box[b][a] \in {0} \union Session
         /\ \A b \in Boxes : debris[b] \in Pieces /\ debris[b][a] \in {0} \union Session
         /\ 0 \in {0} \union Session
BY DEF FilesTyped, Pieces

\* The steps of a rotation and of the undoing of a restore.
LEMMA ToBoxEffect ==
  ASSUME FilesTyped, retired \in Boxes, todo \in SUBSET Piece, RotateMove \/ Reretire
  PROVE  \E a \in todo : /\ ToBox(a) /\ todo' = todo \ {a}
                         /\ RotateMove => moved' = moved \union {a}
<1>1. ASSUME NEW a \in todo, live' = [live EXCEPT ![a] = 0],
             box' = [box EXCEPT ![retired][a] = live[a]], debris' = debris
      PROVE  ToBox(a)
  BY <1>1, Updated, BoxUpdated, ValueIn DEF ToBox, FilesTyped
<1>2. CASE RotateMove
  BY <1>1, <1>2, FirstIn DEF RotateMove
<1>3. CASE Reretire
  BY <1>1, <1>3 DEF Reretire, RotateMove
<1>4. QED
  BY <1>2, <1>3

\* The steps of a restore and of the undoing of a rotation.
LEMMA ToLiveEffect ==
  ASSUME FilesTyped, retired \in Boxes, todo \in SUBSET Piece, Undo \/ PutBack
  PROVE  \E a \in todo : /\ ToLive(a) /\ todo' = todo \ {a}
                         /\ PutBack => moved' = moved \union {a}
<1>1. ASSUME NEW a \in todo, live' = [live EXCEPT ![a] = box[retired][a]],
             box' = [box EXCEPT ![retired][a] = 0], debris' = debris
      PROVE  ToLive(a)
  BY <1>1, Updated, BoxUpdated, ValueIn DEF ToLive, FilesTyped
<1>2. CASE Undo
  BY <1>1, <1>2, FirstIn DEF Undo, PutBack
<1>3. CASE PutBack
  BY <1>1, <1>3 DEF PutBack
<1>4. QED
  BY <1>2, <1>3

\* What a failed flow left is moved beside the quarantine.
LEMMA ParkEffect ==
  ASSUME FilesTyped, retired \in Boxes, todo \in SUBSET Piece, Park
  PROVE  \E a \in todo : /\ Changed(live, live', a, 0) /\ box' = box
                         /\ debris' \in [Boxes -> Pieces]
                         /\ todo' = todo \ {a}
<1> DEFINE a == First(todo)
<1>1. a \in todo /\ a \in Piece
  BY FirstIn DEF Park
<1>2. Changed(live, live', a, 0)
  BY <1>1, Updated, ValueIn DEF Park, FilesTyped
<1>3. debris' \in [Boxes -> Pieces]
  <2>1. CASE live[a] = 0
    BY <2>1 DEF Park, FilesTyped
  <2>2. CASE live[a] # 0
    BY <1>1, <2>2, BoxUpdated, ValueIn DEF Park, FilesTyped, BoxChanged
  <2>3. QED
    BY <2>1, <2>2
<1>4. QED
  BY <1>1, <1>2, <1>3 DEF Park

\* A cookie file is written: by the flow, or by somebody without the lease.
LEMMA CookiesEffect ==
  ASSUME FilesTyped, NEW s \in {0} \union Session, live' = [live EXCEPT !.cookies = s],
         box' = box, debris' = debris
  PROVE  Writes("cookies", s)
BY Updated DEF Writes, FilesTyped, Piece

\* A flow's browser starts the profile, where there is none.
LEMMA LaunchEffect ==
  ASSUME FilesTyped, NEW s \in Session, live' = Launched(s), live.profile = 0, box' = box, debris' = debris
  PROVE  Writes("profile", s)
BY Updated DEF Writes, FilesTyped, Piece, Launched

\* The flow writes the source state.
LEMMA CommitEffect ==
  ASSUME FilesTyped, n \in Session, Commits, box' = box, debris' = debris
  PROVE  Writes("source", n) /\ committed' = committed \union {n}
BY Updated DEF Writes, FilesTyped, Piece, Commits

-----------------------------------------------------------------------------
(***************************************************************************)
(* Types.                                                                  *)
(***************************************************************************)

LoopTyped ==
  /\ retired \in {0} \union Boxes /\ todo \subseteq Piece /\ moved \subseteq Piece
  /\ sweep \subseteq Boxes \X {"box", "debris"}

NumberTyped ==
  /\ n \in {0} \union Session /\ used \in {0} \union Session
  /\ late \in [Proc -> SUBSET Session]
  /\ committed \subseteq Session /\ spoilt \subseteq Session /\ strays \subseteq Session

RestTyped ==
  /\ before \in Pieces
  /\ holder \in Proc \union {None}
  /\ pc \in Pc /\ kind \in {"login", "import", "retire", "logout"}
  /\ leaked \in BOOLEAN /\ open \in BOOLEAN /\ running \in BOOLEAN
  /\ ok \in BOOLEAN /\ cancelled \in BOOLEAN /\ clean \in BOOLEAN
  /\ faults \in 0..MaxFaults /\ deaths \in 0..MaxDeaths

LEMMA TypeParts == TypeOK <=> FilesTyped /\ LoopTyped /\ NumberTyped /\ RestTyped
BY DEF TypeOK, FilesTyped, LoopTyped, NumberTyped, RestTyped

LEMMA NothingIn == Nothing \in Pieces /\ \A a \in Piece : Nothing[a] = 0
BY DEF Nothing, Pieces

LEMMA InitTypeOK == Init => TypeOK
<1> SUFFICES ASSUME Init PROVE TypeOK
  OBVIOUS
<1>0. 1 \in Session /\ 0 \in 0..MaxFaults /\ 0 \in 0..MaxDeaths
  BY SessionStoreAssumption DEF Session
<1>1. FilesTyped
  BY <1>0, NothingIn DEF Init, FilesTyped, Whole, Pieces
<1>2. LoopTyped
  BY DEF Init, LoopTyped
<1>3. NumberTyped
  BY <1>0 DEF Init, NumberTyped
<1>4. RestTyped
  BY <1>0, NothingIn DEF Init, RestTyped, Pc
<1>5. QED
  BY <1>1, <1>2, <1>3, <1>4, TypeParts

\* The sessions that are written are numbered.
LEMMA Numbered ==
  ASSUME NumberTyped, NEW s, s = used + 1, used < MaxSessions
  PROVE  s \in Session
BY SessionStoreAssumption DEF NumberTyped, Session

LEMMA StepFilesTyped ==
  ASSUME IInv, [Next]_vars
  PROVE  FilesTyped'
<1>0. FilesTyped /\ NumberTyped /\ LoopTyped /\ todo \in SUBSET Piece
  BY TypeParts DEF IInv, LoopTyped
<1>1. ASSUME NEW a \in Piece, NEW v, Writes(a, v) PROVE FilesTyped'
  BY <1>0, <1>1 DEF Writes, Changed, FilesTyped
<1>2. CASE UNCHANGED files
  BY <1>0, <1>2 DEF files, FilesTyped
<1>3. CASE RotateMove \/ Reretire
  <2>1. retired \in Boxes
    BY <1>3 DEF IInv, StageInv, Transit, RotateMove, Reretire
  <2>2. QED
    BY <1>0, <1>3, <2>1, ToBoxEffect DEF ToBox, Changed, BoxChanged, FilesTyped
<1>4. CASE Undo \/ PutBack
  <2>1. retired \in Boxes
    BY <1>4 DEF IInv, StageInv, Transit, Undo, PutBack
  <2>2. QED
    BY <1>0, <1>4, <2>1, ToLiveEffect DEF ToLive, Changed, BoxChanged, FilesTyped
<1>5. CASE Park
  <2>1. retired \in Boxes
    BY <1>5 DEF IInv, StageInv, Park
  <2>2. QED
    BY <1>0, <1>5, <2>1, ParkEffect DEF Changed, FilesTyped
<1>6. CASE LoginLaunch \/ LoginLaunchFails \/ Validate
  <2>1. LoginLaunch \/ LoginLaunchFails => live.profile = 0
    BY <1>6 DEF IInv, LiveInv, LoginLaunch, LoginLaunchFails
  <2>2. CASE LoginLaunch
    BY <1>0, <1>1, <2>1, <2>2, LaunchEffect, Numbered DEF LoginLaunch, Attempt, Piece
  <2>3. CASE LoginLaunchFails
    BY <1>0, <1>1, <1>2, <2>1, <2>3, LaunchEffect, Numbered DEF LoginLaunchFails, Piece, files
  <2>4. CASE Validate
    <3>1. n \in Session
      BY <1>0, <2>4 DEF IInv, NumberInv, Validate, NumberTyped
    <3>2. CASE live.profile = 0
      BY <1>0, <1>1, <2>4, <3>1, <3>2, LaunchEffect DEF Validate, Piece
    <3>3. CASE live.profile # 0
      BY <1>2, <2>4, <3>3 DEF Validate, Launched, files
    <3>4. QED
      BY <3>2, <3>3
  <2>5. QED
    BY <1>6, <2>2, <2>3, <2>4
<1>7. CASE LoginExport \/ StageUsable
  BY <1>0, <1>1, <1>7, CookiesEffect DEF LoginExport, StageUsable, NumberTyped, Piece
<1>8. CASE LoginCommit \/ Accepted
  <2>1. n \in Session
    BY <1>0, <1>8 DEF IInv, NumberInv, LoginCommit, Accepted, NumberTyped
  <2>2. QED
    BY <1>0, <1>1, <1>8, <2>1, CommitEffect DEF LoginCommit, Accepted, Piece
<1>9. CASE Rejected
  <2>1. [live EXCEPT !.cookies = 0] \in Pieces
    BY <1>0 DEF FilesTyped, Pieces, Piece
  <2>2. [live EXCEPT !.cookies = 0, !.profile = 0] \in Pieces
    BY <1>0 DEF FilesTyped, Pieces, Piece
  <2>3. QED
    BY <1>0, <1>9, <2>1, <2>2 DEF Rejected, FilesTyped
<1>10. CASE ClearPiece
  <2>1. First(todo) \in Piece
    BY <1>0, <1>10, FirstIn DEF ClearPiece
  <2>2. QED
    BY <1>0, <1>10, <2>1, Updated DEF ClearPiece, FilesTyped, Changed
<1>11. CASE ClearQuarantine
  BY <1>0, <1>11, NothingIn DEF ClearQuarantine, FilesTyped
<1>12. ASSUME NEW p \in Proc, LateStage(p) \/ ImportSession(p) PROVE FilesTyped'
  BY <1>0, <1>1, <1>2, <1>12, CookiesEffect, Numbered
     DEF LateStage, ImportSession, Overwrites, NumberTyped, Piece, files
<1>13. QED
  <2>1. CASE Rotation
    BY <1>2, <1>3, <1>4, <2>1
       DEF Rotation, RotateBegin, Refused, NothingToRotate, RotateFails, Rotated, UndoFails, Undone
  <2>2. CASE Login
    BY <1>2, <1>6, <1>7, <1>8, <2>2 DEF Login, LoginFails, LoginCloses
  <2>3. CASE Import
    BY <1>2, <1>6, <1>7, <1>8, <1>9, <2>3
       DEF Import, ImportOpens, StageUnusable, ValidateFails, ValidateUnconfirmed
  <2>4. CASE Restore
    BY <1>2, <1>3, <1>4, <1>5, <2>4
       DEF Restore, RestoreDeclined, RestoreBegin, ParkFails, Parked, PutBackFails, Restored,
           ReretireFails, Reretired
  <2>5. CASE Clear
    BY <1>2, <1>10, <1>11, <2>5 DEF Clear, ClearBegin, Cleared
  <2>6. CASE Cancel \/ Cleanup \/ Release
    BY <1>2, <2>6 DEF Cancel, Cleanup, Release
  <2>7. ASSUME NEW p \in Proc, (\E k \in Kinds[p] : Start(p, k)) \/ LogoutFindsNothing(p) \/ Crash(p)
        PROVE FilesTyped'
    BY <1>2, <2>7 DEF Start, LogoutFindsNothing, Crash
  <2>8. CASE UNCHANGED vars
    BY <1>2, <2>8 DEF vars
  <2>9. QED
    BY <1>12, <2>1, <2>2, <2>3, <2>4, <2>5, <2>6, <2>7, <2>8 DEF Next

LEMMA StepLoopTyped ==
  ASSUME IInv, [Next]_vars
  PROVE  LoopTyped'
<1>0. LoopTyped /\ FilesTyped /\ todo \in SUBSET Piece
  BY TypeParts DEF IInv, LoopTyped
<1>1. CASE UNCHANGED <<retired, loopVars, sweep>>
  BY <1>0, <1>1 DEF loopVars, LoopTyped
<1>2. CASE RotateBegin
  BY <1>0, <1>2 DEF RotateBegin, LoopTyped, Present
<1>3. CASE RotateMove \/ Reretire
  <2>1. retired \in Boxes
    BY <1>3 DEF IInv, StageInv, Transit, RotateMove, Reretire
  <2>2. QED
    BY <1>0, <1>3, <2>1, ToBoxEffect DEF LoopTyped, RotateMove, Reretire
<1>4. CASE Undo \/ PutBack
  <2>1. retired \in Boxes
    BY <1>4 DEF IInv, StageInv, Transit, Undo, PutBack
  <2>2. QED
    BY <1>0, <1>4, <2>1, ToLiveEffect DEF LoopTyped, Undo, PutBack
<1>5. CASE RotateFails \/ UndoFails \/ Park \/ PutBackFails \/ ReretireFails \/ ClearPiece
  BY <1>0, <1>5 DEF RotateFails, UndoFails, Park, PutBackFails, ReretireFails, ClearPiece, LoopTyped, loopVars
<1>6. CASE Rotated \/ RestoreBegin \/ Parked
  BY <1>0, <1>6 DEF Rotated, RestoreBegin, Parked, Ends, LoopTyped, Present, loopVars
<1>7. CASE ClearBegin
  BY <1>0, <1>7 DEF ClearBegin, LoopTyped, Quarantines
<1>8. CASE ClearQuarantine
  BY <1>0, <1>8 DEF ClearQuarantine, LoopTyped, loopVars
<1>9. CASE Reset
  BY <1>9 DEF Reset, LoopTyped
<1>10. QED
  <2>1. CASE Rotation
    BY <1>1, <1>2, <1>3, <1>4, <1>5, <1>6, <2>1
       DEF Rotation, Refused, NothingToRotate, Undone, Ends
  <2>2. CASE Login
    BY <1>1, <2>2
       DEF Login, LoginLaunch, LoginLaunchFails, LoginExport, LoginFails, LoginCommit, LoginCloses, Unconfirmed, Ends
  <2>3. CASE Import
    BY <1>1, <2>3
       DEF Import, ImportOpens, StageUsable, StageUnusable, Validate, Accepted, Rejected, ValidateFails,
           ValidateUnconfirmed, Unconfirmed, Ends
  <2>4. CASE Restore
    BY <1>1, <1>3, <1>4, <1>5, <1>6, <2>4 DEF Restore, RestoreDeclined, ParkFails, Restored, Reretired, Ends
  <2>5. CASE Clear
    BY <1>1, <1>5, <1>7, <1>8, <2>5 DEF Clear, Cleared, Ends
  <2>6. CASE Cancel \/ Cleanup \/ Release
    BY <1>1, <1>9, <2>6 DEF Cancel, Cleanup, Release, Ends
  <2>7. ASSUME NEW p \in Proc, \/ \E k \in Kinds[p] : Start(p, k)
                               \/ LogoutFindsNothing(p) \/ LateStage(p) \/ ImportSession(p) \/ Crash(p)
        PROVE  LoopTyped'
    BY <1>1, <1>9, <2>7 DEF Start, LogoutFindsNothing, LateStage, ImportSession, Crash
  <2>8. CASE UNCHANGED vars
    BY <1>1, <2>8 DEF vars
  <2>9. QED
    BY <2>1, <2>2, <2>3, <2>4, <2>5, <2>6, <2>7, <2>8 DEF Next

\* Pieces carry sessions, so what is spoilt are sessions.
LEMMA SpoiltTyped ==
  ASSUME FilesTyped, NumberTyped, NEW t \in Pieces, NEW a \in Piece
  PROVE  /\ spoilt \union ({t[a]} \ {0}) \subseteq Session
         /\ spoilt \union ({t[b] : b \in Piece} \ {0}) \subseteq Session
         /\ spoilt \union Parted \subseteq Session
<1>1. \A b \in Piece : t[b] \in {0} \union Session
  BY DEF Pieces
<1>2. Parted \subseteq Session
  BY DEF Parted
<1>3. QED
  BY <1>1, <1>2 DEF NumberTyped

LEMMA StepNumberTyped ==
  ASSUME IInv, [Next]_vars
  PROVE  NumberTyped'
<1>0. FilesTyped /\ NumberTyped /\ LoopTyped /\ todo \in SUBSET Piece /\ live \in Pieces
  BY TypeParts DEF IInv, LoopTyped, FilesTyped
<1>1. CASE UNCHANGED <<n, late, used, committed, spoilt, strays>>
  BY <1>0, <1>1 DEF NumberTyped
<1>2. CASE UNCHANGED <<late, committed, spoilt>> /\ strays' \subseteq Session /\ Attempt
  BY <1>0, <1>2, Numbered DEF NumberTyped, Attempt
<1>3. CASE LoginLaunchFails
  BY <1>0, <1>3, Numbered DEF LoginLaunchFails, Unconfirmed, Ends, NumberTyped
<1>4. CASE LoginCommit \/ Accepted
  <2>1. n \in Session
    BY <1>0, <1>4 DEF IInv, NumberInv, LoginCommit, Accepted, NumberTyped
  <2>2. QED
    BY <1>0, <1>4, <2>1 DEF LoginCommit, Accepted, Commits, NumberTyped, outside
<1>11. CASE Rejected
  <2>1. live.profile \in Session
    BY <1>0, <1>11 DEF Rejected, IInv, LiveInv, NumberInv, NumberTyped
  <2>2. strays' \subseteq Session /\ UNCHANGED <<late, committed, spoilt>>
    BY <1>0, <1>11, <2>1 DEF Rejected, NumberTyped, history
  <2>3. Attempt \/ UNCHANGED <<n, used>>
    BY <1>11 DEF Rejected, NextCandidate
  <2>4. QED
    BY <1>0, <1>2, <2>2, <2>3 DEF NumberTyped
<1>5. CASE Cancel
  <2>1. pc = "stage" => n \in Session
    BY <1>0 DEF IInv, NumberInv, NumberTyped
  <2>2. late' \in [Proc -> SUBSET Session]
    BY <1>0, <1>5, <2>1 DEF Cancel, NumberTyped
  <2>3. QED
    BY <1>0, <1>5, <2>2 DEF Cancel, NumberTyped, history
<1>6. CASE UndoFails \/ ReretireFails \/ ClearPiece \/ ClearQuarantine
  <2>1. UNCHANGED <<n, late, used, committed, strays>>
    BY <1>6 DEF UndoFails, ReretireFails, ClearPiece, ClearQuarantine, outside
  <2>2. spoilt' \subseteq Session
    <3>1. CASE UndoFails
      <4>1. First(todo) \in Piece /\ box[retired] \in Pieces
        BY <1>0, <3>1, FirstIn DEF UndoFails, IInv, StageInv, Transit, FilesTyped
      <4>2. QED
        BY <1>0, <3>1, <4>1, SpoiltTyped DEF UndoFails
    <3>2. CASE ReretireFails
      BY <1>0, <3>2, SpoiltTyped DEF ReretireFails
    <3>3. CASE ClearPiece
      <4>1. First(todo) \in Piece
        BY <1>0, <3>3, FirstIn DEF ClearPiece
      <4>2. QED
        BY <1>0, <3>3, <4>1, SpoiltTyped DEF ClearPiece, NumberTyped
    <3>4. CASE ClearQuarantine
      <4>1. PICK q \in sweep :
              \/ spoilt' = spoilt \union ({(IF q[2] = "box" THEN box[q[1]] ELSE debris[q[1]])[a] : a \in Piece} \ {0})
              \/ spoilt' = spoilt
        BY <3>4 DEF ClearQuarantine
      <4>2. box[q[1]] \in Pieces /\ debris[q[1]] \in Pieces
        BY <1>0 DEF LoopTyped, FilesTyped
      <4>3. "profile" \in Piece
        BY DEF Piece
      <4>4. (IF q[2] = "box" THEN box[q[1]] ELSE debris[q[1]]) \in Pieces
        BY <4>2
      <4>5. QED
        BY <1>0, <4>1, <4>3, <4>4, SpoiltTyped DEF NumberTyped
    <3>5. QED
      BY <1>6, <3>1, <3>2, <3>3, <3>4
  <2>3. QED
    BY <1>0, <2>1, <2>2 DEF NumberTyped
<1>7. CASE Release
  BY <1>0, <1>7 DEF Release, Reset, outside, NumberTyped
<1>8. ASSUME NEW p \in Proc, LateStage(p) \/ ImportSession(p) PROVE NumberTyped'
  <2>1. spoilt' \subseteq Session
    <3>1. live.cookies \in {0} \union Session
      BY <1>0, ValueIn DEF Piece
    <3>2. QED
      BY <1>0, <1>8, <3>1 DEF LateStage, ImportSession, Overwrites, NumberTyped
  <2>2. CASE LateStage(p)
    BY <1>0, <2>1, <2>2 DEF LateStage, Overwrites, NumberTyped
  <2>3. CASE ImportSession(p)
    BY <1>0, <2>1, <2>3, Numbered DEF ImportSession, Overwrites, NumberTyped
  <2>4. QED
    BY <1>8, <2>2, <2>3
<1>9. ASSUME NEW p \in Proc, Crash(p) PROVE NumberTyped'
  <2>1. spoilt' \subseteq Session
    BY <1>0, <1>9, SpoiltTyped DEF Crash, NumberTyped, Piece
  <2>2. QED
    BY <1>0, <1>9, <2>1 DEF Crash, Reset, NumberTyped
<1>10. QED
  <2>1. CASE Rotation
    BY <1>1, <1>6, <2>1
       DEF Rotation, RotateBegin, Refused, NothingToRotate, RotateMove, RotateFails, Rotated, Undo, Undone,
           Ends, outside, history
  <2>2. CASE Login
    BY <1>0, <1>1, <1>2, <1>3, <1>4, <2>2
       DEF Login, LoginLaunch, LoginExport, LoginFails, LoginCloses, outside, history, NumberTyped
  <2>3. CASE Import
    BY <1>0, <1>1, <1>2, <1>4, <1>11, <2>3
       DEF Import, ImportOpens, StageUsable, StageUnusable, Validate, ValidateFails,
           ValidateUnconfirmed, NextCandidate, Unconfirmed, Ends, outside, history, NumberTyped
  <2>4. CASE Restore
    BY <1>1, <1>6, <2>4
       DEF Restore, RestoreDeclined, RestoreBegin, Park, ParkFails, Parked, PutBack, PutBackFails, Restored,
           Reretire, Reretired, Ends, outside, history
  <2>5. CASE Clear
    BY <1>1, <1>6, <2>5 DEF Clear, ClearBegin, Cleared, Ends, outside, history
  <2>6. CASE Cleanup
    BY <1>1, <2>6 DEF Cleanup, Ends, outside, history
  <2>7. ASSUME NEW p \in Proc, (\E k \in Kinds[p] : Start(p, k)) \/ LogoutFindsNothing(p) PROVE NumberTyped'
    BY <1>1, <2>7 DEF Start, LogoutFindsNothing, outside
  <2>8. CASE UNCHANGED vars
    BY <1>1, <2>8 DEF vars, outside, history
  <2>9. QED
    BY <1>5, <1>7, <1>8, <1>9, <2>1, <2>2, <2>3, <2>4, <2>5, <2>6, <2>7, <2>8 DEF Next

\* Failures are counted.
LEMMA FaultTyped ==
  ASSUME RestTyped, Fault
  PROVE  faults' \in 0..MaxFaults /\ clean' \in BOOLEAN
<1>1. faults \in 0..MaxFaults /\ faults < MaxFaults /\ faults' = faults + 1 /\ clean' = FALSE
  BY DEF RestTyped, Fault
<1>2. faults' \in 0..MaxFaults
  BY <1>1, SessionStoreAssumption
<1>3. QED
  BY <1>1, <1>2

LEMMA StepRestTyped ==
  ASSUME IInv, [Next]_vars
  PROVE  RestTyped'
<1>0. RestTyped /\ FilesTyped
  BY TypeParts DEF IInv
<1>1. CASE Rotation
  <2>1. CASE RotateBegin \/ RotateMove \/ Undo
    BY <1>0, <2>1 DEF RotateBegin, RotateMove, Undo, RestTyped, Pc, Moving, leaseVars, browser, outside, history
  <2>2. CASE Refused \/ NothingToRotate \/ Rotated \/ Undone
    BY ZenonT(60), <1>0, <2>2
       DEF Refused, NothingToRotate, Rotated, Undone, Ends, RestTyped, Pc, leaseVars, browser, outside, history
  <2>3. CASE RotateFails \/ UndoFails
    BY <1>0, <2>3, FaultTyped DEF RotateFails, UndoFails, RestTyped, Pc, Moving, leaseVars, browser, outside
  <2>4. QED
    BY <1>1, <2>1, <2>2, <2>3 DEF Rotation
<1>2. CASE Login
  <2>1. CASE LoginCloses
    <3>1. (n \in committed) \in BOOLEAN
      OBVIOUS
    <3>2. ok' \in BOOLEAN /\ UNCHANGED <<before, holder, kind, leaked, open, cancelled, clean, faults, deaths>>
      BY <2>1, <3>1 DEF LoginCloses, leaseVars, outside, history
    <3>3. QED
      BY <1>0, <2>1, <3>2 DEF LoginCloses, RestTyped, Pc
  <2>2. QED
    BY ZenonT(60), <1>0, <1>2, <2>1
       DEF Login, LoginLaunch, LoginLaunchFails, LoginExport, LoginFails, LoginCommit,
           Unconfirmed, Ends, RestTyped, Pc, leaseVars, browser, outside, history
<1>3. CASE Import
  <2>1. CASE ImportOpens \/ StageUsable \/ Validate
    BY ZenonT(60), <1>0, <2>1
       DEF ImportOpens, StageUsable, Validate, RestTyped, Pc, leaseVars, browser, outside, history
  <2>2. CASE Accepted \/ ValidateFails \/ ValidateUnconfirmed
    BY <1>0, <2>2
       DEF Accepted, ValidateFails, ValidateUnconfirmed, Unconfirmed, Ends, RestTyped, Pc,
           leaseVars, browser, outside, history
  <2>3. CASE StageUnusable
    BY <1>0, <2>3 DEF StageUnusable, NextCandidate, RestTyped, Pc, leaseVars, browser, outside, history
  <2>4. CASE Rejected
    <3>1. faults' \in 0..MaxFaults
      BY <1>0, <2>4, SessionStoreAssumption DEF Rejected, RestTyped
    <3>2. /\ UNCHANGED <<before, holder, kind, leaked, open, ok, cancelled, clean, deaths>>
          /\ running' \in BOOLEAN /\ pc' \in {"stage", "cleanup"}
      BY <2>4 DEF Rejected, NextCandidate, leaseVars, history
    <3>3. QED
      BY <1>0, <3>1, <3>2 DEF RestTyped, Pc
  <2>5. QED
    BY <1>3, <2>1, <2>2, <2>3, <2>4 DEF Import
<1>4. CASE Restore
  <2>1. CASE RestoreBegin \/ Park \/ Parked \/ PutBack \/ Reretire
    BY <1>0, <2>1
       DEF RestoreBegin, Park, Parked, PutBack, Reretire, RestTyped, Pc, Moving, leaseVars, browser, outside, history
  <2>2. CASE RestoreDeclined \/ Restored \/ Reretired
    BY <1>0, <2>2
       DEF RestoreDeclined, Restored, Reretired, Ends, RestTyped, Pc, leaseVars, browser, outside, history
  <2>3. CASE ParkFails \/ PutBackFails \/ ReretireFails
    BY <1>0, <2>3, FaultTyped
       DEF ParkFails, PutBackFails, ReretireFails, Ends, RestTyped, Pc, Moving, leaseVars, browser, outside
  <2>4. QED
    BY <1>4, <2>1, <2>2, <2>3 DEF Restore
<1>5. CASE Clear
  <2>1. CASE ClearBegin \/ Cleared
    BY ZenonT(60), <1>0, <2>1
       DEF ClearBegin, Cleared, Ends, RestTyped, Pc, Moving, leaseVars, browser, outside, history
  <2>2. CASE ClearPiece \/ ClearQuarantine
    <3>1. /\ UNCHANGED <<before, holder, pc, kind, leaked, open, running, cancelled, deaths>>
          /\ (Fault /\ ok' = FALSE) \/ UNCHANGED <<ok, faults, clean>>
      BY <2>2 DEF ClearPiece, ClearQuarantine, leaseVars, browser, outside
    <3>2. QED
      BY <1>0, <3>1, FaultTyped DEF RestTyped
  <2>3. QED
    BY <1>5, <2>1, <2>2 DEF Clear
<1>6. CASE Cancel \/ Cleanup \/ Release
  BY ZenonT(60), <1>0, <1>6, NothingIn
     DEF Cancel, Cleanup, Release, Ends, Reset, RestTyped, Pc, leaseVars, browser, outside, history
<1>7. ASSUME NEW p \in Proc, NEW k \in Kinds[p], Start(p, k) PROVE RestTyped'
  <2>1. k \in {"login", "import", "retire", "logout"}
    BY <1>7, SessionStoreAssumption DEF Start
  <2>2. QED
    BY <1>0, <1>7, <2>1 DEF Start, RestTyped, FilesTyped, Pc, browser, outside
<1>12. ASSUME NEW p \in Proc, LogoutFindsNothing(p) PROVE RestTyped'
  <2>1. pc' \in Pc /\ kind' \in {"login", "import", "retire", "logout"}
    BY <1>12 DEF LogoutFindsNothing, Pc
  <2>2. before' \in Pieces /\ clean' \in BOOLEAN /\ ok' \in BOOLEAN
    BY <1>0, <1>12 DEF LogoutFindsNothing, FilesTyped
  <2>3. UNCHANGED <<holder, leaked, open, running, cancelled, faults, deaths>>
    BY <1>12 DEF LogoutFindsNothing, leaseVars, browser, outside
  <2>4. QED
    BY <1>0, <2>1, <2>2, <2>3 DEF RestTyped
<1>8. ASSUME NEW p \in Proc, LateStage(p) \/ ImportSession(p) PROVE RestTyped'
  BY <1>0, <1>8 DEF LateStage, ImportSession, Overwrites, RestTyped, leaseVars, browser
<1>9. ASSUME NEW p \in Proc, Crash(p) PROVE RestTyped'
  <2>1. deaths' \in 0..MaxDeaths /\ faults' = faults
    BY <1>0, <1>9, SessionStoreAssumption DEF Crash, RestTyped
  <2>2. CASE holder = p
    BY <1>0, <1>9, <2>1, <2>2, NothingIn DEF Crash, Reset, RestTyped, Pc
  <2>3. CASE holder # p
    BY <1>0, <1>9, <2>1, <2>3 DEF Crash, RestTyped, leaseVars, browser
  <2>4. QED
    BY <2>2, <2>3
<1>10. CASE UNCHANGED vars
  BY <1>0, <1>10 DEF vars, leaseVars, browser, outside, history, RestTyped
<1>11. QED
  BY <1>1, <1>2, <1>3, <1>4, <1>5, <1>6, <1>7, <1>8, <1>9, <1>10, <1>12 DEF Next

LEMMA StepTypeOK ==
  ASSUME IInv, [Next]_vars
  PROVE  TypeOK'
<1>1. FilesTyped' /\ LoopTyped' /\ NumberTyped' /\ RestTyped'
  BY StepFilesTyped, StepLoopTyped, StepNumberTyped, StepRestTyped
<1>2. QED
  BY <1>1, TypeParts, PTL

-----------------------------------------------------------------------------
(***************************************************************************)
(* Where the flow is, what its loops have done, and the numbers.           *)
(***************************************************************************)

LEMMA StepStageInv ==
  ASSUME IInv, [Next]_vars
  PROVE  StageInv'
<1>0. StageInv /\ LoopTyped /\ RestTyped
  BY TypeParts DEF IInv
<1>1. CASE Rotation
  <2>1. CASE RotateBegin
    BY <1>0, <2>1 DEF RotateBegin, StageInv, Transit, history
  <2>2. CASE RotateMove \/ RotateFails \/ Undo \/ UndoFails
    BY <1>0, <2>2
       DEF RotateMove, RotateFails, Undo, UndoFails, StageInv, Transit, history
  <2>3. CASE Refused \/ NothingToRotate \/ Rotated \/ Undone
    BY <1>0, <2>3
       DEF Refused, NothingToRotate, Rotated, Undone, Ends, StageInv, Transit, history
  <2>4. QED
    BY <1>1, <2>1, <2>2, <2>3 DEF Rotation
<1>2. CASE Login
  <2>1. CASE LoginLaunch \/ LoginLaunchFails
    <3>1. ~ok
      BY <1>0, <2>1 DEF IInv, NumberInv, StageInv, Committing, LoginLaunch, LoginLaunchFails
    <3>2. QED
      BY <1>0, <2>1, <3>1 DEF LoginLaunch, LoginLaunchFails, Unconfirmed, Ends, StageInv, Transit, history
  <2>2. CASE LoginExport \/ LoginFails \/ LoginCommit
    BY <1>0, <2>2 DEF LoginExport, LoginFails, LoginCommit, Commits, StageInv, Transit, history
  <2>3. CASE LoginCloses
    <3>1. ok' => n' \in committed'
      BY <2>3, Zenon DEF LoginCloses, history
    <3>2. pc = "closing" /\ pc' = "cleanup" /\ UNCHANGED <<kind, retired>>
      BY <2>3 DEF LoginCloses
    <3>3. QED
      BY <1>0, <3>1, <3>2 DEF StageInv, Transit
  <2>4. QED
    BY <1>2, <2>1, <2>2, <2>3 DEF Login
<1>3. CASE Import
  <2>1. ~ok
    BY <1>0, <1>3
       DEF IInv, NumberInv, StageInv, Committing, Import, ImportOpens, StageUsable, StageUnusable, Validate, Accepted,
           Rejected, ValidateFails, ValidateUnconfirmed
  <2>2. CASE Accepted
    BY <1>0, <2>2 DEF Accepted, Commits, StageInv, Transit
  <2>3. CASE ~Accepted
    BY <1>0, <1>3, <2>1, <2>3
       DEF Import, ImportOpens, StageUsable, StageUnusable, Validate, Rejected, ValidateFails,
           ValidateUnconfirmed, NextCandidate, Unconfirmed, Ends, StageInv, Transit, history
  <2>4. QED
    BY <2>2, <2>3
<1>4. CASE Restore
  <2>1. CASE RestoreBegin \/ Park \/ Parked \/ PutBack \/ Reretire
    BY <1>0, <2>1 DEF RestoreBegin, Park, Parked, PutBack, Reretire, StageInv, Transit, history
  <2>2. CASE RestoreDeclined \/ Restored \/ Reretired
    BY <1>0, <2>2 DEF RestoreDeclined, Restored, Reretired, Ends, StageInv, Transit, history
  <2>3. CASE ParkFails \/ PutBackFails \/ ReretireFails
    BY <1>0, <2>3 DEF ParkFails, PutBackFails, ReretireFails, Ends, StageInv, Transit
  <2>4. QED
    BY <1>4, <2>1, <2>2, <2>3 DEF Restore
<1>5. CASE Clear
  BY <1>0, <1>5
     DEF Clear, ClearBegin, ClearPiece, ClearQuarantine, Cleared, Ends, StageInv, Transit, history
<1>6. CASE Cancel \/ Cleanup \/ Release
  BY <1>0, <1>6
     DEF Cancel, Cleanup, Release, Ends, Reset, StageInv, LoopTyped, Transit, history
<1>7. ASSUME NEW p \in Proc, NEW k \in Kinds[p], Start(p, k) PROVE StageInv'
  BY <1>0, <1>7 DEF Start, StageInv, Transit
<1>12. ASSUME NEW p \in Proc, LogoutFindsNothing(p) PROVE StageInv'
  BY <1>0, <1>12 DEF LogoutFindsNothing, StageInv, Transit
<1>8. ASSUME NEW p \in Proc, LateStage(p) \/ ImportSession(p) PROVE StageInv'
  BY <1>0, <1>8 DEF LateStage, ImportSession, StageInv
<1>9. ASSUME NEW p \in Proc, Crash(p) PROVE StageInv'
  BY <1>0, <1>9 DEF Crash, Reset, StageInv, Transit
<1>10. CASE UNCHANGED vars
  BY <1>0, <1>10 DEF vars, history, StageInv
<1>11. QED
  BY <1>1, <1>2, <1>3, <1>4, <1>5, <1>6, <1>7, <1>8, <1>9, <1>10, <1>12 DEF Next

LEMMA StepLoopInv ==
  ASSUME IInv, [Next]_vars
  PROVE  LoopInv'
<1>0. LoopInv /\ FilesTyped /\ LoopTyped /\ todo \in SUBSET Piece
  BY TypeParts DEF IInv, LoopTyped
<1>1. CASE pc' \notin {"rotate", "park", "back"}
  BY <1>1 DEF LoopInv
<1>2. CASE UNCHANGED <<pc, box, retired, moved>> /\ (pc = "park" \/ UNCHANGED todo)
  BY <1>0, <1>2 DEF LoopInv, Present
<1>3. CASE RotateBegin
  <2>1. pc' = "rotate" /\ moved' = {} /\ box' = box /\ retired' \in Boxes /\ box[retired'] = Nothing
    BY <1>3 DEF RotateBegin, Fresh, files
  <2>2. QED
    BY <2>1, NothingIn DEF LoopInv
<1>4. CASE RotateMove
  <2>1. retired \in Boxes /\ pc = "rotate" /\ pc' = pc /\ retired' = retired
    BY <1>4 DEF IInv, StageInv, Transit, RotateMove
  <2>2. PICK a \in todo : BoxChanged(box, box', retired, a, live[a]) /\ todo' = todo \ {a} /\ moved' = moved \union {a}
    BY <1>0, <1>4, <2>1, ToBoxEffect DEF ToBox
  <2>3. QED
    BY <1>0, <2>1, <2>2 DEF LoopInv, BoxChanged, Changed
<1>5. CASE RestoreBegin \/ Parked
  BY <1>0, <1>5 DEF RestoreBegin, Parked, LoopInv, Present, files
<1>6. CASE PutBack
  <2>1. retired \in Boxes /\ pc = "back" /\ pc' = pc /\ retired' = retired
    BY <1>6 DEF IInv, StageInv, Transit, PutBack
  <2>2. PICK a \in todo : BoxChanged(box, box', retired, a, 0) /\ todo' = todo \ {a} /\ moved' = moved \union {a}
    BY <1>0, <1>6, <2>1, ToLiveEffect DEF ToLive
  <2>3. QED
    BY <1>0, <2>1, <2>2 DEF LoopInv, BoxChanged, Changed, Present
<1>7. QED
  <2>1. CASE Rotation
    BY <1>1, <1>2, <1>3, <1>4, <2>1
       DEF Rotation, Refused, NothingToRotate, RotateFails, Rotated, Undo, UndoFails, Undone, Ends
  <2>2. CASE Login
    BY <1>1, <2>2
       DEF Login, LoginLaunch, LoginLaunchFails, LoginExport, LoginFails, LoginCommit, LoginCloses, Unconfirmed, Ends
  <2>3. CASE Import
    BY <1>1, <2>3
       DEF Import, ImportOpens, StageUsable, StageUnusable, Validate, Accepted, Rejected, ValidateFails,
           ValidateUnconfirmed, NextCandidate, Unconfirmed, Ends
  <2>4. CASE Restore
    BY <1>1, <1>2, <1>5, <1>6, <2>4
       DEF Restore, RestoreDeclined, Park, ParkFails, PutBackFails, Restored, Reretire,
           ReretireFails, Reretired, Ends
  <2>5. CASE Clear
    BY <1>1, <2>5 DEF Clear, ClearBegin, ClearPiece, ClearQuarantine, Cleared, Ends
  <2>6. CASE Cancel \/ Cleanup \/ Release
    BY <1>1, <1>2, <2>6 DEF Cancel, Cleanup, Release, Ends, Reset, files, loopVars
  <2>7. ASSUME NEW p \in Proc, \/ \E k \in Kinds[p] : Start(p, k)
                               \/ LogoutFindsNothing(p) \/ LateStage(p) \/ ImportSession(p) \/ Crash(p)
        PROVE  LoopInv'
    BY <1>1, <1>2, <2>7 DEF Start, LogoutFindsNothing, LateStage, ImportSession, Crash, Reset, files, loopVars
  <2>8. CASE UNCHANGED vars
    BY <1>2, <2>8 DEF vars, files, loopVars
  <2>9. QED
    BY <2>1, <2>2, <2>3, <2>4, <2>5, <2>6, <2>7, <2>8 DEF Next

\* Sessions only grow in number.
LEMMA Counted ==
  ASSUME NumberTyped
  PROVE  /\ n \in Nat /\ used \in Nat /\ 0 \notin 1..used
         /\ 1..used \subseteq 1..(used + 1) /\ used + 1 \in 1..(used + 1)
BY SessionStoreAssumption DEF NumberTyped, Session

\* The steps in which a session is being made.
Making == {"login", "exported", "stage", "validate", "verdict"}

LEMMA StepNumberInv ==
  ASSUME IInv, [Next]_vars
  PROVE  NumberInv'
<1> DEFINE same == UNCHANGED <<n, used, committed, late>>
<1>0. /\ NumberInv /\ NumberTyped /\ n \in Nat /\ used \in Nat
      /\ pc \notin Committing => n \notin committed
      /\ pc \in Making => n # 0 /\ \A p \in Proc : n \notin late[p]
  BY TypeParts, Counted DEF IInv, NumberInv, Making
<1>1. CASE same /\ pc' = pc
  BY <1>0, <1>1 DEF NumberInv
<1>2. CASE same /\ n \notin committed /\ pc' \notin Making
  BY <1>0, <1>2 DEF NumberInv, Committing, Making
<1>3. CASE same /\ pc' \in Committing
  BY <1>0, <1>3 DEF NumberInv, Committing
<1>4. CASE same /\ pc \in Making /\ pc' \in Making
  BY <1>0, <1>4 DEF NumberInv, Committing, Making
<1>5. CASE Attempt /\ UNCHANGED <<committed, late>>
  <2>1. n' \notin committed /\ n' # 0 /\ \A p \in Proc : n' \notin late[p]
    BY <1>0, <1>5 DEF Attempt, NumberInv
  <2>2. n' <= used' /\ committed' \subseteq 1..used' /\ \A p \in Proc : late'[p] \subseteq 1..used'
    BY <1>0, <1>5, Counted DEF Attempt, NumberInv
  <2>3. QED
    BY <1>0, <1>5, <2>1, <2>2 DEF NumberInv
<1>6. CASE LoginLaunchFails
  <2>1. n' <= used' /\ committed' \subseteq 1..used' /\ \A p \in Proc : late'[p] \subseteq 1..used'
    BY <1>0, <1>6, Counted DEF LoginLaunchFails, Unconfirmed, Ends, NumberInv
  <2>2. QED
    BY <1>0, <1>6, <2>1 DEF LoginLaunchFails, Unconfirmed, Ends, NumberInv, Committing
<1>7. CASE LoginCommit \/ Accepted
  <2>1. pc \in Making
    BY <1>7 DEF LoginCommit, Accepted, Making
  <2>2. pc' \in {"closing", "cleanup"} /\ committed' = committed \union {n} /\ UNCHANGED <<n, used, late>>
    BY <1>7 DEF LoginCommit, Accepted, Commits, outside
  <2>3. n \in 1..used
    BY <1>0, <2>1 DEF NumberInv
  <2>4. QED
    BY <1>0, <2>1, <2>2, <2>3 DEF NumberInv, Committing
<1>8. CASE Reset /\ UNCHANGED <<used, committed>> /\ \A p \in Proc : late'[p] \subseteq late[p]
  BY <1>0, <1>8, Counted DEF Reset, NumberInv
<1>9. CASE UNCHANGED <<n, used, committed, pc>> /\ \A p \in Proc : late'[p] \subseteq late[p]
  BY <1>0, <1>9 DEF NumberInv
<1>10. QED
  <2>1. CASE Rotation
    BY <1>0, <1>1, <1>2, <1>3, <2>1
       DEF Rotation, RotateBegin, Refused, NothingToRotate, RotateMove, RotateFails, Rotated, Undo, UndoFails,
           Undone, Ends, Making, Committing, outside, history
  <2>2. CASE Login
    BY <1>3, <1>4, <1>5, <1>6, <1>7, <2>2
       DEF Login, LoginLaunch, LoginExport, LoginFails, LoginCloses, Making, Committing, outside, history
  <2>3. CASE Import
    <3>1. CASE NextCandidate /\ UNCHANGED <<committed, late>>
      BY <1>3, <1>5, <3>1 DEF NextCandidate, Committing
    <3>2. QED
      BY <1>3, <1>4, <1>5, <1>7, <2>3, <3>1
         DEF Import, ImportOpens, StageUsable, StageUnusable, Validate, Rejected, ValidateFails,
             ValidateUnconfirmed, Unconfirmed, Ends, Making, Committing, outside, history
  <2>4. CASE Restore
    <3>1. CASE RestoreBegin
      <4>1. n \notin committed
        <5>1. n \in committed => n # 0 /\ live.profile # 0 /\ live.source # 0 /\ live.cookies # 0
          BY <1>0, <3>1 DEF IInv, LiveInv, NumberTyped, RestoreBegin, Committing, Session
        <5>2. QED
          BY <3>1, <5>1 DEF RestoreBegin, Ready, Present, Piece
      <4>2. QED
        BY <1>2, <3>1, <4>1 DEF RestoreBegin, Making, outside, history
    <3>2. CASE ~RestoreBegin
      BY <1>0, <1>1, <1>2, <1>3, <2>4, <3>2
         DEF Restore, RestoreDeclined, Park, ParkFails, Parked, PutBack, PutBackFails, Restored,
             Reretire, ReretireFails, Reretired, Ends, Making, Committing, outside, history
    <3>3. QED
      BY <3>1, <3>2
  <2>5. CASE Clear
    BY <1>0, <1>1, <1>2, <1>3, <2>5
       DEF Clear, ClearBegin, ClearPiece, ClearQuarantine, Cleared, Ends, Making, Committing, outside, history
  <2>6. CASE Cancel
    <3>1. CASE pc = "stage" /\ pc' = "cleanup" /\ late' = [late EXCEPT ![holder] = @ \union {n}]
               /\ UNCHANGED <<n, used, committed>>
      <4>1. n \in 1..used /\ n \notin committed
        BY <1>0, <3>1 DEF Making, Committing, NumberInv
      <4>2. \A p \in Proc : late'[p] \subseteq late[p] \union {n}
        BY <1>0, <3>1 DEF NumberTyped
      <4>3. QED
        BY <1>0, <3>1, <4>1, <4>2 DEF NumberInv, Committing
    <3>2. QED
      BY <1>1, <1>3, <2>6, <3>1 DEF Cancel, Committing, history
  <2>7. CASE Cleanup
    BY <1>3, <2>7 DEF Cleanup, Ends, Committing, outside, history
  <2>8. CASE Release
    BY <1>8, <2>8 DEF Release, outside
  <2>9. ASSUME NEW p \in Proc, (\E k \in Kinds[p] : Start(p, k)) \/ LogoutFindsNothing(p) PROVE NumberInv'
    BY <1>0, <1>2, <2>9 DEF Start, LogoutFindsNothing, outside, Making, Committing
  <2>10. ASSUME NEW p \in Proc, LateStage(p) \/ Crash(p) PROVE NumberInv'
    <3>1. \A q \in Proc : late'[q] \subseteq late[q]
      BY <1>0, <2>10 DEF LateStage, Crash, NumberTyped
    <3>2. QED
      BY <1>8, <1>9, <2>10, <3>1 DEF LateStage, Crash
  <2>11. ASSUME NEW p \in Proc, ImportSession(p) PROVE NumberInv'
    <3>1. used' = used + 1 /\ UNCHANGED <<n, committed, late, pc>>
      BY <2>11 DEF ImportSession
    <3>2. n' <= used' /\ committed' \subseteq 1..used' /\ \A q \in Proc : late'[q] \subseteq 1..used'
      BY <1>0, <3>1, Counted DEF NumberInv
    <3>3. QED
      BY <1>0, <3>1, <3>2 DEF NumberInv
  <2>12. CASE UNCHANGED vars
    BY <1>1, <2>12 DEF vars, outside, history
  <2>13. QED
    BY <2>1, <2>2, <2>3, <2>4, <2>5, <2>6, <2>7, <2>8, <2>9, <2>10, <2>11, <2>12 DEF Next

-----------------------------------------------------------------------------
(***************************************************************************)
(* What a flow, or somebody beside it, writes at the active paths.         *)
(***************************************************************************)

LEMMA FlowWrites ==
  ASSUME IInv
  PROVE  /\ LoginLaunch => n' \in Session /\ n' \notin committed /\ Writes("profile", n')
         /\ LoginLaunchFails => \/ live' = live /\ box' = box /\ debris' = debris
                                \/ \E s \in Session \ committed : Writes("profile", s)
         /\ Validate => \/ Writes("profile", n)
                        \/ live' = live /\ box' = box /\ debris' = debris /\ live.profile \in strays
         /\ LoginExport \/ StageUsable => Writes("cookies", n)
         /\ LoginCommit \/ Accepted =>
              /\ Writes("source", n) /\ committed' = committed \union {n}
              /\ n \in Session /\ n \notin committed
         /\ Rejected => /\ live'.profile \in {0} \union strays' /\ live'.cookies = 0
                        /\ live'.source = live.source /\ box' = box /\ debris' = debris
<1>0. /\ FilesTyped /\ NumberTyped /\ NumberInv /\ n \in Nat /\ used \in Nat
      /\ pc = "launch" => live.profile = 0
      /\ pc = "validate" => live.profile \in {0} \union strays
      /\ pc \in Making => n \in Session /\ n \notin committed
  BY TypeParts, Counted DEF IInv, LiveInv, NumberInv, NumberTyped, Making, Committing
<1>1. ASSUME LoginLaunch PROVE n' \in Session /\ n' \notin committed /\ Writes("profile", n')
  <2>1. n' \in Session /\ n' \notin committed
    BY <1>0, <1>1, Numbered DEF LoginLaunch, Attempt, NumberInv
  <2>2. QED
    BY <1>0, <1>1, <2>1, LaunchEffect DEF LoginLaunch
<1>2. ASSUME LoginLaunchFails
      PROVE  \/ live' = live /\ box' = box /\ debris' = debris
             \/ \E s \in Session \ committed : Writes("profile", s)
  <2>1. used' \in Session /\ used' \notin committed
    BY <1>0, <1>2, Numbered DEF LoginLaunchFails, NumberInv
  <2>2. box' = box /\ debris' = debris /\ live.profile = 0 /\ (live' = live \/ live' = Launched(used'))
    BY <1>0, <1>2 DEF LoginLaunchFails
  <2>3. live' = Launched(used') => Writes("profile", used')
    BY <1>0, <2>1, <2>2, LaunchEffect
  <2>4. QED
    BY <2>1, <2>2, <2>3
<1>3. ASSUME Validate
      PROVE  \/ Writes("profile", n)
             \/ live' = live /\ box' = box /\ debris' = debris /\ live.profile \in strays
  <2>1. n \in Session
    BY <1>0, <1>3 DEF Validate, Making
  <2>2. CASE live.profile = 0
    BY <1>0, <1>3, <2>1, <2>2, LaunchEffect DEF Validate
  <2>3. CASE live.profile # 0
    BY <1>0, <1>3, <2>3 DEF Validate, Launched
  <2>4. QED
    BY <2>2, <2>3
<1>4. ASSUME LoginExport \/ StageUsable PROVE Writes("cookies", n)
  BY <1>0, <1>4, CookiesEffect DEF LoginExport, StageUsable, NumberTyped
<1>5. ASSUME LoginCommit \/ Accepted
      PROVE  /\ Writes("source", n) /\ committed' = committed \union {n}
             /\ n \in Session /\ n \notin committed
  <2>1. n \in Session /\ n \notin committed
    BY <1>0, <1>5 DEF LoginCommit, Accepted, Making
  <2>2. Commits /\ box' = box /\ debris' = debris
    BY <1>5 DEF LoginCommit, Accepted
  <2>3. QED
    BY <1>0, <2>1, <2>2, CommitEffect
<1>6. ASSUME Rejected
      PROVE  /\ live'.profile \in {0} \union strays' /\ live'.cookies = 0
             /\ live'.source = live.source /\ box' = box /\ debris' = debris
  <2>1. live \in [Piece -> {0} \union Session] /\ "profile" \in Piece /\ "cookies" \in Piece /\ "source" \in Piece
    BY <1>0 DEF FilesTyped, Pieces, Piece
  <2>2. /\ box' = box /\ debris' = debris
        /\ \/ live' = [live EXCEPT !.cookies = 0, !.profile = 0]
           \/ live' = [live EXCEPT !.cookies = 0] /\ live.profile \in strays'
    BY <1>6 DEF Rejected
  <2>3. QED
    BY <2>1, <2>2
<1>7. QED
  BY <1>1, <1>2, <1>3, <1>4, <1>5, <1>6

\* Whoever writes without the lease writes a session that is never committed.
Interferes(s) ==
  /\ Writes("cookies", s)
  /\ strays' = strays \union {s}
  /\ spoilt' = spoilt \union ({live.cookies} \ {0})
  /\ clean' = FALSE

LEMMA Outsiders ==
  ASSUME IInv, NEW p \in Proc, LateStage(p) \/ ImportSession(p)
  PROVE  /\ UNCHANGED <<box, debris, pc, kind, retired, todo, moved, sweep, n, ok, committed, before>>
         /\ UNCHANGED <<live, strays, spoilt, clean>> \/ \E s \in Session \ committed : Interferes(s)
<1>0. FilesTyped /\ NumberTyped /\ NumberInv /\ used \in Nat
  BY TypeParts, Counted DEF IInv
<1>1. UNCHANGED <<box, debris, pc, kind, retired, todo, moved, sweep, n, ok, committed, before>>
  BY DEF LateStage, ImportSession, loopVars
<1>2. ASSUME NEW s \in Session, s \notin committed, Overwrites(s) PROVE Interferes(s)
  BY <1>0, <1>1, <1>2, CookiesEffect DEF Overwrites, Interferes
<1>3. CASE LateStage(p)
  BY <1>0, <1>1, <1>2, <1>3 DEF LateStage, NumberInv, NumberTyped
<1>4. CASE ImportSession(p)
  BY <1>0, <1>1, <1>2, <1>4, Numbered DEF ImportSession, NumberInv
<1>5. QED
  BY <1>3, <1>4

\* What was spoilt or strayed stays so, and a commit is the flow's own.
LEMMA Histories ==
  ASSUME [Next]_vars
  PROVE  /\ spoilt \subseteq spoilt' /\ strays \subseteq strays'
         /\ committed' = committed \/ LoginCommit \/ Accepted
<1>1. CASE Rotation
  BY <1>1
     DEF Rotation, RotateBegin, Refused, NothingToRotate, RotateMove, RotateFails, Rotated, Undo, UndoFails,
         Undone, Ends, outside, history
<1>2. CASE Login
  BY <1>2
     DEF Login, LoginLaunch, LoginLaunchFails, LoginExport, LoginFails, LoginCommit, LoginCloses, outside, history
<1>3. CASE Import
  BY <1>3
     DEF Import, ImportOpens, StageUsable, StageUnusable, Validate, Accepted, Rejected, ValidateFails,
         ValidateUnconfirmed, outside, history
<1>4. CASE Restore
  BY <1>4
     DEF Restore, RestoreDeclined, RestoreBegin, Park, ParkFails, Parked, PutBack, PutBackFails, Restored,
         Reretire, ReretireFails, Reretired, outside, history
<1>5. CASE Clear
  BY <1>5 DEF Clear, ClearBegin, ClearPiece, ClearQuarantine, Cleared, outside, history
<1>6. CASE Cancel \/ Cleanup \/ Release
  BY <1>6 DEF Cancel, Cleanup, Release, outside, history
<1>7. ASSUME NEW p \in Proc, (\E k \in Kinds[p] : Start(p, k)) \/ LogoutFindsNothing(p) \/ LateStage(p) \/ ImportSession(p) \/ Crash(p)
      PROVE  spoilt \subseteq spoilt' /\ strays \subseteq strays' /\ committed' = committed
  BY <1>7 DEF Start, LogoutFindsNothing, LateStage, ImportSession, Overwrites, Crash, outside
<1>8. CASE UNCHANGED vars
  BY <1>8 DEF vars, outside, history
<1>9. QED
  BY <1>1, <1>2, <1>3, <1>4, <1>5, <1>6, <1>7, <1>8 DEF Next

LEMMA StepLiveInv ==
  ASSUME IInv, [Next]_vars
  PROVE  LiveInv'
<1>0. /\ LiveInv /\ FilesTyped /\ NumberTyped /\ LoopTyped /\ todo \in SUBSET Piece
      /\ 0 \notin committed
      /\ pc \notin Committing => n \notin committed
      /\ pc \in Making => n \in Session
      /\ strays \subseteq strays' /\ spoilt \subseteq spoilt'
  BY TypeParts, Counted, Histories DEF IInv, LoopTyped, NumberInv, NumberTyped, Making
<1>1. CASE pc' \notin Replacing \union {"rotate", "park", "done"}
  BY <1>1 DEF LiveInv, Replacing, Committing
<1>2. CASE UNCHANGED <<n, committed>> /\ pc \notin Committing /\ pc' = "done"
  BY <1>0, <1>2 DEF LiveInv, Replacing, Committing
<1>3. CASE /\ UNCHANGED <<n, committed, live>> /\ pc \in Committing /\ pc' \in Committing
           /\ pc \in Replacing \/ pc' = "done"
  BY <1>0, <1>3 DEF LiveInv, Replacing, Committing
<1>4. CASE UNCHANGED <<n, committed, live>> /\ pc \in Making /\ pc' \in {"closing", "cleanup"}
  BY <1>0, <1>4 DEF LiveInv, Replacing, Committing, Making
<1>5. CASE UNCHANGED <<n, committed, live, pc, todo>>
  BY <1>0, <1>5 DEF LiveInv
<1>6. CASE RotateBegin \/ NothingToRotate \/ Rotated
  <2>1. UNCHANGED <<n, committed, live>>
    BY <1>6 DEF RotateBegin, NothingToRotate, Rotated, Ends, files, history
  <2>2. CASE RotateBegin
    BY <1>0, <2>1, <2>2 DEF RotateBegin, Present, LiveInv, Replacing, Committing
  <2>3. CASE pc' = "done"
    BY <1>2, <1>6, <2>1, <2>3 DEF RotateBegin, NothingToRotate, Rotated, Committing
  <2>4. CASE pc' # "done" /\ (NothingToRotate \/ Rotated)
    <3>1. live.profile = 0 /\ live.source = 0 /\ pc' \in {"launch", "restore"} /\ n \notin committed
      BY <1>0, <2>4 DEF NothingToRotate, Rotated, Ends, Present, Piece, LiveInv, Committing
    <3>2. QED
      BY <2>1, <3>1 DEF LiveInv, Replacing, Committing
  <2>5. QED
    BY <1>6, <2>2, <2>3, <2>4
<1>7. CASE RotateMove \/ Park
  <2>1. retired \in Boxes /\ UNCHANGED <<pc, n, committed>>
    BY <1>7 DEF IInv, StageInv, Transit, RotateMove, Park, history
  <2>2. PICK a \in todo : Changed(live, live', a, 0) /\ todo' = todo \ {a}
    BY <1>0, <1>7, <2>1, ToBoxEffect, ParkEffect DEF ToBox
  <2>3. pc \in {"rotate", "park"}
    BY <1>7 DEF RotateMove, Park
  <2>4. QED
    BY <1>0, <2>1, <2>2, <2>3 DEF Changed, LiveInv, Replacing, Committing
<1>8. CASE LoginLaunch
  <2>1. Writes("profile", n') /\ n' \notin committed /\ live.source = 0
    BY <1>0, <1>8, FlowWrites DEF LiveInv, LoginLaunch, Replacing, Committing
  <2>2. live'.source = 0 /\ live'.profile = n' /\ pc' = "login" /\ committed' = committed
    BY <1>8, <2>1 DEF Writes, Changed, Piece, LoginLaunch, history
  <2>3. QED
    BY <2>1, <2>2 DEF LiveInv, Replacing, Committing
<1>9. CASE LoginExport \/ StageUsable \/ Validate
  <2>1. n \in Session /\ n \notin committed /\ pc \in Replacing /\ UNCHANGED <<n, committed, spoilt, strays>>
    BY <1>0, <1>9 DEF LoginExport, StageUsable, Validate, Making, Committing, Replacing, outside, history
  <2>2. live.source = 0 /\ n # 0
    BY <1>0, <2>1 DEF LiveInv, Session
  <2>3. CASE LoginExport \/ StageUsable
    <3>1. Writes("cookies", n) /\ pc \in {"login", "stage"}
      BY <2>3, FlowWrites DEF LoginExport, StageUsable
    <3>2. live'.source = 0 /\ live'.cookies = n /\ live'.profile = live.profile
      BY <2>2, <3>1 DEF Writes, Changed, Piece
    <3>3. \/ pc = "login" /\ pc' = "exported"
          \/ pc = "stage" /\ pc' = "validate"
      BY <2>3 DEF LoginExport, StageUsable
    <3>4. /\ pc' = "exported" => live'.profile = n'
          /\ pc' = "validate" => live'.profile \in {0} \union strays'
      BY <1>0, <2>1, <3>2, <3>3 DEF LiveInv
    <3>5. n' = n /\ committed' = committed /\ pc' \in {"exported", "validate"} /\ live'.cookies = n'
      BY <2>1, <3>2, <3>3
    <3>6. live'.source = 0 /\ n' # 0
      BY <2>2, <3>2, <3>5
    <3>7. pc' \notin {"rotate", "launch", "stage", "login", "verdict", "park"} /\ pc' \notin Committing
      BY <3>5 DEF Committing
    <3>8. CASE pc' = "exported"
      BY <3>4, <3>5, <3>6, <3>7, <3>8 DEF LiveInv
    <3>9. CASE pc' = "validate"
      BY <3>4, <3>5, <3>6, <3>7, <3>9 DEF LiveInv
    <3>10. QED
      BY <3>5, <3>8, <3>9
  <2>4. CASE Validate
    <3>1. /\ pc = "validate" /\ pc' = "verdict"
          /\ Writes("profile", n) \/ (live' = live /\ live.profile \in strays)
      BY <2>4, FlowWrites DEF Validate
    <3>2. live'.source = 0 /\ live'.cookies = live.cookies /\ live'.profile \in {n} \union strays
      BY <2>2, <3>1 DEF Writes, Changed, Piece
    <3>3. QED
      BY <1>0, <2>1, <3>1, <3>2 DEF LiveInv, Replacing, Committing
  <2>5. QED
    BY <1>9, <2>3, <2>4
<1>10. CASE LoginCommit \/ Accepted
  <2>1. Writes("source", n) /\ committed' = committed \union {n} /\ n' = n /\ pc' \in {"closing", "cleanup"}
    BY <1>10, FlowWrites DEF LoginCommit, Accepted
  <2>2. live.profile \in {n} \union strays /\ live.cookies # 0
    BY <1>0, <1>10 DEF LiveInv, LoginCommit, Accepted
  <2>3. live'.source = n /\ live'.profile = live.profile /\ live'.cookies # 0
    BY <2>1, <2>2 DEF Writes, Changed, Piece
  <2>4. QED
    BY <1>0, <2>1, <2>2, <2>3 DEF LiveInv, Replacing, Committing
<1>11. CASE ImportOpens \/ StageUnusable \/ Rejected
  <2>1. live'.profile \in {0} \union strays'
    BY <1>0, <1>11, FlowWrites DEF LiveInv, ImportOpens, StageUnusable, files
  <2>2. live'.source = 0
    BY <1>0, <1>11, FlowWrites DEF LiveInv, ImportOpens, StageUnusable, Rejected, Replacing, Committing, files
  <2>3. pc' \in {"stage", "cleanup"} /\ committed' = committed
    BY <1>11 DEF ImportOpens, StageUnusable, Rejected, NextCandidate, history
  <2>4. n' \notin committed
    <3>1. n' = n \/ Attempt
      BY <1>11 DEF ImportOpens, StageUnusable, Rejected, NextCandidate
    <3>2. pc \in {"launch", "stage", "verdict"}
      BY <1>11 DEF ImportOpens, StageUnusable, Rejected
    <3>3. QED
      BY <1>0, <3>1, <3>2, Counted DEF Attempt, IInv, NumberInv, Committing
  <2>5. QED
    BY <2>1, <2>2, <2>3, <2>4 DEF LiveInv, Replacing, Committing
<1>12. CASE RestoreBegin
  BY <1>0, <1>12 DEF RestoreBegin, LiveInv, Replacing, Committing, Piece
<1>13. ASSUME NEW p \in Proc, LateStage(p) \/ ImportSession(p) PROVE LiveInv'
  <2>1. UNCHANGED <<pc, n, committed, todo>>
    BY <1>13, Outsiders
  <2>2. ASSUME NEW s \in Session \ committed, Interferes(s) PROVE LiveInv'
    <3>1. live' \in Pieces /\ live'.cookies = s /\ \A a \in Piece \ {"cookies"} : live'[a] = live[a]
      BY <2>2 DEF Interferes, Writes, Changed
    <3>2. live'.profile = live.profile /\ live'.source = live.source /\ live'.cookies # 0
      BY <2>2, <3>1 DEF Piece, Session
    <3>3. (live.cookies = n /\ n # 0 => n \in spoilt') /\ live'.cookies \in strays'
      BY <2>2, <3>1 DEF Interferes
    <3>7. spoilt \subseteq spoilt'
      BY <2>2 DEF Interferes
    <3>4. (\A a \in Piece : a # "cookies" => live'[a] = live[a]) /\ live'["cookies"] \notin committed
      BY <2>2, <3>1
    <3>5. pc \in {"exported", "validate", "verdict"} => n # 0
      BY <1>0 DEF Making, Session
    <3>6. QED
      BY <1>0, <2>1, <3>2, <3>3, <3>4, <3>5, <3>7 DEF LiveInv
  <2>3. QED
    BY <1>5, <1>13, <2>1, <2>2, Outsiders
<1>14. QED
  <2>1. CASE Rotation
    BY <1>1, <1>2, <1>3, <1>6, <1>7, <2>1
       DEF Rotation, Refused, RotateFails, Undo, UndoFails, Undone, Ends, Replacing, Committing, files, outside, history
  <2>2. CASE Login
    BY <1>2, <1>3, <1>4, <1>8, <1>9, <1>10, <2>2
       DEF Login, LoginLaunchFails, LoginFails, LoginCloses, Unconfirmed, Ends, Making, Replacing, Committing, files, history
  <2>3. CASE Import
    BY <1>2, <1>4, <1>9, <1>10, <1>11, <2>3
       DEF Import, ValidateFails, ValidateUnconfirmed, Unconfirmed, Ends, Making, Committing, files, history
  <2>4. CASE Restore
    BY <1>1, <1>2, <1>3, <1>7, <1>12, <2>4
       DEF Restore, RestoreDeclined, ParkFails, Parked, PutBack, PutBackFails, Restored, Reretire,
           ReretireFails, Reretired, Ends, Replacing, Committing, files, history
  <2>5. CASE Clear
    BY <1>1, <1>2, <2>5
       DEF Clear, ClearBegin, ClearPiece, ClearQuarantine, Cleared, Ends, Replacing, Committing, files, history
  <2>6. CASE Cancel
    BY <1>3, <1>4, <1>5, <2>6 DEF Cancel, Making, Replacing, Committing, files, loopVars, history
  <2>7. CASE Cleanup \/ Release
    BY <1>1, <1>3, <2>7 DEF Cleanup, Release, Reset, Ends, Replacing, Committing, files, history
  <2>8. ASSUME NEW p \in Proc, (\E k \in Kinds[p] : Start(p, k)) \/ LogoutFindsNothing(p) \/ Crash(p)
        PROVE  LiveInv'
    BY <1>1, <1>2, <1>5, <2>8 DEF Start, LogoutFindsNothing, Crash, Reset, Replacing, Committing, files, loopVars
  <2>9. CASE UNCHANGED vars
    BY <1>5, <2>9 DEF vars, files, loopVars, history
  <2>10. QED
    BY <1>13, <2>1, <2>2, <2>3, <2>4, <2>5, <2>6, <2>7, <2>8, <2>9 DEF Next

-----------------------------------------------------------------------------
(***************************************************************************)
(* No profile and no cookies beside another session's metadata.            *)
(***************************************************************************)

LEMMA StepPairInv ==
  ASSUME IInv, [Next]_vars
  PROVE  PairInv'
<1> DEFINE still == pc' \in Transit => pc \in Transit /\ retired' = retired
<1>0. /\ PairInv /\ FilesTyped /\ LoopTyped /\ todo \in SUBSET Piece
      /\ "profile" \in Piece /\ "source" \in Piece /\ "cookies" \in Piece
      /\ strays \subseteq strays'
  BY TypeParts, Histories DEF IInv, LoopTyped, Piece
<1>1. CASE UNCHANGED <<live, box>> /\ still
  BY <1>0, <1>1 DEF PairInv, Agree
<1>2. CASE /\ still /\ box' = box
           /\ \/ \E a \in Piece : Changed(live, live', a, 0)
              \/ \E v \in strays' : Changed(live, live', "cookies", v)
  <2>1. /\ live'.profile \in {0, live.profile}
        /\ live'.cookies \in {0, live.cookies} \union strays'
        /\ live'.source \in {0, live.source}
    BY <1>0, <1>2 DEF Changed
  <2>2. QED
    BY <1>0, <1>2, <2>1 DEF PairInv, Agree
<1>3. CASE RotateBegin
  <2>1. pc' = "rotate" /\ live' = live /\ box' = box /\ box[retired'] = Nothing
    BY <1>3 DEF RotateBegin, Fresh, files
  <2>2. QED
    BY <1>0, <2>1, NothingIn DEF PairInv, Agree
<1>4. CASE RotateMove \/ Reretire
  <2>1. retired \in Boxes /\ pc \in Transit /\ UNCHANGED <<pc, retired>>
    BY <1>4 DEF IInv, StageInv, Transit, RotateMove, Reretire
  <2>2. PICK a \in todo : Changed(live, live', a, 0) /\ BoxChanged(box, box', retired, a, live[a])
    BY <1>0, <1>4, <2>1, ToBoxEffect DEF ToBox
  <2>3. /\ \A c \in Piece : /\ live'[c] = (IF c = a THEN 0 ELSE live[c])
                            /\ box'[retired][c] = (IF c = a THEN live[a] ELSE box[retired][c])
        /\ \A b \in Boxes \ {retired} : box'[b] = box[b]
    BY <1>0, <2>2 DEF Changed, BoxChanged
  <2>4. /\ Agree(live, live) /\ Agree(live, box[retired])
        /\ Agree(box[retired], live) /\ Agree(box[retired], box[retired])
    BY <1>0, <2>1 DEF PairInv
  <2>5. /\ Agree(live, live)' /\ Agree(live, box[retired])'
        /\ Agree(box[retired], live)' /\ Agree(box[retired], box[retired])'
    BY <1>0, <2>1, <2>3, <2>4 DEF Agree
  <2>6. \A b \in Boxes \ {retired} : Agree(box[b], box[b])'
    BY <1>0, <2>3 DEF PairInv, Agree
  <2>7. QED
    BY <2>1, <2>5, <2>6 DEF PairInv
<1>5. CASE Undo \/ PutBack
  <2>1. retired \in Boxes /\ pc \in Transit /\ UNCHANGED <<pc, retired>>
    BY <1>5 DEF IInv, StageInv, Transit, Undo, PutBack
  <2>2. PICK a \in todo : Changed(live, live', a, box[retired][a]) /\ BoxChanged(box, box', retired, a, 0)
    BY <1>0, <1>5, <2>1, ToLiveEffect DEF ToLive
  <2>3. /\ \A c \in Piece : /\ live'[c] = (IF c = a THEN box[retired][a] ELSE live[c])
                            /\ box'[retired][c] = (IF c = a THEN 0 ELSE box[retired][c])
        /\ \A b \in Boxes \ {retired} : box'[b] = box[b]
    BY <1>0, <2>2 DEF Changed, BoxChanged
  <2>4. /\ Agree(live, live) /\ Agree(live, box[retired])
        /\ Agree(box[retired], live) /\ Agree(box[retired], box[retired])
    BY <1>0, <2>1 DEF PairInv
  <2>5. /\ Agree(live, live)' /\ Agree(live, box[retired])'
        /\ Agree(box[retired], live)' /\ Agree(box[retired], box[retired])'
    BY <1>0, <2>1, <2>3, <2>4 DEF Agree
  <2>6. \A b \in Boxes \ {retired} : Agree(box[b], box[b])'
    BY <1>0, <2>3 DEF PairInv, Agree
  <2>7. QED
    BY <2>1, <2>5, <2>6 DEF PairInv
<1>6. CASE LoginLaunch \/ LoginLaunchFails \/ Validate \/ LoginExport \/ StageUsable
  <2>1. live.source = 0
    BY <1>6
       DEF IInv, NumberInv, LiveInv, LoginLaunch, LoginLaunchFails, Validate, LoginExport, StageUsable,
           Replacing, Committing
  <2>2. \/ UNCHANGED <<live, box>>
        \/ box' = box /\ \E s : Changed(live, live', "profile", s) \/ Changed(live, live', "cookies", s)
    BY <1>6, FlowWrites DEF Writes
  <2>3. pc' \notin Transit
    BY <1>6
       DEF LoginLaunch, LoginLaunchFails, Validate, LoginExport, StageUsable, Unconfirmed, Ends, Transit
  <2>4. live'.source = 0 /\ box' = box
    BY <1>0, <2>1, <2>2 DEF Changed
  <2>5. QED
    BY <1>0, <2>3, <2>4 DEF PairInv, Agree
<1>8. CASE LoginCommit \/ Accepted
  <2>1. Writes("source", n) /\ pc' \notin Transit
    BY <1>8, FlowWrites DEF LoginCommit, Accepted, Transit
  <2>2. live.profile \in {n} \union strays /\ live.cookies \in {n} \union strays
    BY <1>8 DEF IInv, LiveInv, LoginCommit, Accepted
  <2>3. live'.profile = live.profile /\ live'.cookies = live.cookies /\ live'.source = n /\ box' = box
    BY <2>1 DEF Writes, Changed, Piece
  <2>4. QED
    BY <1>0, <2>1, <2>2, <2>3 DEF PairInv, Agree
<1>9. CASE Rejected
  <2>1. /\ live'.profile \in {0} \union strays' /\ live'.cookies = 0
        /\ box' = box /\ pc' \notin Transit
    BY <1>9, FlowWrites DEF Rejected, NextCandidate, Transit
  <2>2. QED
    BY <1>0, <2>1 DEF PairInv, Agree
<1>10. CASE Park
  <2>1. retired \in Boxes /\ pc' \notin Transit
    BY <1>10 DEF IInv, StageInv, Park, Transit
  <2>2. (\E a \in Piece : Changed(live, live', a, 0)) /\ box' = box
    BY <1>0, <1>10, <2>1, ParkEffect
  <2>3. QED
    BY <1>0, <1>2, <2>1, <2>2
<1>11. CASE Parked
  <2>1. /\ live.profile = 0 /\ live.source = 0 /\ live.cookies \in {0} \union strays
        /\ live' = live /\ box' = box /\ retired' = retired
    BY <1>11 DEF IInv, LiveInv, Parked, Piece, files
  <2>2. QED
    BY <1>0, <2>1 DEF PairInv, Agree
<1>12. CASE ClearPiece
  <2>1. First(todo) \in Piece /\ pc' \notin Transit /\ box' = box
    BY <1>0, <1>12, FirstIn DEF ClearPiece, Transit
  <2>2. live' = live \/ live' = [live EXCEPT ![First(todo)] = 0]
    BY <1>12 DEF ClearPiece
  <2>3. live' = live \/ \E a \in Piece : Changed(live, live', a, 0)
    BY <1>0, <2>1, <2>2, Updated, ValueIn DEF FilesTyped
  <2>4. QED
    BY <1>0, <1>1, <1>2, <2>1, <2>3
<1>13. CASE ClearQuarantine
  <2>1. pc' \notin Transit /\ live' = live /\ (box' = box \/ \E b \in Boxes : box' = [box EXCEPT ![b] = Nothing])
    BY <1>0, <1>13 DEF ClearQuarantine, Transit, LoopTyped
  <2>2. \A b \in Boxes : box'[b] = box[b] \/ box'[b] = Nothing
    BY <1>0, <2>1 DEF FilesTyped
  <2>3. QED
    BY <1>0, <2>1, <2>2, NothingIn DEF PairInv, Agree
<1>14. ASSUME NEW p \in Proc, LateStage(p) \/ ImportSession(p) PROVE PairInv'
  BY <1>0, <1>1, <1>2, <1>14, Outsiders DEF Interferes, Writes, Piece
<1>15. QED
  <2>1. CASE Rotation
    BY <1>1, <1>3, <1>4, <1>5, <2>1
       DEF Rotation, Refused, NothingToRotate, RotateFails, Rotated, UndoFails, Undone, Ends, Transit, files
  <2>2. CASE Login
    BY <1>1, <1>6, <1>8, <2>2 DEF Login, LoginFails, LoginCloses, Transit, files
  <2>3. CASE Import
    BY <1>1, <1>6, <1>8, <1>9, <2>3
       DEF Import, ImportOpens, StageUnusable, NextCandidate, ValidateFails, ValidateUnconfirmed, Unconfirmed,
           Ends, Transit, files
  <2>4. CASE Restore
    BY <1>1, <1>4, <1>5, <1>10, <1>11, <2>4
       DEF Restore, RestoreDeclined, RestoreBegin, ParkFails, PutBackFails, Restored, ReretireFails,
           Reretired, Ends, Transit, files
  <2>5. CASE Clear
    BY <1>1, <1>12, <1>13, <2>5 DEF Clear, ClearBegin, Cleared, Ends, Transit, files
  <2>6. CASE Cancel \/ Cleanup \/ Release
    BY <1>1, <2>6 DEF Cancel, Cleanup, Release, Ends, Reset, Transit, files
  <2>7. ASSUME NEW p \in Proc, (\E k \in Kinds[p] : Start(p, k)) \/ LogoutFindsNothing(p) \/ Crash(p)
        PROVE  PairInv'
    BY <1>1, <2>7 DEF Start, LogoutFindsNothing, Crash, Reset, Transit, files
  <2>8. CASE UNCHANGED vars
    BY <1>1, <2>8 DEF vars, files
  <2>9. QED
    BY <1>14, <2>1, <2>2, <2>3, <2>4, <2>5, <2>6, <2>7, <2>8 DEF Next

-----------------------------------------------------------------------------
(***************************************************************************)
(* Where the committed sessions are.                                       *)
(***************************************************************************)

\* A session that is spread over two places has parts in two of them.
LEMMA SplitParted ==
  ASSUME NEW s \in Session, NEW L, retired \in Boxes, FilesTyped, Split(s, L), s \notin Parted
  PROVE  At(live, s) \/ At(box[retired], s)
<1>1. live \in Stores /\ box[retired] \in Stores
  BY DEF Stores
<1>2. ASSUME NEW a \in Core, NEW b \in Core, a \in L, b \notin L PROVE FALSE
  <2>1. live[a] = s /\ box[retired][a] # s /\ box[retired][b] = s
    BY <1>2 DEF Split
  <2>2. PartOf(s, live) /\ PartOf(s, box[retired]) /\ live # box[retired]
    BY <2>1 DEF PartOf, Core, Piece
  <2>3. QED
    BY <1>1, <2>2 DEF Parted
<1>3. QED
  BY <1>2 DEF Split, At

LEMMA StepWhereabouts ==
  ASSUME IInv, [Next]_vars, NEW s, s \in committed, s \notin spoilt', s \in Session, s # 0
  PROVE  Whereabouts(s)'
<1> DEFINE passing == Transit \union {"park"}
<1>0. /\ Whereabouts(s) /\ s # 0
      /\ FilesTyped /\ LoopTyped /\ todo \in SUBSET Piece /\ StageInv /\ LoopInv
      /\ Core \subseteq Piece /\ 0 \notin Boxes
  BY Histories, TypeParts, SessionStoreAssumption DEF IInv, WholeInv, LoopTyped, Core, Piece
<1>1. CASE UNCHANGED <<live, box, retired>> /\ pc \notin passing /\ pc' \notin passing
  BY <1>0, <1>1 DEF Whereabouts, Elsewhere, At, Transit
<1>2. CASE UNCHANGED <<box, retired>> /\ pc \notin passing /\ pc' \notin passing /\ ~At(live, s)
  BY <1>0, <1>2 DEF Whereabouts, Elsewhere, At, Transit
<1>3. CASE UNCHANGED <<live, box, retired, pc, todo, moved>>
  BY <1>0, <1>3 DEF Whereabouts, Elsewhere, At, Split
\* The rotation.
<1>4. CASE RotateBegin
  <2>1. /\ pc = "begin" /\ pc' = "rotate" /\ live' = live /\ box' = box /\ retired' \in Boxes
        /\ box[retired'] = Nothing /\ todo' = Present(live) /\ retired = 0
    BY <1>0, <1>4 DEF RotateBegin, Fresh, files, StageInv
  <2>2. CASE At(live, s)
    BY <1>0, <2>1, <2>2, NothingIn DEF Whereabouts, Split, At, Present
  <2>3. CASE Elsewhere(s)
    <3>1. PICK b \in Boxes : At(box[b], s)
      BY <2>3 DEF Elsewhere
    <3>2. b # retired'
      BY <1>0, <2>1, <3>1, NothingIn DEF At, Core
    <3>3. QED
      BY <2>1, <3>1, <3>2 DEF Whereabouts, Elsewhere, At, Transit
  <2>4. QED
    BY <1>0, <2>1, <2>2, <2>3 DEF Whereabouts, Transit
<1>5. CASE RotateMove
  <2>1. retired \in Boxes /\ pc = "rotate" /\ UNCHANGED <<pc, retired>>
    BY <1>0, <1>5 DEF StageInv, Transit, RotateMove
  <2>2. PICK a \in todo : ToBox(a) /\ todo' = todo \ {a}
    BY <1>0, <1>5, <2>1, ToBoxEffect
  <2>3. CASE Elsewhere(s)
    BY <2>1, <2>2, <2>3 DEF Whereabouts, Elsewhere, At, ToBox, BoxChanged
  <2>4. CASE Split(s, todo)
    BY <1>0, <2>1, <2>2, <2>4 DEF Whereabouts, Split, ToBox, Changed, BoxChanged
  <2>5. QED
    BY <1>0, <2>1, <2>3, <2>4 DEF Whereabouts, Transit
<1>6. CASE RotateFails
  <2>1. /\ pc = "rotate" /\ pc' = "undo" /\ todo' = moved /\ UNCHANGED <<live, box, retired>>
        /\ todo \intersect moved = {} /\ \A a \in Piece \ moved : box[retired][a] = 0
    BY <1>0, <1>6 DEF RotateFails, files, LoopInv
  <2>2. Split(s, todo) => Split(s, Piece \ moved)
    BY <1>0, <2>1 DEF Split
  <2>3. QED
    BY <1>0, <2>1, <2>2 DEF Whereabouts, Elsewhere, At, Split, Transit
<1>7. CASE Rotated
  <2>1. pc = "rotate" /\ todo = {} /\ pc' \notin passing /\ UNCHANGED <<live, box, retired>> /\ retired \in Boxes
    BY <1>0, <1>7 DEF Rotated, Ends, files, StageInv, Transit
  <2>2. QED
    BY <1>0, <2>1 DEF Whereabouts, Elsewhere, At, Split, Transit
<1>8. CASE Undo
  <2>1. retired \in Boxes /\ pc = "undo" /\ UNCHANGED <<pc, retired>>
    BY <1>0, <1>8 DEF StageInv, Transit, Undo
  <2>2. PICK a \in todo : ToLive(a) /\ todo' = todo \ {a}
    BY <1>0, <1>8, <2>1, ToLiveEffect
  <2>3. CASE Elsewhere(s)
    BY <2>1, <2>2, <2>3 DEF Whereabouts, Elsewhere, At, ToLive, BoxChanged
  <2>4. CASE Split(s, Piece \ todo)
    BY <1>0, <2>1, <2>2, <2>4 DEF Whereabouts, Split, ToLive, Changed, BoxChanged
  <2>5. QED
    BY <1>0, <2>1, <2>3, <2>4 DEF Whereabouts, Transit
<1>9. CASE UndoFails
  <2>1. /\ pc = "undo" /\ UNCHANGED <<live, box, pc, retired>> /\ todo' = todo \ {First(todo)}
        /\ First(todo) \in todo /\ box[retired][First(todo)] # s
    BY <1>0, <1>9, FirstIn DEF UndoFails, files
  <2>2. Split(s, Piece \ todo) => Split(s, Piece \ (todo \ {First(todo)}))
    BY <1>0, <2>1 DEF Split
  <2>3. QED
    BY <1>0, <2>1, <2>2 DEF Whereabouts, Elsewhere, At, Split, Transit
<1>10. CASE Undone
  <2>1. pc = "undo" /\ todo = {} /\ pc' \notin passing /\ UNCHANGED <<live, box, retired>>
    BY <1>0, <1>10 DEF Undone, Ends, files, Transit
  <2>2. QED
    BY <1>0, <2>1 DEF Whereabouts, Elsewhere, At, Split, Transit
\* What a flow writes is not yet committed.
<1>11. CASE \/ LoginLaunch \/ LoginLaunchFails \/ LoginExport \/ LoginCommit
            \/ StageUsable \/ Validate \/ Accepted \/ Rejected
  <2>1. live.source = 0
    BY <1>11
       DEF IInv, NumberInv, LiveInv, Replacing, Committing, LoginLaunch, LoginLaunchFails, LoginExport, LoginCommit,
           StageUsable, Validate, Accepted, Rejected
  <2>2. UNCHANGED <<box, retired>> /\ pc \notin passing /\ pc' \notin passing
    BY <1>11
       DEF LoginLaunch, LoginLaunchFails, LoginExport, LoginCommit, StageUsable, Validate, Accepted, Rejected,
           NextCandidate, Unconfirmed, Ends, Transit
  <2>3. QED
    BY <1>0, <1>2, <2>1, <2>2 DEF At, Core
\* The restore.
<1>12. CASE RestoreBegin
  <2>1. ~At(live, s)
    BY <1>0, <1>12 DEF RestoreBegin, Ready, Present, At, Core
  <2>2. pc = "restore" /\ pc' = "park" /\ UNCHANGED <<live, box, retired>>
    BY <1>12 DEF RestoreBegin, files
  <2>3. QED
    BY <1>0, <2>1, <2>2 DEF Whereabouts, Elsewhere, At, Transit
<1>13. CASE Park
  <2>1. pc = "park" /\ UNCHANGED <<box, retired, pc>>
    BY <1>13 DEF Park
  <2>2. QED
    BY <1>0, <2>1 DEF Whereabouts, Elsewhere, At, Transit
<1>14. CASE ParkFails
  <2>1. pc = "park" /\ pc' \notin passing /\ UNCHANGED <<box, retired, live>> /\ retired \in Boxes
    BY <1>0, <1>14 DEF ParkFails, Ends, files, StageInv, Transit
  <2>2. QED
    BY <1>0, <2>1 DEF Whereabouts, Elsewhere, At, Transit
<1>15. CASE Parked
  <2>1. pc = "park" /\ pc' = "back" /\ UNCHANGED <<box, retired, live, moved>> /\ moved = {}
    BY <1>0, <1>15 DEF Parked, files, LoopInv
  <2>2. \A a \in Core : live[a] # s
    BY <1>0, <1>15 DEF IInv, LiveInv, Parked
  <2>3. QED
    BY <1>0, <2>1, <2>2 DEF Whereabouts, Elsewhere, At, Split, Transit
<1>16. CASE PutBack
  <2>1. retired \in Boxes /\ pc = "back" /\ UNCHANGED <<pc, retired>> /\ todo \intersect moved = {}
    BY <1>0, <1>16 DEF StageInv, LoopInv, Transit, PutBack
  <2>2. PICK a \in todo : ToLive(a) /\ moved' = moved \union {a}
    BY <1>0, <1>16, <2>1, ToLiveEffect
  <2>3. CASE Elsewhere(s)
    BY <2>1, <2>2, <2>3 DEF Whereabouts, Elsewhere, At, ToLive, BoxChanged
  <2>4. CASE Split(s, moved)
    BY <1>0, <2>1, <2>2, <2>4 DEF Whereabouts, Split, ToLive, Changed, BoxChanged
  <2>5. QED
    BY <1>0, <2>1, <2>3, <2>4 DEF Whereabouts, Transit
<1>17. CASE PutBackFails
  <2>1. pc = "back" /\ pc' = "reretire" /\ todo' = moved /\ UNCHANGED <<live, box, retired>>
    BY <1>17 DEF PutBackFails, files
  <2>2. QED
    BY <1>0, <2>1 DEF Whereabouts, Elsewhere, At, Split, Transit
<1>18. CASE Restored
  <2>1. /\ pc = "back" /\ todo = {} /\ pc' \notin passing /\ UNCHANGED <<live, box, retired>>
        /\ \A a \in Piece : box[retired][a] = 0
    BY <1>0, <1>18 DEF Restored, Ends, files, LoopInv, Present, Transit
  <2>2. Split(s, moved) => At(live, s)
    BY <1>0, <2>1 DEF Split, At
  <2>3. QED
    BY <1>0, <2>1, <2>2 DEF Whereabouts, Elsewhere, At, Transit
<1>19. CASE Reretire
  <2>1. retired \in Boxes /\ pc = "reretire" /\ UNCHANGED <<pc, retired>>
    BY <1>0, <1>19 DEF StageInv, Transit, Reretire
  <2>2. PICK a \in todo : ToBox(a) /\ todo' = todo \ {a}
    BY <1>0, <1>19, <2>1, ToBoxEffect
  <2>3. CASE Elsewhere(s)
    BY <2>1, <2>2, <2>3 DEF Whereabouts, Elsewhere, At, ToBox, BoxChanged
  <2>4. CASE Split(s, todo)
    BY <1>0, <2>1, <2>2, <2>4 DEF Whereabouts, Split, ToBox, Changed, BoxChanged
  <2>5. QED
    BY <1>0, <2>1, <2>3, <2>4 DEF Whereabouts, Transit
<1>20. CASE ReretireFails
  <2>1. PICK a \in todo : todo' = todo \ {a} /\ spoilt' = spoilt \union ({live[a]} \ {0})
    BY <1>20 DEF ReretireFails
  <2>2. pc = "reretire" /\ UNCHANGED <<live, box, retired, pc>> /\ live[a] # s
    BY <1>0, <1>20, <2>1 DEF ReretireFails, files
  <2>3. Split(s, todo) => Split(s, todo \ {a})
    BY <1>0, <2>1, <2>2 DEF Split
  <2>4. QED
    BY <1>0, <2>1, <2>2, <2>3 DEF Whereabouts, Elsewhere, At, Split, Transit
<1>21. CASE Reretired
  <2>1. pc = "reretire" /\ todo = {} /\ pc' \notin passing /\ UNCHANGED <<live, box, retired>> /\ retired \in Boxes
    BY <1>0, <1>21 DEF Reretired, Ends, files, StageInv, Transit
  <2>2. QED
    BY <1>0, <2>1 DEF Whereabouts, Elsewhere, At, Split, Transit
\* The logout.
<1>22. CASE ClearPiece
  <2>1. First(todo) \in Piece /\ UNCHANGED <<box, retired, pc>> /\ pc \notin passing
    BY <1>0, <1>22, FirstIn DEF ClearPiece, Transit
  <2>2. CASE live' = live
    BY <1>1, <2>1, <2>2
  <2>3. CASE live' = [live EXCEPT ![First(todo)] = 0] /\ spoilt' = spoilt \union ({live[First(todo)]} \ {0})
    <3>1. Changed(live, live', First(todo), 0) /\ live[First(todo)] # s
      BY <1>0, <2>1, <2>3, Updated, ValueIn DEF FilesTyped
    <3>2. At(live, s) => At(live', s)
      BY <1>0, <3>1 DEF At, Changed
    <3>3. QED
      BY <1>0, <2>1, <3>2 DEF Whereabouts, Elsewhere, At, Transit
  <2>4. QED
    BY <1>22, <2>2, <2>3 DEF ClearPiece
<1>23. CASE ClearQuarantine
  <2>1. pc \notin passing /\ UNCHANGED <<live, retired, pc>>
    BY <1>23 DEF ClearQuarantine, Transit
  <2>2. \/ box' = box
        \/ \E b \in Boxes : /\ box' = [box EXCEPT ![b] = Nothing]
                            /\ spoilt' = spoilt \union ({box[b][a] : a \in Piece} \ {0})
    BY <1>0, <1>23 DEF ClearQuarantine, LoopTyped
  <2>3. ASSUME NEW b \in Boxes, box' = [box EXCEPT ![b] = Nothing],
               spoilt' = spoilt \union ({box[b][a] : a \in Piece} \ {0})
        PROVE  Whereabouts(s)'
    <3>1. ~At(box[b], s)
      BY <1>0, <2>3 DEF At, Core
    <3>2. \A c \in Boxes : At(box[c], s) => At(box'[c], s)
      BY <1>0, <2>3, <3>1 DEF FilesTyped
    <3>3. QED
      BY <1>0, <2>1, <3>2 DEF Whereabouts, Elsewhere, At, Transit
  <2>4. QED
    BY <1>1, <2>1, <2>2, <2>3
\* What happens outside the flow, and its end.
<1>24. ASSUME NEW p \in Proc, LateStage(p) \/ ImportSession(p) PROVE Whereabouts(s)'
  <2>1. UNCHANGED <<pc, box, retired, todo, moved>> /\ "cookies" \in Core
    BY <1>24, Outsiders DEF Core
  <2>2. ASSUME NEW v \in Session \ committed, Interferes(v) PROVE Whereabouts(s)'
    <3>1. live.cookies # s /\ live'["cookies"] # s /\ \A a \in Piece \ {"cookies"} : live'[a] = live[a]
      BY <1>0, <2>2 DEF Interferes, Writes, Changed, Piece
    <3>2. ~At(live, s) /\ \A L : Split(s, L) => Split(s, L)'
      BY <1>0, <2>1, <3>1 DEF At, Split
    <3>3. QED
      BY <1>0, <2>1, <3>2 DEF Whereabouts, Elsewhere, At, Transit
  <2>3. QED
    BY <1>3, <1>24, <2>1, <2>2, Outsiders
<1>25. CASE UNCHANGED <<live, box>> /\ retired' = 0 /\ pc \notin passing /\ pc' \notin passing
  BY <1>0, <1>25 DEF Whereabouts, Elsewhere, At, Transit
<1>26. ASSUME NEW p \in Proc, Crash(p) PROVE Whereabouts(s)'
  <2>1. CASE holder # p
    BY <1>3, <1>26, <2>1 DEF Crash, files, loopVars
  <2>2. CASE holder = p
    <3>1. UNCHANGED <<live, box>> /\ retired' = 0 /\ pc' = "idle" /\ s \notin Parted
      BY <1>26, <2>2 DEF Crash, Reset, files
    <3>2. pc \in passing => retired \in Boxes
      BY <1>0 DEF StageInv
    <3>3. Elsewhere(s) \/ At(live, s) \/ (retired \in Boxes /\ At(box[retired], s))
      BY <1>0, <3>1, <3>2, SplitParted DEF Whereabouts, Transit
    <3>4. QED
      BY <1>0, <3>1, <3>3 DEF Whereabouts, Elsewhere, At, Transit
  <2>3. QED
    BY <2>1, <2>2
<1>27. QED
  <2>1. CASE Rotation
    BY <1>1, <1>4, <1>5, <1>6, <1>7, <1>8, <1>9, <1>10, <2>1
       DEF Rotation, Refused, NothingToRotate, Ends, Transit, files
  <2>2. CASE Login
    BY <1>1, <1>11, <2>2 DEF Login, LoginFails, LoginCloses, Transit, files
  <2>3. CASE Import
    BY <1>1, <1>11, <2>3
       DEF Import, ImportOpens, StageUnusable, NextCandidate, ValidateFails, ValidateUnconfirmed, Unconfirmed,
           Ends, Transit, files
  <2>4. CASE Restore
    BY <1>1, <1>12, <1>13, <1>14, <1>15, <1>16, <1>17, <1>18, <1>19, <1>20, <1>21, <2>4
       DEF Restore, RestoreDeclined, Ends, Transit, files
  <2>5. CASE Clear
    BY <1>1, <1>22, <1>23, <2>5 DEF Clear, ClearBegin, Cleared, Ends, Transit, files
  <2>6. CASE Cancel
    BY <1>1, <1>3, <2>6 DEF Cancel, Transit, files, loopVars
  <2>7. CASE Cleanup \/ Release
    BY <1>1, <1>25, <2>7 DEF Cleanup, Release, Ends, Reset, Transit, files
  <2>8. ASSUME NEW p \in Proc, (\E k \in Kinds[p] : Start(p, k)) \/ LogoutFindsNothing(p) PROVE Whereabouts(s)'
    BY <1>1, <2>8 DEF Start, LogoutFindsNothing, Transit, files
  <2>9. CASE UNCHANGED vars
    BY <1>3, <2>9 DEF vars, files, loopVars
  <2>10. QED
    BY <1>24, <1>26, <2>1, <2>2, <2>3, <2>4, <2>5, <2>6, <2>7, <2>8, <2>9 DEF Next

LEMMA StepWholeInv ==
  ASSUME IInv, [Next]_vars
  PROVE  WholeInv'
<1> SUFFICES ASSUME NEW s \in committed' \ spoilt' PROVE Whereabouts(s)'
  BY DEF WholeInv
<1>0. /\ NumberTyped /\ s \notin spoilt' /\ (s \in committed => s \in Session /\ s # 0)
      /\ \A p \in Session : p # 0
  BY TypeParts DEF IInv, NumberTyped, Session
<1>1. CASE s \in committed
  BY <1>0, <1>1, StepWhereabouts
<1>2. CASE s \notin committed
  <2>1. LoginCommit \/ Accepted
    BY <1>2, Histories
  <2>2. Writes("source", n) /\ s = n /\ n \in Session
    BY <1>2, <2>1, FlowWrites
  <2>3. live.profile = n /\ live.cookies = n /\ pc' \notin Transit \union {"park"}
    BY <1>0, <2>1, <2>2, Histories DEF IInv, LiveInv, LoginCommit, Accepted, Transit
  <2>4. At(live', n)
    BY <2>2, <2>3 DEF Writes, Changed, At, Core, Piece
  <2>5. QED
    BY <2>2, <2>3, <2>4 DEF Whereabouts, At
<1>3. QED
  BY <1>1, <1>2

-----------------------------------------------------------------------------
(***************************************************************************)
(* A flow that nothing has disturbed.                                      *)
(***************************************************************************)

\* Stores with the same pieces are the same.
LEMMA SameStore ==
  ASSUME NEW t \in Pieces, NEW u \in Pieces, \A a \in Piece : t[a] = u[a]
  PROVE  t = u
BY DEF Pieces

LEMMA StepCleanInv ==
  ASSUME IInv, [Next]_vars
  PROVE  CleanInv'
<1> DEFINE carrying == Replacing \union {"park"}
<1>0. /\ CleanInv /\ FilesTyped /\ LoopTyped /\ todo \in SUBSET Piece /\ StageInv /\ LoopInv /\ before \in Pieces
  BY TypeParts DEF IInv, LoopTyped, RestTyped
<1>1. CASE clean' = FALSE
  BY <1>1 DEF CleanInv
<1>2. CASE UNCHANGED <<live, box, retired, todo, pc, kind, n, committed, before, clean>>
  BY <1>0, <1>2 DEF CleanInv
<1>3. CASE pc' \in {"idle", "clear"}
  BY <1>3 DEF CleanInv, Replacing
<1>4. CASE UNCHANGED <<box, retired, before, clean>> /\ pc \in carrying /\ pc' \in Replacing
  BY <1>0, <1>4 DEF CleanInv, Replacing
<1>5. CASE UNCHANGED clean /\ pc \in {"undo", "reretire"}
  BY <1>0, <1>5 DEF CleanInv
<1>6. CASE pc' = "done" /\ (retired' = 0 \/ kind' \notin {"login", "import"} \/ n' \in committed')
  BY <1>6 DEF CleanInv, Replacing
<1>7. ASSUME NEW p \in Proc, NEW k \in Kinds[p], Start(p, k) PROVE CleanInv'
  BY <1>7 DEF Start, CleanInv, Replacing, files
<1>21. ASSUME NEW p \in Proc, LogoutFindsNothing(p) PROVE CleanInv'
  BY <1>21 DEF LogoutFindsNothing, CleanInv, Replacing
<1>8. CASE RotateBegin
  <2>1. /\ pc = "begin" /\ pc' = "rotate" /\ UNCHANGED <<live, box, before, clean>> /\ retired' \in Boxes
        /\ box[retired'] = Nothing /\ todo' = Present(live)
    BY <1>8 DEF RotateBegin, Fresh, files, history
  <2>2. clean => live = before
    BY <1>0, <2>1 DEF CleanInv
  <2>3. clean => \A a \in Piece : IF a \in todo' THEN live[a] = before[a] ELSE box[retired'][a] = before[a]
    BY <2>1, <2>2, NothingIn DEF Present
  <2>4. QED
    BY <2>1, <2>3 DEF CleanInv, Replacing
<1>9. CASE NothingToRotate
  <2>1. retired' = 0 /\ pc' \in {"launch", "done"}
    BY <1>0, <1>9 DEF NothingToRotate, Ends, StageInv
  <2>2. QED
    BY <2>1 DEF CleanInv, Replacing
<1>10. CASE RotateMove
  <2>1. retired \in Boxes /\ pc = "rotate" /\ UNCHANGED <<pc, retired, before, clean>>
    BY <1>0, <1>10 DEF StageInv, Transit, RotateMove, history
  <2>2. PICK a \in todo : ToBox(a) /\ todo' = todo \ {a}
    BY <1>0, <1>10, <2>1, ToBoxEffect
  <2>3. clean => \A c \in Piece : IF c \in todo' THEN live'[c] = before[c] ELSE box'[retired][c] = before[c]
    BY <1>0, <2>1, <2>2 DEF CleanInv, ToBox, Changed, BoxChanged
  <2>4. QED
    BY <2>1, <2>3 DEF CleanInv, Replacing
<1>11. CASE Rotated
  <2>1. pc = "rotate" /\ todo = {} /\ UNCHANGED <<live, box, retired, before, clean, kind>>
    BY <1>11 DEF Rotated, Ends, files, history
  <2>2. pc' \in {"launch", "restore"} \/ (pc' = "done" /\ kind = "retire")
    BY <1>11 DEF Rotated, Ends
  <2>3. retired \in Boxes
    BY <1>0, <2>1 DEF StageInv, Transit
  <2>4. clean => box[retired] = before
    BY <1>0, <2>1, <2>3, SameStore DEF CleanInv, FilesTyped
  <2>5. QED
    BY <2>1, <2>2, <2>4 DEF CleanInv, Replacing
\* A flow ends early only if it has something to show for it.
<1>12. CASE Cleanup
  <2>1. CASE pc' = "restore"
    BY <1>4, <1>12, <2>1 DEF Cleanup, Ends, Replacing, files, history
  <2>2. CASE pc' # "restore"
    <3>1. pc' = "done" /\ UNCHANGED <<retired, kind, n, committed>> /\ (retired = 0 \/ ok) /\ pc = "cleanup"
      BY <1>12, <2>2 DEF Cleanup, Ends, history
    <3>2. QED
      BY <1>0, <1>6, <3>1 DEF StageInv
  <2>3. QED
    BY <2>1, <2>2
<1>13. CASE RestoreDeclined
  <2>1. n \in committed
    BY <1>13 DEF RestoreDeclined, IInv, LiveInv, Ready, Present, Replacing
  <2>2. QED
    BY <1>6, <1>13, <2>1 DEF RestoreDeclined, Ends, history
\* The restore.
<1>14. CASE RestoreBegin
  <2>1. /\ pc = "restore" /\ pc' = "park" /\ todo' = Piece /\ UNCHANGED <<box, retired, before, clean>>
    BY <1>14 DEF RestoreBegin, files, history
  <2>2. QED
    BY <1>0, <2>1 DEF CleanInv, Replacing
<1>15. CASE Park
  <2>1. retired \in Boxes /\ pc = "park" /\ UNCHANGED <<pc, retired, before, clean>>
    BY <1>0, <1>15 DEF StageInv, Park, history
  <2>2. PICK a \in todo : Changed(live, live', a, 0) /\ box' = box /\ todo' = todo \ {a}
    BY <1>0, <1>15, <2>1, ParkEffect
  <2>3. clean => \A c \in Piece \ todo' : live'[c] = 0
    BY <1>0, <2>1, <2>2 DEF CleanInv, Changed
  <2>4. QED
    BY <1>0, <2>1, <2>2, <2>3 DEF CleanInv, Replacing
<1>16. CASE Parked
  <2>1. /\ pc = "park" /\ pc' = "back" /\ todo = {} /\ todo' = Present(box[retired])
        /\ UNCHANGED <<live, box, retired, before, clean>> /\ retired \in Boxes
    BY <1>0, <1>16 DEF Parked, files, history, StageInv
  <2>2. clean => box[retired] = before /\ \A a \in Piece : live[a] = 0
    BY <1>0, <2>1, SessionStoreAssumption DEF CleanInv
  <2>3. clean => \A a \in Piece : IF a \in todo' THEN box[retired][a] = before[a] ELSE live[a] = before[a]
    BY <2>1, <2>2 DEF Present
  <2>4. QED
    BY <2>1, <2>3 DEF CleanInv, Replacing
<1>17. CASE PutBack
  <2>1. retired \in Boxes /\ pc = "back" /\ UNCHANGED <<pc, retired, before, clean>>
    BY <1>0, <1>17 DEF StageInv, Transit, PutBack, history
  <2>2. PICK a \in todo : ToLive(a) /\ todo' = todo \ {a}
    BY <1>0, <1>17, <2>1, ToLiveEffect
  <2>3. clean => \A c \in Piece : IF c \in todo' THEN box'[retired][c] = before[c] ELSE live'[c] = before[c]
    BY <1>0, <2>1, <2>2 DEF CleanInv, ToLive, Changed, BoxChanged
  <2>4. QED
    BY <2>1, <2>3 DEF CleanInv, Replacing
<1>18. CASE Restored
  <2>1. pc = "back" /\ todo = {} /\ pc' = "done" /\ UNCHANGED <<live, before, clean>>
    BY <1>18 DEF Restored, Ends, files, history
  <2>2. clean => live = before
    BY <1>0, <2>1, SameStore DEF CleanInv, FilesTyped
  <2>3. QED
    BY <2>1, <2>2 DEF CleanInv, Replacing
<1>19. CASE Clear
  <2>1. kind = "logout"
    BY <1>0, <1>19 DEF Clear, ClearBegin, ClearPiece, ClearQuarantine, Cleared, StageInv
  <2>2. pc' = "clear" \/ (pc' = "done" /\ kind' = kind)
    BY <1>19 DEF Clear, ClearBegin, ClearPiece, ClearQuarantine, Cleared, Ends
  <2>3. QED
    BY <1>3, <1>6, <2>1, <2>2
<1>20. QED
  <2>1. CASE Rotation
    BY <1>1, <1>5, <1>8, <1>9, <1>10, <1>11, <2>1
       DEF Rotation, Refused, RotateFails, Undo, UndoFails, Undone, Fault, history
  <2>2. CASE Login
    BY <1>1, <1>4, <2>2
       DEF Login, LoginLaunch, LoginLaunchFails, LoginExport, LoginFails, LoginCommit, LoginCloses, Unconfirmed,
           Replacing, files, history
  <2>3. CASE Import
    BY <1>1, <1>4, <2>3
       DEF Import, ImportOpens, StageUsable, StageUnusable, Validate, Accepted, Rejected, NextCandidate,
           ValidateFails, ValidateUnconfirmed, Unconfirmed, Replacing, files, history
  <2>4. CASE Restore
    BY <1>1, <1>5, <1>13, <1>14, <1>15, <1>16, <1>17, <1>18, <2>4
       DEF Restore, ParkFails, PutBackFails, Reretire, ReretireFails, Reretired, Fault, history
  <2>5. CASE Cancel
    BY <1>2, <1>4, <2>5 DEF Cancel, Replacing, files, loopVars, history
  <2>6. CASE Release
    BY <1>3, <2>6 DEF Release, Reset
  <2>7. ASSUME NEW p \in Proc, LateStage(p) \/ ImportSession(p) PROVE CleanInv'
    BY <1>1, <1>2, <2>7, Outsiders DEF Interferes
  <2>8. ASSUME NEW p \in Proc, Crash(p) PROVE CleanInv'
    BY <1>2, <1>3, <2>8 DEF Crash, Reset, files, loopVars
  <2>9. CASE UNCHANGED vars
    BY <1>2, <2>9 DEF vars, files, loopVars, history
  <2>10. QED
    BY <1>7, <1>12, <1>19, <1>21, <2>1, <2>2, <2>3, <2>4, <2>5, <2>6, <2>7, <2>8, <2>9 DEF Next

LEMMA StepLogoutInv ==
  ASSUME IInv, [Next]_vars
  PROVE  LogoutInv'
<1>0. /\ LogoutInv /\ FilesTyped /\ LoopTyped /\ todo \in SUBSET Piece /\ StageInv
      /\ pc \notin {"begin", "clear", "done"} => kind # "logout"
  BY TypeParts DEF IInv, LoopTyped, StageInv
<1>1. CASE clean' = FALSE \/ ok' = FALSE \/ kind' # "logout"
  BY <1>1 DEF LogoutInv
<1>2. CASE UNCHANGED <<live, box, debris, todo, sweep, pc, kind, ok, clean, before>>
  BY <1>0, <1>2 DEF LogoutInv
<1>3. CASE ClearBegin
  <2>1. live' = live /\ box' = box /\ debris' = debris /\ pc' = "clear" /\ todo' = Piece /\ sweep' = Quarantines
    BY <1>3 DEF ClearBegin, files
  <2>2. \A b \in Boxes : /\ box[b] # Nothing => <<b, "box">> \in Quarantines
                         /\ debris[b] # Nothing => <<b, "debris">> \in Quarantines
    BY DEF Quarantines
  <2>3. QED
    BY <2>1, <2>2 DEF LogoutInv
<1>4. CASE ClearPiece
  <2>1. /\ First(todo) \in Piece /\ todo' = todo \ {First(todo)}
        /\ UNCHANGED <<box, debris, pc, sweep, kind, before>>
    BY <1>0, <1>4, FirstIn DEF ClearPiece
  <2>2. CASE ok' = FALSE
    BY <1>1, <2>2
  <2>3. CASE live' = [live EXCEPT ![First(todo)] = 0] /\ UNCHANGED <<ok, clean>>
    <3>1. Changed(live, live', First(todo), 0)
      BY <1>0, <2>1, <2>3, Updated, ValueIn DEF FilesTyped
    <3>2. QED
      BY <1>0, <2>1, <2>3, <3>1 DEF LogoutInv, Changed
  <2>4. QED
    BY <1>4, <2>2, <2>3 DEF ClearPiece
<1>5. CASE ClearQuarantine
  <2>1. PICK q \in sweep :
          /\ sweep' = sweep \ {q}
          /\ \/ /\ IF q[2] = "box"
                     THEN box' = [box EXCEPT ![q[1]] = Nothing] /\ UNCHANGED debris
                     ELSE debris' = [debris EXCEPT ![q[1]] = Nothing] /\ UNCHANGED box
                /\ UNCHANGED <<ok, clean>>
             \/ ok' = FALSE
    BY <1>5 DEF ClearQuarantine
  <2>2. pc = "clear" /\ UNCHANGED <<live, pc, todo, kind, before>>
    BY <1>5 DEF ClearQuarantine, loopVars
  <2>3. PICK b \in Boxes, w \in {"box", "debris"} : q = <<b, w>>
    BY <1>0, <2>1 DEF LoopTyped
  <2>4. CASE ok' = FALSE
    BY <1>1, <2>4
  <2>5. CASE w = "box" /\ box' = [box EXCEPT ![b] = Nothing] /\ debris' = debris /\ UNCHANGED <<ok, clean>>
    <3>1. \A c \in Boxes : c # b => box'[c] = box[c] /\ <<c, "box">> # q
      BY <1>0, <2>3, <2>5 DEF FilesTyped
    <3>2. box'[b] = Nothing /\ \A c \in Boxes : <<c, "debris">> # q
      BY <1>0, <2>3, <2>5 DEF FilesTyped
    <3>3. QED
      BY <1>0, <2>1, <2>2, <2>5, <3>1, <3>2 DEF LogoutInv
  <2>6. CASE w = "debris" /\ debris' = [debris EXCEPT ![b] = Nothing] /\ box' = box /\ UNCHANGED <<ok, clean>>
    <3>1. \A c \in Boxes : c # b => debris'[c] = debris[c] /\ <<c, "debris">> # q
      BY <1>0, <2>3, <2>6 DEF FilesTyped
    <3>2. debris'[b] = Nothing /\ \A c \in Boxes : <<c, "box">> # q
      BY <1>0, <2>3, <2>6 DEF FilesTyped
    <3>3. QED
      BY <1>0, <2>1, <2>2, <2>6, <3>1, <3>2 DEF LogoutInv
  <2>7. QED
    BY <2>1, <2>3, <2>4, <2>5, <2>6
<1>6. CASE Cleared
  <2>1. /\ todo = {} /\ sweep = {} /\ UNCHANGED <<live, box, debris, ok, kind, clean, before>>
    BY <1>6 DEF Cleared, Ends, files, history
  <2>2. QED
    BY <1>0, <2>1 DEF LogoutInv
<1>7. QED
  <2>1. CASE Rotation
    BY <1>0, <1>1, <2>1
       DEF Rotation, RotateBegin, Refused, NothingToRotate, RotateMove, RotateFails, Rotated, Undo, UndoFails, Undone
  <2>2. CASE Login
    BY <1>0, <1>1, <2>2 DEF Login, LoginLaunch, LoginLaunchFails, LoginExport, LoginFails, LoginCommit, LoginCloses
  <2>3. CASE Import
    BY <1>0, <1>1, <2>3
       DEF Import, ImportOpens, StageUsable, StageUnusable, Validate, Accepted, Rejected, ValidateFails, ValidateUnconfirmed
  <2>4. CASE Restore
    BY <1>0, <1>1, <2>4
       DEF Restore, RestoreDeclined, RestoreBegin, Park, ParkFails, Parked, PutBack, PutBackFails, Restored,
           Reretire, ReretireFails, Reretired
  <2>5. CASE Clear
    BY <1>3, <1>4, <1>5, <1>6, <2>5 DEF Clear
  <2>6. CASE Cancel \/ Cleanup \/ Release
    BY <1>0, <1>1, <2>6 DEF Cancel, Cleanup, Release, Reset
  <2>7. ASSUME NEW p \in Proc, NEW k \in Kinds[p], Start(p, k) PROVE LogoutInv'
    BY <1>0, <2>7 DEF Start, StageInv, LogoutInv
  <2>12. ASSUME NEW p \in Proc, LogoutFindsNothing(p) PROVE LogoutInv'
    BY <2>12 DEF LogoutFindsNothing, NothingToClear, LogoutInv, Core
  <2>8. ASSUME NEW p \in Proc, LateStage(p) \/ ImportSession(p) PROVE LogoutInv'
    BY <1>1, <1>2, <2>8, Outsiders DEF Interferes
  <2>9. ASSUME NEW p \in Proc, Crash(p) PROVE LogoutInv'
    BY <1>1, <1>2, <2>9 DEF Crash, Reset, files, loopVars
  <2>10. CASE UNCHANGED vars
    BY <1>2, <2>10 DEF vars, files, loopVars, history
  <2>11. QED
    BY <2>1, <2>2, <2>3, <2>4, <2>5, <2>6, <2>7, <2>8, <2>9, <2>10, <2>12 DEF Next

-----------------------------------------------------------------------------
(***************************************************************************)
(* The invariant, and what it says.                                        *)
(***************************************************************************)

LEMMA InitIInv == Init => IInv
<1> SUFFICES ASSUME Init PROVE IInv
  OBVIOUS
<1>1. TypeOK
  BY InitTypeOK
<1>2. /\ pc = "idle" /\ kind = "login" /\ retired = 0 /\ ~ok /\ n = 0 /\ used = 1 /\ spoilt = {}
      /\ late = [p \in Proc |-> {}] /\ box = [b \in Boxes |-> Nothing]
      /\ live \in {Nothing, Whole(1)} /\ committed = IF live = Nothing THEN {} ELSE {1}
  BY DEF Init
<1>3. StageInv /\ LoopInv /\ LiveInv /\ CleanInv /\ LogoutInv
  BY <1>2 DEF StageInv, LoopInv, LiveInv, CleanInv, LogoutInv, Transit, Replacing, Committing
<1>4. NumberInv
  BY <1>2 DEF NumberInv
<1>5. PairInv
  BY <1>2 DEF PairInv, Agree, Transit, Nothing, Whole, Piece
<1>6. WholeInv
  <2>1. SUFFICES ASSUME NEW s \in committed PROVE Whereabouts(s)
    BY DEF WholeInv
  <2>2. s = 1 /\ live = Whole(1)
    BY <1>2
  <2>3. At(live, s)
    BY <2>2 DEF At, Whole, Core, Piece
  <2>4. QED
    BY <1>2, <2>3 DEF Whereabouts, Transit
<1>7. QED
  BY <1>1, <1>3, <1>4, <1>5, <1>6 DEF IInv

LEMMA StepIInv == IInv /\ [Next]_vars => IInv'
<1> SUFFICES ASSUME IInv, [Next]_vars PROVE IInv'
  OBVIOUS
<1>1. TypeOK' /\ StageInv' /\ LoopInv' /\ NumberInv' /\ LiveInv' /\ PairInv'
  BY StepTypeOK, StepStageInv, StepLoopInv, StepNumberInv, StepLiveInv, StepPairInv
<1>2. WholeInv' /\ CleanInv' /\ LogoutInv'
  BY StepWholeInv, StepCleanInv, StepLogoutInv
<1>3. QED
  BY <1>1, <1>2 DEF IInv

\* In every state of every run the invariant holds: where a flow is, what its
\* loops have moved, and where each session is meanwhile fit together.
THEOREM StoreInductive == Spec => []IInv
<1>1. QED
  BY InitIInv, StepIInv, PTL DEF Spec

\* The variables keep their types.
THEOREM StoreTyping == Spec => []TypeOK
<1>1. IInv => TypeOK
  BY DEF IInv
<1>2. QED
  BY <1>1, StoreInductive, PTL

\* rotate_source_profile and restore_source_profile (session_state.py): whatever
\* single moves fail, is refused or is cancelled, a session that was committed and
\* that neither a death nor a logout nor a write without the lease cut up, nor a
\* rejected candidate's profile stood in the way of, lies
\* whole at the active paths or in one quarantine once no loop is moving it.
THEOREM StoreWhole == Spec => []SessionWhole
<1>1. ASSUME IInv PROVE SessionWhole
  <2>1. SUFFICES ASSUME pc \notin Moving, NEW s \in committed \ spoilt
                 PROVE \E t \in Stores : t.profile = s /\ t.cookies = s /\ t.source = s
    BY DEF SessionWhole
  <2>2. Whereabouts(s)
    BY <1>1 DEF IInv, WholeInv
  <2>3. At(live, s) \/ \E b \in Boxes : At(box[b], s)
    BY <2>1, <2>2 DEF Whereabouts, Elsewhere, Moving
  <2>4. QED
    BY <2>3 DEF Stores, At, Core
<1>2. QED
  BY <1>1, StoreInductive, PTL

\* What the auth preflight takes for a usable session has the profile directory,
\* and so the device identity, and the cookies that its metadata was written for;
\* but for cookies written without the lease, and a rejected candidate's profile
\* that _reset_profile_dir could not remove.
THEOREM StoreOneDevice == Spec => []OneDevice
<1>1. IInv => OneDevice
  BY DEF IInv, PairInv, Agree, OneDevice, Ready, Present
<1>2. QED
  BY <1>1, StoreInductive, PTL

\* A login or an import that ends without a session of its own, with nothing in
\* its way, gives back exactly what it retired, and one that committed keeps what
\* it committed.
THEOREM StoreRestored == Spec => []RestoredUnlessCommitted
<1>1. ASSUME IInv PROVE RestoredUnlessCommitted
  BY <1>1 DEF IInv, CleanInv, LiveInv, RestoredUnlessCommitted, Committing
<1>2. QED
  BY <1>1, StoreInductive, PTL

\* clear_auth_state, when a logout finds a session and comes to it, reports success
\* and nobody writes beside it, leaves no piece of a session at the active paths,
\* in a quarantine or beside one.
THEOREM StoreCleared == Spec => []LogoutClears
<1>1. ASSUME IInv PROVE LogoutClears
  <2>1. SUFFICES ASSUME pc = "done", kind = "logout", ok, clean, Present(before) \intersect Core # {}
                 PROVE  \A t \in Stores : t = Nothing
    BY DEF LogoutClears, Core
  <2>2. /\ \A a \in Piece : live[a] = 0
        /\ \A b \in Boxes : box[b] = Nothing /\ debris[b] = Nothing
    BY <1>1, <2>1 DEF IInv, LogoutInv
  <2>3. live \in Pieces
    BY <1>1, TypeParts DEF IInv, FilesTyped
  <2>4. live = Nothing
    BY <2>2, <2>3, SameStore, NothingIn
  <2>5. QED
    BY <2>2, <2>4 DEF Stores
<1>2. QED
  BY <1>1, StoreInductive, PTL
=============================================================================
