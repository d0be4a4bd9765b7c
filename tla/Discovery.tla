---------------------------- MODULE Discovery ----------------------------
(***************************************************************************)
(* How a daemon announces itself and how a client decides to attach:       *)
(* daemon_descriptor.py (identity, fingerprint, publish, read), daemon.py  *)
(* (look_up_owner), with the private files of private_state.py and         *)
(* common_utils.py.  The daemons contend for the lock of DaemonLock, which *)
(* appears here as its holder; the protocol after attaching does not exist *)
(* in the repository yet.                                                  *)
(***************************************************************************)
EXTENDS Naturals, FiniteSets

CONSTANTS
    Owner,          \* daemon instances, numbered as they are elected
    Party,          \* what daemons may be started with
    ClientParty,    \* what clients may be started with
    Spelling,       \* names of the profile that differ only in case
    Folds,          \* the volumes tried: TRUE where case does not count
    Nothing,        \* no daemon, no descriptor, no verdict
    MaxEvents       \* bound on rotations of the profile and damage together

ASSUME OwnerAssumption == Owner \subseteq Nat

ASSUME NothingAssumption ==
    /\ Nothing \notin Owner
    /\ Nothing \notin {"absent", "untrusted", "incompatible", "attachable"}

ASSUME FoldsAssumption == Folds \subseteq BOOLEAN

ASSUME PartyAssumption ==
    Party \cup ClientParty \subseteq
                    [spelling : Spelling, runtime : {"host", "container"},
                     auto : {"unset", "on", "off"},
                     password : {"unset", "empty"}, agent : {"unset", "empty"}]

VARIABLES
    holder,    \* the daemon that holds the lock, or Nothing
    own,       \* each daemon: its progress, its party, what it will publish
    dir,       \* who may look into the daemon's directory
    token,     \* the file token-<instance> of each daemon
    file,      \* daemon.json: a descriptor, or Nothing
    entries,   \* the listing of the profile's parent
    folds,     \* whether the volume takes all spellings for one directory
    resolves,  \* whether a host name leads to this machine
    look,      \* the client's look-up
    rotations, damage

discoveryVars == <<holder, own, dir, token, file, entries, folds, resolves, look,
                   rotations, damage>>

-----------------------------------------------------------------------------
(* Identities and fingerprints *)

SameDir(s, t) == s = t \/ folds

\* An identity that changes when the directory comes into being.
ProfileIdentityOfDirectory(s) == <<s, s \in entries>>

\* The name as the listing holds it, where the volume says it is the same.
ProfileIdentity(s) ==
    IF s \notin entries /\ \E e \in entries : SameDir(e, s)
    THEN CHOOSE e \in entries : SameDir(e, s)
    ELSE s

\* An empty password would be folded into "no password".
NormalizeFolding(p) ==
    [auto |-> p.auto # "off", password |-> "unset", agent |-> "unset"]

\* Unset and on are one import setting, an empty agent is no agent, but an
\* empty password is a password.
Normalize(p) ==
    [auto |-> p.auto # "off", password |-> p.password, agent |-> "unset"]

\* Keyed with the token, so it also says whose token was used.
ConfigFingerprint(p, key) ==
    [key |-> key, dir |-> ProfileIdentity(p.spelling), config |-> Normalize(p)]

Build(o) ==
    [by |-> o, form |-> "sound", endpoint |-> "literal", runtime |-> own[o].party.runtime,
     identity |-> ProfileIdentity(own[o].party.spelling),
     fingerprint |-> ConfigFingerprint(own[o].party, o)]

-----------------------------------------------------------------------------
(* A daemon: elected, listening, publishing *)

NoToken == [is |-> "none", text |-> Nothing, private |-> TRUE, inode |-> 0]

Goes(o, pc) == own' = [own EXCEPT ![o].pc = pc]

\* The kernel frees the lock of a process that ended.
Gone(o) == /\ own' = [own EXCEPT ![o].pc = "dead", ![o].desc = Nothing]
           /\ holder' = Nothing

Elect(o, p) ==
    /\ own[o].pc = "off"
    /\ \A before \in Owner : before < o => own[before].pc # "off"
    /\ holder = Nothing
    /\ holder' = o
    /\ own' = [own EXCEPT ![o].pc = "elected", ![o].party = p]
    /\ UNCHANGED <<dir, token, file, entries, folds, resolves, look, rotations, damage>>

\* Once it listens, on an address of this machine, it assembles its descriptor.
Listen(o) ==
    /\ own[o].pc = "elected"
    /\ own' = [own EXCEPT ![o].pc = "listening", ![o].desc = Build(o)]
    /\ UNCHANGED <<holder, dir, token, file, entries, folds, resolves, look,
                   rotations, damage>>

\* One name for the token of every generation.
TokenPathFixed(o) == CHOOSE x \in Owner : TRUE

TokenPath(o) == o

\* harden_directory: also one that was there before, made with a wide umask.
HardenDirectory(o) ==
    /\ own[o].pc = "listening"
    /\ dir' = "private"
    /\ Goes(o, "prepared")
    /\ UNCHANGED <<holder, token, file, entries, folds, resolves, look,
                   rotations, damage>>

\* A file appears at its name at once and whole, with whatever the directory's
\* access list grants beside its mode.
SecureWriteText(t, text, alone) ==
    [is |-> "file", text |-> text, private |-> alone, inode |-> t.inode]

WriteToken(o) ==
    /\ own[o].pc = "prepared"
    /\ \E alone \in BOOLEAN :
         token' = [token EXCEPT ![TokenPath(o)] = SecureWriteText(@, o, alone)]
    /\ Goes(o, "written")
    /\ UNCHANGED <<holder, dir, file, entries, folds, resolves, look, rotations, damage>>

\* harden_file refuses a link, and holds the file by its descriptor.
OpenToken(o) ==
    /\ own[o].pc = "written"
    /\ token[TokenPath(o)].is = "file"
    /\ own' = [own EXCEPT ![o].pc = "opened",
                          ![o].inode = token[TokenPath(o)].inode]
    /\ UNCHANGED <<holder, dir, token, file, entries, folds, resolves, look,
                   rotations, damage>>

\* Mode and owner; a volume may accept the change and ignore it.
Hardened(t, took) == [t EXCEPT !.private = @ \/ took]

\* The access list too, and everything that was set is read back.
ReadBack(t) == t.private

\* Through the descriptor: it is the file that was opened that becomes
\* private, whatever its name means by now.
HardenToken(o) ==
    /\ own[o].pc = "opened"
    /\ IF token[TokenPath(o)].inode = own[o].inode
       THEN \E took \in BOOLEAN :
              LET t == Hardened(token[TokenPath(o)], took)
              IN ReadBack(t) /\ token' = [token EXCEPT ![TokenPath(o)] = t]
       ELSE UNCHANGED token
    /\ Goes(o, "hardened")
    /\ UNCHANGED <<holder, dir, file, entries, folds, resolves, look, rotations, damage>>

\* Without asking whether the name still means that file.
VouchesForAnything(o) ==
    /\ own[o].pc = "hardened"
    /\ own' = [own EXCEPT ![o].pc = "vouched",
                          ![o].inode = token[TokenPath(o)].inode]
    /\ UNCHANGED <<holder, dir, token, file, entries, folds, resolves, look,
                   rotations, damage>>

\* is_still_at: the name still means the file that was made private.
VouchForToken(o) ==
    /\ own[o].pc = "hardened"
    /\ token[TokenPath(o)].is = "file"
    /\ token[TokenPath(o)].inode = own[o].inode
    /\ Goes(o, "vouched")
    /\ UNCHANGED <<holder, dir, token, file, entries, folds, resolves, look,
                   rotations, damage>>

WriteDescriptor(o) ==
    /\ own[o].pc = "vouched"
    /\ file' = own[o].desc
    /\ Goes(o, "published")
    /\ UNCHANGED <<holder, dir, token, entries, folds, resolves, look, rotations, damage>>

\* A step of publish fails: a token that cannot be vouched for is taken away
\* again where that works, and the daemon gives up.
Fail(o) ==
    /\ own[o].pc \in {"listening", "prepared", "written", "opened", "hardened", "vouched"}
    /\ token' \in {token} \cup
           (IF own[o].pc \in {"written", "opened", "hardened"}
            THEN {[token EXCEPT ![TokenPath(o)].is = "none"]}
            ELSE {})
    /\ Gone(o)
    /\ UNCHANGED <<dir, file, entries, folds, resolves, look, rotations, damage>>

\* It dies where it is: the kernel frees the lock, and what it wrote stays.
DaemonDies(o) ==
    /\ holder = o
    /\ Gone(o)
    /\ UNCHANGED <<dir, token, file, entries, folds, resolves, look, rotations, damage>>

-----------------------------------------------------------------------------
(* What happens around them *)

\* A new session moves the old profile away; a browser makes a new one,
\* under the name some server was given.
Rotate ==
    /\ rotations + damage < MaxEvents
    /\ rotations' = rotations + 1
    /\ \/ \E s \in entries : entries' = entries \ {s}
       \/ \E s \in Spelling : /\ \A e \in entries : ~SameDir(e, s)
                              /\ entries' = entries \cup {s}
    /\ UNCHANGED <<holder, own, dir, token, file, folds, resolves, look, damage>>

\* Something else comes to lie where a token or the descriptor was.
Damage ==
    /\ rotations + damage < MaxEvents
    /\ damage' = damage + 1
    /\ \/ \E o \in Owner, is \in {"none", "file", "link"} :
            /\ token[o].is # "none"
            /\ token' = [token EXCEPT ![o] = [is |-> is, text |-> Nothing, private |-> FALSE,
                                              inode |-> @.inode + 1]]
            /\ UNCHANGED <<file, resolves>>
       \/ /\ file # Nothing
          /\ \/ \E endpoint \in {"elsewhere", "name"} :
                  file' = [file EXCEPT !.endpoint = endpoint]
             \/ \E form \in {"garbled", "versioned"} :
                  file' = [file EXCEPT !.form = form]
          /\ resolves' \in BOOLEAN
          /\ UNCHANGED token
    /\ UNCHANGED <<holder, own, dir, entries, folds, look, rotations>>

-----------------------------------------------------------------------------
(* A client's look-up *)

Working == {"reading", "serving", "token", "judged"}

Reading(p, expired) == [pc |-> "reading", party |-> p, expired |-> expired,
                        desc |-> Nothing, verdict |-> Nothing]

\* With no budget, or with one that has run out, it reads only once.
LookUp(p) ==
    /\ look.pc \in {"idle", "done"}
    /\ \E expired \in BOOLEAN :
         look' = Reading(p, expired)
    /\ UNCHANGED <<holder, own, dir, token, file, entries, folds, resolves,
                   rotations, damage>>

Expire ==
    /\ look.pc \in Working
    /\ ~look.expired
    /\ look' = [look EXCEPT !.expired = TRUE]
    /\ UNCHANGED <<holder, own, dir, token, file, entries, folds, resolves,
                   rotations, damage>>

Judged(verdict) == look' = [look EXCEPT !.pc = "judged", !.verdict = verdict,
                                        !.desc = file]

EndpointIsLocal(d) ==
    \/ d.endpoint = "literal"
    \/ d.endpoint = "name" /\ resolves

FieldsOfShape(d) == d.form # "garbled"

FromMapping(d) == FieldsOfShape(d) /\ EndpointIsLocal(d)

\* And it is of this client's schema and protocol.
Trusted(d) == FromMapping(d) /\ d.form # "versioned"

\* read(), then the runtime: both before the profile or the token is touched.
ReadDescriptor ==
    /\ look.pc = "reading"
    /\ \/ file = Nothing /\ Judged("absent")
       \/ file # Nothing /\ ~Trusted(file) /\ Judged("untrusted")
       \/ /\ file # Nothing /\ Trusted(file)
          /\ file.runtime # look.party.runtime
          /\ Judged("incompatible")
       \/ /\ file # Nothing /\ Trusted(file)
          /\ file.runtime = look.party.runtime
          /\ look' = [look EXCEPT !.pc = "serving", !.desc = file]
    /\ UNCHANGED <<holder, own, dir, token, file, entries, folds, resolves,
                   rotations, damage>>

Serves ==
    /\ look.pc = "serving"
    /\ look' = IF ProfileIdentity(look.party.spelling) = look.desc.identity
               THEN [look EXCEPT !.pc = "token"]
               ELSE [look EXCEPT !.pc = "judged", !.verdict = "incompatible"]
    /\ UNCHANGED <<holder, own, dir, token, file, entries, folds, resolves,
                   rotations, damage>>

\* A regular file at the name itself, and small enough to be the daemon's.
ReadOwnFile(t) == t.is = "file"

\* Only the token makes the client's own fingerprint comparable.
Fingerprinted(t) == ConfigFingerprint(look.party, t.text) = look.desc.fingerprint

\* read_token, then the configuration.
ReadToken ==
    /\ look.pc = "token"
    /\ LET t == token[TokenPath(look.desc.by)]
       IN look' = [look EXCEPT !.pc = "judged", !.verdict =
            IF ~ReadOwnFile(t) \/ t.text # look.desc.by THEN "untrusted"
            ELSE IF ~Fingerprinted(t) THEN "incompatible"
            ELSE "attachable"]
    /\ UNCHANGED <<holder, own, dir, token, file, entries, folds, resolves,
                   rotations, damage>>

\* Only an absent daemon would be waited for.
ReturnSettled ==
    /\ look.pc = "judged"
    /\ look' = IF look.expired \/ look.verdict # "absent"
               THEN [look EXCEPT !.pc = "done"] ELSE Reading(look.party, FALSE)
    /\ UNCHANGED <<holder, own, dir, token, file, entries, folds, resolves,
                   rotations, damage>>

\* Every verdict but attachable is waited out while there is time.
Return ==
    /\ look.pc = "judged"
    /\ look' = IF look.expired \/ look.verdict = "attachable"
               THEN [look EXCEPT !.pc = "done"] ELSE Reading(look.party, FALSE)
    /\ UNCHANGED <<holder, own, dir, token, file, entries, folds, resolves,
                   rotations, damage>>

-----------------------------------------------------------------------------

DiscoveryInit ==
    /\ holder = Nothing
    /\ own = [o \in Owner |-> [pc |-> "off", party |-> Nothing, desc |-> Nothing, inode |-> 0]]
    /\ dir \in {"wide", "private"}
    /\ token = [o \in Owner |-> NoToken]
    /\ file = Nothing
    /\ folds \in Folds
    /\ entries \in {S \in SUBSET Spelling : folds => Cardinality(S) <= 1}
    /\ resolves = TRUE
    /\ look = [pc |-> "idle", party |-> Nothing, expired |-> FALSE, desc |-> Nothing,
               verdict |-> Nothing]
    /\ rotations = 0
    /\ damage = 0

OwnerStep(o) ==
    \/ \E p \in Party : Elect(o, p)
    \/ Listen(o) \/ HardenDirectory(o) \/ WriteToken(o) \/ OpenToken(o) \/ HardenToken(o)
    \/ VouchForToken(o) \/ WriteDescriptor(o) \/ Fail(o) \/ DaemonDies(o)

ClientStep == ReadDescriptor \/ Serves \/ ReadToken \/ Return

DiscoveryNext ==
    \/ \E o \in Owner : OwnerStep(o)
    \/ Rotate \/ Damage
    \/ (\E p \in ClientParty : LookUp(p)) \/ Expire \/ ClientStep

\* A look-up goes on by itself; daemons, users and clocks owe it nothing.
DiscoverySpec == DiscoveryInit /\ [][DiscoveryNext]_discoveryVars /\ WF_discoveryVars(ClientStep)

-----------------------------------------------------------------------------
(* Properties *)

\* What two parties must agree on, said without the code's normal forms: one
\* runtime, one profile directory, the same import setting (on unless off)
\* and the same proxy password, where an empty one is a password.
Compatible(p, q) ==
    /\ p.runtime = q.runtime
    /\ SameDir(p.spelling, q.spelling)
    /\ (p.auto = "off") = (q.auto = "off")
    /\ p.password = q.password

Attached == look.pc = "done" /\ look.verdict = "attachable"

(* look_up_owner hands out a token only for a daemon on this machine that   *)
(* was started for the client's own profile, runtime and browser settings,  *)
(* however files and directories changed between its reads.                 *)
AttachedRightly ==
    Attached => /\ look.desc.endpoint \in {"literal", "name"}
                /\ Compatible(own[look.desc.by].party, look.party)

(* A client is not turned away for nothing.  Without damage to the files it   *)
(* never calls a daemon untrusted: a restart between its read of the          *)
(* descriptor and its read of the token is not taken for corruption.  And a   *)
(* daemon it could use is not called incompatible, whether or not the profile *)
(* directory exists at the moment each of them looks, where case              *)
(* distinguishes directories.                                                 *)
RefusedRightly ==
    /\ look.verdict = "untrusted" => damage > 0
    /\ ~folds /\ look.pc \in {"judged", "done"} /\ look.verdict = "incompatible" =>
         ~Compatible(own[look.desc.by].party, look.party)

(* A descriptor on disk, also one a crash left there, has its daemon's own  *)
(* private token beside it: publish vouches for the file that bears the     *)
(* name, not for one that used to.  And a token is at no moment readable by *)
(* another account: until its own mode and access list have been vouched    *)
(* for, its directory keeps others out.                                     *)
TokenGuarded ==
    /\ file # Nothing =>
         LET t == token[file.by]
         IN /\ t.inode = own[file.by].inode => t.is = "file" /\ t.private
            /\ damage = 0 => t.text = file.by
    /\ \A o \in Owner : token[o].is = "file" /\ token[o].text = o =>
         dir = "private" \/ token[o].private


Usable(o) ==
    /\ own[o].pc = "published" /\ holder = o
    /\ damage = 0 /\ ~folds
    /\ look.pc # "idle"
    /\ Compatible(own[o].party, look.party)

(* A look-up that still has time finds a compatible daemon that published,  *)
(* although what it was reading before was the file of a dead one.          *)
Attaches ==
    \A o \in Owner :
        (look.pc \in Working /\ ~look.expired /\ Usable(o))
            ~> (Attached \/ look.expired \/ ~Usable(o))
=============================================================================
