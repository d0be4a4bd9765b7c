# Verification of linkedin-lyr

TLA+ models, TLC runs and TLAPS proofs for the concurrent core of
`linkedin_mcp_server`: the processes that share one LinkedIn browser profile,
the locks they share it by, the session they keep in it, how a browser and a
session come to be there, and the tools that write to LinkedIn and read from it
through it.

Every MCP client starts a server process of its own. All of them, and every
`--login`, `--import-from-browser` and `--logout`, work on the same directory:
a browser profile, `cookies.json` and `source-state.json`. The program's hard
part is that nothing but its own protocol keeps these processes apart: the
browser does not refuse a second instance, and the last one to close overwrites
the other's cookies (`profile_lease.py:1-10`).

## The system and its parts

| Part | Code | State it keeps | Operations | What makes it correct |
|---|---|---|---|---|
| profile lease | `profile_lease.py` | per process: lock descriptor, reference count, owner pid, announcements; per host: locks on `profile.lock`, `profile.handoff` | `try_acquire`, `acquire`, `release`, `handoff_requested`, announcements, at-fork hook | one owner; no lock outlives its owner; waiters are seen |
| middleware | `sequential_tool_middleware.py` | asyncio lock, calls in flight | `on_call_tool` | each call has the lease, gives back what it took, ends |
| browser singleton | `drivers/browser.py`, `core/obscura_browser.py` | `_browser`, `_browser_holds_lease`, `_calls_in_flight`, the Obscura process on a fixed CDP port, cookies cached at its start | create, reuse, close (exports cookies), `release_if_idle` | one browser per profile; no close or start under a running call; no old cookies over new ones |
| readiness and re-login | `bootstrap.py`, `dependencies.py` | setup state, auth state, one shared login task | gate of every tool, login started in the background, confirm-before-destroying | no working session is given up; an ended login leaves a settled state |
| login | `setup.py` | `_LoginState`, liveness flag of the lease | `interactive_login` | every exit settles lease, flag and retired session |
| session state | `session_state.py` | the four artifacts of a session, quarantine directories | rotate, restore, clear, exclusive access | a session is whole in one place |
| session import | `browser_import/*` | candidates from the user's browsers | rotate, validate, commit or restore | as for login |
| session sources | `dependencies.py`, `session_pool.py`, `obscura_daemon_integration.py`, `voyager_auth.py` | the stored jar, the pool's files, the daemon's cache | find a session, probe it, retire, quarantine, prune | of the sessions that were asked about, only what is dead is given up |
| daemon lock | `daemon_lock.py` | lock held for a process's life | acquire, hand to a child, adopt, release | one daemon; hand-over without a gap |
| daemon discovery | `daemon.py`, `daemon_descriptor.py` | token and descriptor files | publish, read, validate, remove | no reader trusts a dead or a half-published daemon |
| connection pool, batching, async execution | `core/obscura_connection_pool.py`, `core/obscura_request_optimizer.py`, `core/obscura_async_operations.py` | pools, pending batches, retry counts | acquire, release, batch, retry | bounds kept, everybody answered |
| cookies | `core/obscura_cookie_management.py`, `cookie_import.py`, `browser_cookie_extractor.py` | cached cookies | validate, extract, decrypt | nothing invalid is cached |
| private files | `private_state.py`, `windows_acl.py`, `common_utils.py` | permissions | atomic writes, hardening | no partial file is read |
| updates | `updater.py`, `update_check.py`, `core/obscura_binary_manager.py` | cached answers, installed binary | check, install | an answer from the cache is not older than allowed |
| profile, connection and message tools | `scraping/extractor.py`, `scraping/connection.py`, `tools/person.py`, `tools/messaging.py` | the page, which outlives the call | read sections, classify, accept, invite, write a message | the member named is written to, once; a refusal means nothing was accepted, no message typed; where the code falls short of its comments is below |
| reading tools | `scraping/extractor.py`, `tools/company.py`, `tools/job.py`, `tools/feed.py` | the page, the route of the messaging app, posts captured from responses | company pages, searches, job listings, inbox and conversations, feed | what is filed under a name is of it; rows of others are not clicked; every loop ends |
| references | `scraping/link_metadata.py` | links and captured permalinks | normalise, classify, label, deduplicate, cap | pages capped one by one list what one cap at the end would |
| configuration, tools, CLI, logging, metrics | the rest | settings | formatting, registration | |

How they interact: a tool call takes the in-process lock, then the lease, then
passes the readiness gate (which may start the login task and wait for it), then
gets or starts the singleton browser, runs, and gives the lease back. The login
task runs in the same event loop, takes a further reference to the same lease
and closes the singleton first. Between two awaits nothing else runs in a
process; between processes only kernel locks, files and the CDP port are shared.
Processes die at any point: the kernel drops their locks, their Obscura lives on.

What is hard: two processes and, within each, a call, a login and a close that
interleave at every await; locks shared by fork; lock files replaced under their
holders; references that must balance on every failure and cancellation; state
checked minutes before it is used (the login); cookies cached in one browser
while another process logs in; navigations that miss a deadline and load later,
under the next step or the next call.

`PROJECT.json` lists every part with its status, and the hazards at their lines.

## Modules

| Module | Models |
|---|---|
| `FileLock` | the kernel's side: open file descriptions, flock modes, inodes at paths, close, fork, replaced files |
| `ProfileLease` | `profile_lease.py` on `FileLock`, a step per system call |
| `ProfileOwnership` | what the lease promises: an owner or none, never two, never passed on without being free between |
| `DaemonLock` | `daemon_lock.py` on `FileLock`: election, hand-over to a supervisor, adoption, probe, forks and launches |
| `DaemonOwnership` | what the daemon lock promises: one line of succession at a time, begun only when there is none, joined only by a process that a member starts with its very lock |
| `Discovery` | `daemon_descriptor.py`, `daemon.py` and the private files: publication by daemons that die anywhere, and the look-up of a client |
| `BrowserServer` | middleware, singleton, readiness gate, login, rotation: a tool call from queue to release, beside a login, in several processes |
| `BrowserSetup` | `bootstrap.py`: setup, import and login tasks behind the gate, in one process |
| `SessionStore` | the stored session piece by piece, and every flow that replaces it: login, import, retirement, logout, session import |
| `SessionSources` | where a call finds a session (daemon, stored jar, pool), the probe, and what is given up on its verdict |
| `LinkedInPage` | the one page and `_goto_with_auth_checks`: deadlines, the retry, barriers, loads that come late |
| `ProfileScrape` | a tool call on that page, and `scrape_person` |
| `ConnectTool` | `connect_with_person`: signals, classification, accept, write gate, invitation dialog, verification |
| `MessageTool` | `send_message`: compose page, recipient, confirmation, typing, sending |
| `LinkedInTools` | the composition of the tools that write: calls one after another on the page the last one left |
| `JobLists` | `search_jobs`, `get_saved_jobs`: page after page, each read in three goes |
| `Conversations` | `get_inbox`, `search_conversations`, `get_conversation`: rows that are clicked to learn their thread |
| `FeedScroll` | `get_feed`: the scroll loop beside the tasks that read responses |
| `LinkedInReads` | the composition of the tools that read, with the one-page tools and the searches |
| `References` | `link_metadata.py` and its callers: the links of a page and the permalinks of the feed |
| `ConnectionPool`, `RequestBatcher`, `AsyncExecutor` | three helpers of `core/` that only their tests use yet |
| `Helpers` | the last four side by side, for one run; they share no state |
| `MC...` | instances for TLC |
| `FileLockProofs` | lemmas about the kernel's table that both locks' proofs rest on |
| `ProfileLeaseProofs`, `DaemonProofs` (lock and discovery), `BrowserServerProofs`, `SessionStoreProofs`, `ReadinessProofs` (setup, session sources, connection pool, batching, async execution, references), `LinkedInToolsProofs`, `LinkedInReadsProofs` | theorems |

### ProfileLease

One action per system call of `acquire_locked_fd` (`Open`, `TryLock`, then
`Succeeds`, `Retry`, `Busy` or `Unavailable`), because another process may
replace the lock file, fork or die between any two. `op` says on whose behalf the
loop runs (`try`, `wait`, `poll`, `announce`, `probe`); `fd`, `refs`, `ownerPid`
are `_fd`, `_refs`, `_owner_pid`; `using` is a history variable: the callers
between their acquire and their release. `Fork` copies a process with its
descriptors, `ForkHook` is `_discard_inherited_leases`; both locks are shared by
forked copies of a descriptor, as flock's are. `ReplaceHeld` says whether another
program may replace `profile.lock` also while it is locked.

### DaemonLock

`proc` is the life of a process (a forked child's hook still has to run, a
supervisor may have failed to adopt, a launched program is no server at all);
`fd`, `ownerPid` and `inheritable` are the lock object, `copy` the duplicate that
`inheritable_copy` returned, `pc` and `tryFd` where `acquire_locked_fd`, `adopt` or
the probe is and the descriptor it works on. A duplicate is a second variable that
names the same open file description, which stays open until the last is closed;
`Launch` gives a new process one, `AdoptStat`, `AdoptLock`, `Adopted` and
`NotAdopted` are `adopt` between its system calls. `LaunchUnlocked` is the
descriptor `adopt` warns of, the right file without a lock. The launches are
external: this repository has the lock, not yet the code that elects and spawns.

`DaemonOwnership` is the promise. `line` is the set of processes that have the lock
or are handed it, `lock` the one lock the line is held by, `started` the processes
there are or were. `Elect` is for a process that is there already, and only while
the line is empty. `HandOver(p, q)` starts `q` by a member `p`, and `q` gets the very
lock `p` has; a process that is there already can never join a line.

### Discovery

`own` is a daemon's progress through `publish`: its token (written beside, vouched
for, moved), the check that the name still means the file, and the descriptor; a
failure, which takes an unvouched token away, or its death may follow any step.
`look` is `look_up_owner` between its reads of the descriptor, the lock and the
token and the judgement of what they say; a daemon that goes away between them
sends it back. A
profile's identity is its name as its parent lists it (`ProfileIdentity`), which
rotations may take away and bring back, on volumes that fold case and others.
The fingerprint's normal forms are written as the code writes them and judged
against `Compatible`, which says plainly what two parties must agree on.

### BrowserServer

An action is the code between two awaits. The lease is the abstraction that
`ProfileLease` was shown to implement: `TakeRef` when no other process has a
reference. `call[p]` is where the process's tool call is: `queued` (for the
lease), `gate` (`ensure_tool_ready_or_raise`), `wait` (the inline wait for a
login), `ready`, `launch` and `check` (inside `get_or_create_browser`), `tool`,
`close` (close_session), `relogin` (`handle_auth_error`), `finish`, `shutdown`,
`exit`. `login[p]` is where its login is: `prepare` (installing the browser),
`close` (`close_browser`), `rotate`, `clear`, `launch`, `open`, `saved`,
`failed`, `undo`. `store` is the session on disk; `jar` holds the number of the
LinkedIn session it was minted with, so that an older one over a newer one shows;
`cookies` and `fresh` are what the singleton's and the login's manager cached.
`obscura` is the process on the CDP port with its user; `orphan` is one whose
owner is gone.

Abstractions: one host; the Obscura backend; auto-import off and the session
pool empty; rotation and restore are one step each and a failed rotation has put
everything back; the four artifacts of a session are the profile directory, the
source state and the jar; a probe of a stored session never says dead unless
`HttpProbe` (`LINKEDIN_HTTP_PROBE`, off by default) lets it; a process has one
call past its asyncio lock at a time, so queued calls beside it are not state.
A call or a login may fail at any await.

### BrowserSetup

The tasks of one server's event loop: `setup` and `login` are the stage each task
is at or how it ended, `setupState` what `_state` says of it (which is not the
same between an end and the next call, that reaps it), `toolCall` where the one tool
call is. `installed` and `metadata` are the directories and the file on disk,
which a command-line installer (`cli`) and hands may change. `attempted` and
`headless` are the flags the silent import claims and forces; `imports` counts
imports since the session was last given up. A managed browser, a container and
the operator's own Chrome are configurations of the same run.

### SessionSources

A jar is the session whose `li_at` it holds. `call` goes from `ask` (the daemon)
over `local` (the stored jar) and `pool` to `boot` and `work`, and from an authwall
over `confirm` (the probe, awaited) to `close` and `invalidate`; `walk` is
`prune_dead_sessions`, which awaits between names while files change. `Answers`
is what LinkedIn or something before it may answer, `Attempt` the relay, the
direct request after it, and whether its address is trusted; LinkedIn may end a
session because it was shown one outside a browser.

### SessionStore

What `BrowserServer` takes as one step each, move by move. A session is four
pieces (`_auth_state_targets`); a piece carries the number of the session it was
made for, at the active paths (`live`), in the directory a rotation moved it to
(`box`), or beside that one (`debris`, the `-superseded` directory of a restore).
`pc` walks through the flow that runs: `rotate` and `undo`
(`rotate_source_profile`), `launch` to `closing` (`_run_login`), `stage`, `validate`
and `verdict` (`_import_first_accepted`), `cleanup` (the finally of both), `park`,
`back` and `reretire` (`_restore_source_profile_locked`), `clear`
(`clear_auth_state`). `cancelled` is what `run_deferring_cancels` holds back; `late`
are candidates whose staging thread has lost its are candidates whose staging thread has lost its flow; `running` is a browser of
the flow whose process was not terminated. `committed`, `spoilt`, `before`, `clean`
and `strays` are history; the last are the sessions whose profile a rejection could
not remove (`Rejected`, whose `rmtree` ignores errors) or whose cookies were written
without the lease (`Overwrites`: `--import-session` and a staging thread that has lost
its flow). `LogoutFindsNothing` is a logout with nothing at the active paths, which
succeeds at once and looks at no quarantine.

Abstractions: a process runs one flow at a time, which the tool-call middleware
and the bootstrap gate see to, and the lease keeps other processes out, so one
set of variables stands for the flow that runs. A `SingletonLock` of somebody
else's browser is a nondeterministic refusal (`Refused`). The derived runtimes are
one piece. A validation browser whose close reports
False exists in the interface, not in the Obscura manager.

### LinkedInTools and the modules it composes

The middleware lets one tool call run at a time, so a call is a program counter
(`pc`), its arguments (`who`, `note`, `text`, `confirm`, `urn`) and locals; what
makes it hard is the page, which it shares with the calls before it and with the
engine. `nav` walks through `_goto_with_auth_checks`; after a second missed
deadline the code goes on with whatever the page shows (`DeadlineAgain`), and the
load that missed may replace the page at any later step (`late`, `LateLoad`). A
cancel ends a call anywhere and leaves page, dialog and draft as they are.

LinkedIn is the environment. `rel` is how each member stands to the account and
`shown` what its pages show of it, which lags behind (`Propagate`). It may answer a
navigation with a page of its own, open its invitation dialog also for follow-only
members (`Invitable`), put the Premium upsell in a dialog's place, show Connect
anchors and Message buttons of other members on cards, and keep a draft.
`Signals` is what `_ACTION_SIGNALS_JS` may find on the page there is, `Detect` the
classification. `ConnectTool` names its actions after the outcomes of
`connect_with_person`; `submit` to `pressed` are `_submit_invite_dialog`.
A click on Send may land and still raise (`PressFails`), whereupon the code presses
Enter on the dialog, which may send a second time. `MessageTool` goes from the name
(`named`) over the compose link (`href`), the surface, the picker and the box to
`match`, `type`, `send` and `visible`. Names are compared by containment, as the code
does: a member's user name may begin another's (`Longer`), his display name may be
contained in another's (`Within`), compose pages may hold further names (`Listed`),
and `MatchesName` is whoever the check then takes for him. `done` is a history, in
order, of what the call did and whom it reached: `note` and `typed` for texts,
`invite`, `accept` and `message` for what went to LinkedIn, `unseen` for an invitation
that went while the code took it for failed. `got` is the page each section's text
was read from.

Abstractions: a section is read in one step after its navigation (scrolling and
"Show more" click only within it); modals other than the invitation dialog are not
state; a text is typed in one step; the remember-me prompt never resolves
(`core/auth.py:55-59`), so its branches are dead.

### LinkedInReads and the modules it composes

The same page, the same navigation, the same late loads, under the loops that
read. A listing's text, its route with the number of pages and its job ids are
three actions, between which the document may change; of the ids a page shows,
those no page before had are added in its order (`NewIds`). The messaging sidebar
has no links: of the inbox (`Inbox`) or of what a search found (`Found`), the rows
whose name is `Wanted` are clicked, one after another (`clicked` is history: that
marks a conversation as read), the app shows its thread some time later (`coming`), and the route then is
taken for the row's, also when the wait has ended before that (`slow`) and the route
still names the thread the app had open by itself (`opened`). In the feed, responses arrive while the loop waits and are
read by tasks: at once (`reading`) or not before the drain is over (`stuck`).

### Helpers

`ConnectionPool`: an action is what a method does under `_pool_lock`; only
`close_all` awaits before it, and the global pool may be replaced meanwhile.
`RequestBatcher`: `direct` is the request that a caller of a full queue runs with
the lock held, which is why the end of a batch may have to wait. `AsyncExecutor`:
slots, attempts and the deadline of an operation. `References`: a link is what its
address and its markup say of it (place, id, host, redirects, label lengths,
heading), and the operators are the functions of `link_metadata.py` in their order.

## Runs

| Run | cfg | Checks | Shows |
|---|---|---|---|
| lease | `ProfileLease.cfg` | `NoOrphanLock`, `CallersCovered`, `OwnershipSpec`, `AnnouncedWaiterSeen` | two processes with two callers each, four descriptors, forks and deaths, each lock file replaced once: one owner; every lock has an owner, an acquisition in progress or a fork hook still to run behind it; the count frees the lock exactly when the last caller is done; an owner that is told nobody waits is told the truth about announced waiters |
| browser | `BrowserServer.cfg` | `PageSafeFromOthers`, `OwnershipSpec` | two servers with logins of their own, a `--login` process, and sessions that may probe dead: no call loses its browser to another process, the profile changes hands only when free |
| browser_ends | `BrowserServerEnds.cfg` | `LeaseAccounted`, `CallsAndLoginsEnd` | a server beside a `--login` process: every path settles its references, every queued call and every started login ends |
| daemon_lock | `DaemonLock.cfg` | `OwnerKeepsLock`, `NoOrphanLock`, `FreeMeansFree`, `SuccessionSpec` | three processes elect, hand over, adopt, probe, fork and die while `daemon.lock` is replaced twice: one line of succession that no outsider joins, its lock never lost and never left behind |
| discovery | `Discovery.cfg` | `AttachedRightly`, `RefusedRightly`, `TokenGuarded`, `Attaches` | two daemons elected one after the other publish, fail and die anywhere while a client looks them up: it attaches only to its own, is refused only by a different one, and finds one that came up in time; no token is ever readable by others |
| session_store | `SessionStore.cfg` | `SessionWhole`, `OneDevice`, `RestoredUnlessCommitted`, `LogoutClears` | a server and the command line log in, import, retire, log out and import a portable session: whatever two failing moves, one death and any cancels do, a committed session is whole in one place, profile and metadata belong together but for the strays, a failed flow gives back what was there |
| tools | `LinkedInTools.cfg` | `OneWrite`, `RefusedUntouched`, `FreshWritesRequested`, `FollowOnlyUninvited` | any two calls of the three tools one after the other, with missed deadlines, late loads, cancels and lagging pages: no invitation to a follow-only member unless his user name begins another; a call writes once, but for an invitation repeated by Enter after a click that landed and raised; after a refusal at most an invitation the code did not see go has reached LinkedIn; the first call of a browser writes to whom it names, but for a message on a compose page that holds that name |
| reads | `LinkedInReads.cfg` | `FiledAsAsked`, `ConversationAsked`, `OwnRowsClicked`, `StaleMeansQuiet`, `EveryCallEnds` | any two calls of the reading tools on one page: on time, what is filed under a section or a listing is of it, only rows of the name are clicked, and the conversation answered is of the name unless the app left a click unanswered and it is the one the app had open; the feed is not given up while posts come; every loop ends |
| setup | `BrowserSetup.cfg` | `ImportAlone`, `ConfiguredMode`, `Recovers` | gate, setup, import, login and a command-line installer in every order with failures, cancels, invalidations and restarts: one import an episode, never beside a login; its launch mode never leaks; a browser comes back |
| sources | `SessionSources.cfg` | `OnlyDeadGivenUp` | a call looks for a session in three places and meets an authwall while the pool is changed and pruned and LinkedIn ends sessions: of the sessions that were asked about, only what is dead is given up |
| helpers | `Helpers.cfg` | `NoSharing`, `LimitKept`, `InUseKept`, `BatchServes`, `NothingStalls`, `ReferencesRight` | the pool is closed and replaced under its clients, requests are batched, flushed and cancelled, operations hang and retry, links are read: nothing shared, nothing deleted in use but by a close, no queue stays full, a batch that ends has answered its callers (a flush need not), no call hangs, pages cut one by one list the urls that one cut at the end would |
| tools_target | `LinkedInToolsTarget.cfg` | `WritesRequested` (expected to fail) | two gotos miss their deadline, the call works on the profile an earlier call left, and accepts that member's request |

Bounds. Three processes in the runs about contention, two that contend and one
that comes between; in `lease` two, with two callers each, because the count is
the question there and the theorems hold for any number. `MaxCalls` counts the
tool calls between a process's start and its death (deaths reset it, so executions
are unbounded): in `browser_ends` one call triggers a login and another opens a
browser the login has to close; in `browser` one suffices, since the other server
makes the second. `MaxKept` bounds logins whose browser does not start.
`Attempts` is 3 in `lease` because `acquire_locked_fd` gives up in the third round;
one replacement of each lock file suffices to part a descriptor from its path. In
`daemon_lock` two rounds and two replacements stand for three and three, and three
processes for elector, supervisor and rival (or their fork child). In `discovery`
two daemons are one that dies and its successor, the parties differ from the
client in one setting each, and `MaxEvents` is one rotation or one replaced file. In
`session_store` three sessions are one that is stored, one candidate that is
rejected and one that is accepted; two quarantines are a retirement before the
flow's own; two failures are a move and its undo (the session they part is
`spoilt`: the code logs it and promises nothing more), and one death parts one
session. In `tools` two calls are one that leaves a page, a dialog or a draft and
one that finds it; two members are the one asked for and another (`anna` may offer
Connect, `ann` may have the other relations, and either may be follow-only); `Urns`
adds a `profile_urn`; `ann`'s names are contained in `anna`'s (`Longer`, `Within`), and
compose pages may list `ann` (`Listed`).
In `reads` two members share a
display name and a third does not, the second page of a listing repeats a job of
the first; four scrolls, two stale rounds and two seconds stand for twelve, three
and six, and two posts are one that is read at once and one that is not. A click
may be answered within the wait or not. In `setup` everything is finite but the
monitor of imports, which two suffices to catch. In `sources` two sessions and two names are the one
asked about and one that takes its place. In `helpers` three clients and two slots
contend, three connections and two pools are one in use, one idle and one of the
pool that replaced theirs; four requests fill a queue of three and leave one
that runs by itself; three operations wait for two slots; two pages and four
links exceed every cap. Deadlock is checked in the browser runs, where a
process can always die, and in `setup`, `sources` and `discovery`; the lock runs
stop when every process is dead, the session, tool and helper runs when what their
bounds allow is used up, so they do not check it.

`tools_target` is expected to find a violation: the docstring of
`connect_with_person` rules out what the trace shows, and `PROJECT.json` quotes it.

### Other disagreements met while modelling

Nor do the following sentences of docstrings, comments and tests hold. Each is
stated as a property of its module without an exception, and TLC finds a
counterexample with the values named; the properties of the passing runs beside
them, and their theorems, say with the exception how much of the sentence is true.

* `BrowserServer!ExportNeverOlder` fails with `MaxSessions = 2` in `browser`: a server
  exports the session it cached over that of a later `--login`, since the singleton
  takes no reference to the lease, so the lease is free while its browser is open.
* `BrowserServer!SuccessHasSession` fails with the values of `browser`: a login that got no
  session succeeds, and the working one stays retired.
* `SessionStore!FreshDevice` fails with `Kinds <- DeviceKinds`: every path that makes a
  session is said to rotate first (`session_state.py:511-516`), but `--import-session`
  puts the cookies of another session beside the profile and the metadata of the
  stored one (`cli_main.py:353`). `OneDevice` excepts cookies written without the
  lease.
* `SessionStore!CandidatesApart` fails with `Kinds <- ImportKinds`: a rejected
  candidate's profile that cannot be removed, which `_reset_profile_dir` ignores
  (`orchestrate.py:363`), is that of the next candidate, who is accepted on it.
  `OneDevice` excepts these too.
* `SessionStore!LogoutLeavesNothing` fails with `Kinds <- LogoutKinds`: "`--logout` clears
  the quarantines" (`session_state.py:519`, and `tests/test_session_state.py:354`), but
  one that finds nothing active, as after a retirement, exits with success at once
  and leaves them (`cli_main.py:129-136`). `LogoutClears` is about the others.
* `SessionStore!RestoredAfterTeardown` fails with `Kinds <- LoginKinds`: a close whose
  terminate was skipped counts as confirmed (`obscura_browser.py:455`), and the old
  session is moved back under the browser, which `setup.py:139-142` rules out.
* `LinkedInTools!GateHolds` fails with the values of `tools`: Connect anchors are found by
  `a[href*="...vanityName=name"]`, said to have "no false-positive risk"
  (`extractor.py:331`); the anchor of a member whose user name begins with the one asked for
  opens the gate, and a follow-only member is invited. `FollowOnlyUninvited` excepts
  members with such a namesake.
* `LinkedInTools!RefusalsTrue` fails with the values of `tools`: a click on Send that
  landed and raised, or an Enter after which the dialog takes longer than 2 s to
  close, is answered by connect_unavailable (`extractor.py:1128-1133`, `2135`, `2392`).
  `RefusedUntouched` and `OneWrite` except invitations the code did not see go.
* `LinkedInTools!RecipientVerified` fails with the values of `tools`: "Verify the compose
  page visibly identifies the intended recipient" (`extractor.py:2800`), but the name may
  be part of another's or stand anywhere in main (`extractor.py:2835-2837`).
  `FreshWritesRequested` excepts messages to such pages.
* `LinkedInReads!NoWrongThread` fails with the values of `reads`: when the app does not
  answer a click within 1.2 s, the thread it had open is taken for the row's
  (`extractor.py:4000-4011`), against "rather than returning a wrong-thread match"
  (`2896-2897`). `ConversationAsked` excepts that thread.
* `SessionSources!OnConfirmedDead` fails with the values of `sources`: "the destructive
  relogin only runs on a confirmed-dead verdict" (`dependencies.py:84`), but a live
  session stored while the probe of a dead one is out is moved aside on the verdict
  about the other (`bootstrap.py:976`). `OnlyDeadGivenUp` is about the session that was
  asked about.

And these, which no property states:

* The daemon answering that it has no cookies is final; the stored jar is not
  tried, though a comment in `dependencies.py` says so.
* `--export-session` and `--import-session` exit with 1 on the verdict "unknown",
  the only one there is unless the probe was opted into, though `cli_main.py:336`
  says "Structural check only".
* `prune_dead_sessions` removes by name: a file replaced while the probe runs goes
  with the verdict about its predecessor.
* `AsyncExecutor`: `execute_concurrent([])` with the flag on divides by zero
  (`obscura_async_operations.py:104`); `fetch_multiple_pages` files contents under
  wrong addresses after a failure (`:187`).
* `RequestBatcher`: nothing processes a queue that does not fill, since
  `batch_timeout` is never read (`obscura_request_optimizer.py:79`); a cancelled
  waiter fails those behind it in its batch.
* `ConnectionPool`: a close that races `initialize` abandons a pool with its cleanup
  task.
* `References`: a page of saved jobs is capped at 12, having no entry in
  `_REFERENCE_CAPS`, but all pages together at 15; the feed's references are cut at
  50 before those that are not posts are taken out; a better described link that is
  past its own page's cap does not represent its url in the listing.
* `tools/profile_edit.py` passes `public_id` to a constructor that does not take it.

Hazards that no property covers, beyond those listed with a note: an announcement
inherited by a fork (`profile_lease.py:612`); an inheritable duplicate inherited by
one (`daemon_lock.py:213`); a login whose check for a session is minutes old when it
rotates (`bootstrap.py:1050`); a browser started by a call while `close_browser` awaits
(`drivers/browser.py:422`); `decrement_calls_in_flight`, which has no caller
(`sequential_tool_middleware.py:144`); a death between two moves, which no later
start repairs (`session_state.py:545`); text of an old page filed after two missed
deadlines (`extractor.py:1773`), which `FiledAsAsked` sets apart by `missed`; a
message reported sent because its text is in the box (`extractor.py:2843`).

### Fairness

* `BrowserServer`: weak fairness of each process's own call and login: an event
  loop runs what can run, every `await` of a call or a login has a timeout (the tool
  timeout, `LOGIN_TIMEOUT`, navigation timeouts), and the failure that a timeout
  causes is an action of the same disjunction. `LOGIN_TIMEOUT=0` waits for the user
  without a limit (`setup.py:241-242`), so `CallsAndLoginsEnd` is about the others. Starting calls, dying and shutting
  down are never fair.
* `Discovery`: weak fairness of the client's own steps, each a read of a local file
  or a lock that does not block. Daemons are under no fairness.
* `BrowserSetup`: weak fairness of the server's start, the gate and the call's
  steps, that is of an event loop with calls coming; strong fairness of a stage of
  the installation, which `Recovers` needs because a download that always fails
  never brings a browser; the installer's process is waited for without a timeout
  (`bootstrap.py:377`), so that it ends is assumed. `Recovers` excuses binaries removed and servers restarted
  for ever.
* `LinkedInReads`: weak fairness of the call's own progress (navigations have
  deadlines, the steps of a loop are its own); none of what LinkedIn sends.
* `RequestBatcher` and `AsyncExecutor`: weak fairness of the running tasks (a request
  is assumed to be answered or to fail, an operation has a deadline); none of callers
  and cancels. A request that calls `add_request` itself would wait for its own lock;
  none in the repository does.

## Proofs

`FileLockProofs` says once what closing, opening, locking, forking and launching do
to the kernel's table: which locks weaken, and for whom nothing changes
(`Untouched`). The proofs about both locks cite it, so a step of one process is
settled by looking at that process only.

`ProfileLeaseProofs`, for any sets of processes, callers and descriptors:

* `Typing`: the type invariant, with the bound on `acquire_locked_fd`'s rounds.
* `Inductive`: the inductive invariant. Exclusion is not inductive by itself: it
  follows from what flock grants, so one must know that a descriptor a process
  works on is one it opened itself (`CallInv`), that an owner's descriptor is
  locked exclusively, open in the owner, and still at its path unless files are
  replaced under locks (`OwnerInv`), that announcements are shared locks of their
  own (`AnnouncementInv`), and that the count is the number of users
  (`CountInv`).
* `Covered`, `WaiterSeen`: properties the run checks. `Exclusive` and
  `LiveExclusive`, one owner, the second also when lock files are replaced under
  their owners (`ReplaceHeld`), which the run leaves to the proof. `Implements`: the
  lease implements `ProfileOwnership`.
* `NoneOrphaned`: `NoOrphanLock` from `OrphanInv`. Beside `IInv` it says that a lock
  is gone with the last descriptor of its file (`LocksOpen`), that an acquisition
  has a descriptor only between its open and its end (`TryShape`), and that every
  descriptor of `profile.lock` a process has open is its lease's or its
  acquisition's (`Accounted`). A step then only has to name what it gives up
  (`GivesUp`) and forget exactly that.

`BrowserServerProofs`, for any processes, calls, logins and sessions:

* `LeaseInductive`: `IInv` says that references are typed, accounted for
  (`LeaseAccounted`), exclusive, and that a close on a login's behalf belongs to a
  login that is closing (`CloserShape`, without which the step that ends a close
  could take a reference for a login that is elsewhere). Each action is shown to
  settle its own process's references (`CallSettles`, `LoginSettles`,
  `EnvironmentSettles`), and a settled step keeps the invariant (`SettledKeeps`).
* `References`: `LeaseAccounted`; `OneUserAtATime` is what it is for.
  `BrowserImplements`: references implement `ProfileOwnership`.
* `BrowserTypes`: the values of every variable. The counters stay within their
  bounds because a queued call has still to be counted and a login past its
  preparation has left nothing behind yet (`Counted`); sessions come from the jar,
  from a browser that loaded them or from LinkedIn (`LoadedTyped`).
* `PageIsSafe`: `PageSafeFromOthers`. A process without the lease takes no browser
  off the port but its own (`PortKept`), and there is no second one with it.

`SessionStoreProofs`, for any processes, sessions, quarantines and numbers of
failures, deaths and cancels:

* `StoreInductive`: what a committed session is between two moves has to be said
  for every place the flow can be in. `WholeInv` does: whole in one place, or
  split between the active paths and the flow's quarantine by the loop's own
  variables (`Split`). For that to be kept one must know that a loop's sets
  are disjoint and its quarantine was empty (`LoopInv`), that the session being
  tried is no worker's and not committed yet (`NumberInv`: a staging thread that
  outlived its flow may write cookies at any step), and what is at the active paths
  while they are emptied and filled (`LiveInv`). `PairInv` adds that profile and
  metadata agree also across the two places, `CleanInv` where an undisturbed flow
  finds what was there before, `LogoutInv` what a logout has still to remove.
  `StageInv` ties kind and quarantine to the step. Where a piece may be another
  session's, because a rejected profile was not removed or cookies were written
  without the lease, it is one of `strays`, and the parts say so at each place.
* `StoreTyping`, `StoreWhole`, `StoreOneDevice`, `StoreRestored`, `StoreCleared`: the
  type invariant and the four invariants of the run. `StoreOneDevice` excepts the
  strays and `StoreCleared` is about a logout that found something to clear; without
  the exceptions both are false (see the disagreements).

`DaemonProofs`, for any processes and descriptors, rounds and replacements:

* `DaemonInductive`: `IInv` says which variables may name a process's descriptors
  (`Known`), that `_fd` and a duplicate carry the exclusive lock (`HeldInv`), that
  an election or a probe works on a descriptor nobody shares while an adoption
  shares one only if it is locked (`CallInv`), and that nothing stays inheritable
  (`OwnerInv`). Without the third, a failed election could take a lock from
  others, and asking for the lock in `adopt` could change somebody else's.
* `DaemonTyping`, `OwnerKeeps`, `OneOwner`, `NoBystander`, `ProbeIsRight`: types,
  one owner, and the invariants of the run.
* `Succeeds`: the lock implements `DaemonOwnership`, with the open file
  descriptions of the members for `lock`, the processes that are or were for `started`. A step changes
  the membership of one process (`Leaves`, `Elects`, `Joins`), and who joins was not
  started and has its starter's descriptor; whoever is granted the lock at the
  path finds the line empty, because a member would hold a conflicting lock
  (`NobodyElse`); and no descriptor is of a file the path is yet to name (`Past`,
  inductive beside `IInv`), so a replaced file ends a line and starts none.

and for any daemons, parties and events of the discovery:

* `Discovered`: `DiscoveryIInv` follows what is published back to the daemon it is
  of. A descriptor keeps saying what its daemon was started with (`Says`), while
  the daemon that wrote it may be dead and the name rotated; a token that was
  moved to its place is its daemon's and private unless something else has come to
  lie there (`Kept`), which the inode tells (inodes are numbered upwards); what lies in the file or in the client's hands was announced
  (`FileInv`, `LookInv`), that is written after its token was secured
  (`PublisherInv`).
* `AttachesRightly`, `RefusesRightly`, `GuardsToken`: the invariants of the run. The
  first rests on the fingerprint's normal form being the same only for parties that
  agree on what `Compatible` lists, and on names of one directory being an
  equivalence on either kind of volume (`SameDirClass`).

`LinkedInToolsProofs`, for any members, sections, texts and number of calls:

* `RefusedUntouchedHolds`, `OneWriteHolds`: `EffectInv` says at which steps a call can
  have done nothing but type a note, or send an invitation it did not see go
  (`Noted`, `Unsure`), and what the history then is, write by write; the upsell is on
  the page only after a press that delivered nothing. That the second of two
  invitations is to the same member comes from `GateInv`.
* `InvitesRequestedHolds` (proved, not in a run): `GateInv` follows the page: until the gate nothing but
  profiles is asked for (`Reading`), so neither an old dialog (`GateClean`) nor a
  late load (`Submitting`) can put another member's dialog under the button.
* `FollowOnlyUninvitedHolds`: unless another's user name begins with his
  (`Unprefixed`), the anchor that opened the gate was the member's own
  (`SignalOnProfile`), and LinkedIn never shows it for a follow-only member
  (`FollowInv`). The exception is in the property; nothing is assumed of names.
* `FreshWritesRequestedHolds`: `FreshInv` bounds the pages of the first call to the
  member's own and the compose pages that may be asked for, and ties the match to
  the page that is typed into; every effect so far is on the member, or on a compose
  page that holds his name (`Aimed`).

`LinkedInReadsProofs`, for any members, sections, listings, inboxes, limits and number of calls:

* `ReadsInductive`: the parts below hold together in every state. What they rest on
  is where the pages come from: each was asked for and so exists (`PageInv`: a row's
  thread, a listing's next page, a load still under way), and a call that is on time
  and past its navigation is on the page it asked for or on one that LinkedIn put in
  its place (`NavInv`; `missed` records an old page left or a load that came late).
  `CallInv` says which of the shared steps belong to whose call, without which a
  scrape's repetition could end in a conversation's click.
* `ReadsFiledAsAsked`: `ScrapeInv` ties the goal of a navigation to the section at the
  head of the queue, so that a repetition, a lost section or a profile that is
  already loaded never shifts the one against the other. `ListInv` does the same for
  the pages of a listing, whose text, route and ids are read in turn: while no load
  came late the page is still the one of the text. That every id is there once needs
  that LinkedIn's pages are without repetitions in themselves (the script's `seen`)
  and that only what no page before had is added (`NewOnes`, `MoreIds`).
* `ReadsOwnRowsClicked`: `RowsInv`: the name is read from the profile asked for, or not
  at all, in which case no row bears it.
* `ReadsConversationAsked`: in `ThreadInv` a click is either before the app has
  answered, with the route still what it was, or after, with the row's own thread in
  it. So a route that is taken is of a row of the name (`Own`), or, when the wait
  ended first (`slow`), the thread the app had open before any click (`opened`);
  nothing is assumed about how fast the app is.
* `ReadsStaleMeansQuiet`: `FeedInv` counts the rounds since the last post from both ends:
  those before this one are at least the stale ones, and a post of this round is still
  among what a drain will find.

`ReadinessProofs` has six components that share no variable. For any configurations
of the setup:

* `SetupImportAlone`, `SetupConfiguredMode`: `SetupIInv` adds that no login runs between a
  call's claim and the end of its import (`NoLoginBeside`: logins are begun by calls
  only, and there is one), that the mode is the configured one outside imports
  (`ModeSaved`), and that the claim precedes the import while both are reset
  together (`Counted`).
* `SetupTypes`: the values of its variables, from the same invariant's bounds.

for any sessions, names and configurations of the session sources:

* `SourcesOnlyDeadGivenUp`: the verdict dead is given of a refusal at a trusted
  address only (`AnswersSound` to `ProbeSound`), no session comes back to life, and
  what a walk keeps in mind is dead (`DeadInMind`).
* `SourcesTypes`: the values of every variable, quarantined pools included.

for any clients, ids and pools:

* `PoolNoSharing`: sharing is excluded because a connection that is given out is new
  (`Numbered`) or idle in one pool only (`Apart`). `PoolInUseKept`: no step but a
  close deletes a connection in use.
* `PoolLimit`: `acquire` compares the active connections with the limit and leaves
  the idle ones out; it makes a new one only after it has dropped every idle one of
  the pool, which is why the sum keeps to the limit.

for any requests, queue and batch sizes:

* `BatchServesAll`: no request runs twice, and no caller waits for a batch that is
  over. `BatchIInv` says that what has not run is
  in one place, queue or flush, and in it once (`Unrun`), that a batch waiting for the
  lock has answered its callers (`BatchAnswered`), and that the request running under
  the lock is still its caller's own (`DirectNew`).

for any operations, slots and retries:

* `ExecSlotsAccounted`: `SlotsAccounted`, the safety side of `NothingStalls`, which
  would hang on a lost slot. Each operation that is fetching or asleep has one slot and no
  other has any, so slots and operations in progress make `max_concurrent` at every
  step; one by one, one is in progress. `ExecIInv` adds that operations are in
  progress only while the call runs, and that one which sleeps has an attempt left
  (`Retrying`), without which the bound of `attempt` is not inductive.

and for any links, labels, permalinks and caps, and any number of pages:

* `ReferencesAreRight`: the algorithm of `link_metadata.py`, by induction over what it
  reads. The libraries state induction and the equation of a fold for operators given
  as parameters, which the provers cannot be given; here induction is a fact about
  sets of numbers (`LeastOf`, `UpTo`, from the well-foundedness of `<` on the numbers), and a fold is
  the one function that its definition chooses, once such a function is shown to exist
  (`IterationExists`, `MergedFolds`, `NamedFolds`, `FlattenUnrolled`).
  A sequence of references is then seen as the chain of the sets of urls of its
  prefixes (`Chain`). Merging keeps the chain, each url once (`StandsKept`) and the best
  described link for it (`BestKept`), so that deduplicating up to a cap leaves the part
  of the chain within the cap (`DedupeRight`: `Chain(d) = Short(refs, cap)`).
  That a listing's pages may each be cut before they are put together is `ShortConcat`: either
  what stands before a page is within the cap, and then it is the same on both sides and what
  the page lost was past the cap anyway; or the cap is reached already, and no url of
  the page counts. A reference of the listing is the best described one of its url among
  those the pages kept (`FlattenHolds`, `ListingBest`); what a page's own cap cut is not
  among them. Who comes first, at which place, follows by counting (`FirstCount`,
  `ByRank`). `RefIInv` adds to the types that no permalink is captured before there is
  a page. The one assumption on the links is that lengths of labels are numbers.

What the constants are assumed to be is stated in the modules that have them
(`ProfileLeaseAssumption`, `PartyAssumption`, `SessionStoreAssumption` and so on):
finite bounds are numbers, the value that stands for nothing is none of the
values it is told from (`NothingAssumption`), a volume folds case or does not
(`FoldsAssumption`). TLC evaluates each of them in the runs.

Only model-checked: everything under fairness (`CallsAndLoginsEnd`, `Attaches`,
`Recovers`, `EveryCallEnds`, `NothingStalls`), which is out of the prover's reach;
and the refutations, which are traces. The type invariants `TypeOK` of the two
compositions of tools (`LinkedInTools`, `LinkedInReads`) are neither proved as a whole
nor in a run: what a call has yet to read is a `SelectSeq`, which the provers can
neither expand nor be told about in general. They document the variables, and the
proofs' invariants state the parts of them they need.

## Plan

Done: the lease, the daemon lock and their refinements; `BrowserServer`;
`SessionStore`; the tools that write; discovery; the tools that read; bootstrap;
session sources; the helpers of `core/` and the references. Left:

1. The derived runtimes of containers, with their generations and commits.
2. The import's ranking of candidates, and the caches of update checks.
3. What an answer claims: `sent` is reported also for a text that was only typed.

## Not modelled

Windows locking and ACLs (the outcomes are those of the POSIX branch, the
hand-over of a lock excepted); Docker's derived runtimes; the BrowseFleet backend
and attachment to an external browser, which belong to servers outside this
repository; HTTP and page contents; the Voyager clients that post and edit a
profile by one request each; decryption of other browsers' cookie stores; updates
and downloads; the reading of settings; argument parsing, formatting, logging and
metrics. `core/obscura_cache.py` does not compile and is imported by nothing.
