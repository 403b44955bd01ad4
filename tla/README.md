# GitLane in TLA+

GitLane is a desktop git client: a Tauri application whose React front end keeps
its state in zustand stores (`src/src/store`) and whose Rust back end
(`src/src-tauri/src`) runs git, watches the disk and signs in to forges. The front
end runs one JavaScript callback at a time, but nearly every action awaits the back
end, so what a user sees is decided by requests that overlap: opens, closes,
refreshes, writes and probes whose answers arrive in any order, some of them about a
repository that is no longer on screen, or that was closed and opened again. The
back end has the opposite problem: real threads around small pieces of shared state,
such as the slot that lets one sign-in run at a time, the registry of file system
watchers or the SSH sessions of a host, and multi-step git operations that may fail
or be killed after any step.

This directory models the parts where that overlap decides what is correct,
model-checks them with TLC and proves part of what they guarantee with TLAPS.

Paths below are relative to the repository's `src/store` (front end) and
`src-tauri/src` (back end).

## Inventory

| Part | State it keeps | Operations | Modelled in |
|---|---|---|---|
| Navigation (`repoRequests.ts`, `repoLifecycleActions.ts`, `repoLifecycle/`, `repoMissing.ts`, `repoTab/`) | tab strip, tab lifetimes, open-intent lane, pending marker, repository on screen, missing screen, published session, persisted last path | open, switch in place, cancel, close, go missing, fall back to the parent, Locate..., restore at launch, label a tab | `RepoNavigation`, `RepoScreen` |
| Refresh (`repoRefreshActions.ts`, `repoRefresh/`, `repoGuards.ts`, `repoLifecycle/sideEffects.ts`) | request lanes (graph, metadata, tree, remotes), `loading`, `graphLoading`, `loadingMoreHistory`, `pendingRefresh` and its waiters | load, re-sync of either scope, history page, deferral and replay, missing transition of a failed read | `RepoRefresh` |
| Repository writes (`repoWriteActions/`) | a captured owner each; the `loading` flag while they run | fetch, checkout, move to a worktree, merge; the others follow these shapes | `RepoRefresh` (what they hold and release), `RepoNavigation` (where they navigate) |
| Sign-in slot (`git/oauth/slot.rs`, `commands/auth.rs`) | `SignInSlotState`: four flags under a mutex | arm, claim, begin the commit, cancel, guard drop | `SignInSlot` |
| Sign-in run (`useProviderOauthRun.ts`, `accounts/oauth.ts`, `accounts/credentials.ts`) | app-global run latch, cancel decision, `providerTokens`, last pin; keychain; remote URL | start, cancel, record, replace, pin, roll back, sign out | `ProviderSignIn` |
| Watch queue (`repoWatchQueue.ts`) | a chain of watch and unwatch calls per path | enqueue, settle | `WatchQueue` |
| File system watcher (`watcher.rs`, `watcher/`) | a private watch per open path, a shared one per common directory, throttle state per path | watch, unwatch, classify, throttle, emit | `WatchRegistry`, `RepoWatch` |
| Watcher events (`hooks/useRepoWatcher.ts`) | debounce timer and scope, label timers | re-sync of the repository on screen, label probe of another tab, focus | `RepoWatch`; gestures of `RepoNavigation` and `RepoRefresh` |
| Remote sessions (`commands/remote.rs`, `remote/`, `agent/`) | per host: a mutex, a session, the open repositories; per session: pending requests; per agent: watches | connect, request, route, watch again, close, disconnect | `RemoteHost` |
| Worktree hand-off and stashes (`git/write/worktrees/`, `git/write/stashes.rs`, `conflict_resolution.rs`, `git/handoff.rs`) | two worktrees, the stash stack, the carry marker | move a branch, continue or abort its carry, stash, pop, drop | `WorktreeHandoff` |
| Commit graph (`git/graph/layout/`, `features/graph/`) | lanes while a window is laid out; the finished layout | lay out a row, reserve a merge parent; place a stash marker, query a viewport | `GraphLayout`, `GraphPaint` |
| Commit identities (`identities.ts`, `identities/`, `accounts.ts`, `git/write/identity.rs`) | the cards, a marker per repository of the card it was given, a queue of writes, the identity on screen and its stored copy; six config keys under a lock | apply, clear, delete, edit a card; show, pin and re-read the identity; commit | `CommitIdentity` |
| Selection, diffs, pull requests | lanes and queues of their own over the same ownership | | planned |
| Worktree removal lease, index lock (`git/write/`) | a process-wide lease table, lock files | | not modelled, see below |
| GitHub sign-in (`git/forge/signin.rs`) | a slot around a child process | | planned as a second instance of the slot |
| Transports, parsing, terminals, updater, UI | | | not modelled: I/O, text or presentation |

`PROJECT.json` lists every part with its files and every hazard at its line.

### How the parts interact

* **Calls.** Store actions await IPC commands; each await is a point where every
  other action may run. A request captures what it needs before the await (a lane
  token, the path, the session, the tab lifetime) and compares it after.
* **Shared state.** One zustand store holds the screen; every module of the front end
  reads and writes it between awaits. `repoRequests.ts` holds what is not in it: lane
  counters, lifetimes, the deferred re-sync.
* **Hand-overs.** A write ends by calling `refresh`, `openWorktree` or `loadRepo`;
  whoever lowers `loading` is expected to replay the deferred re-sync; a read that
  fails because the folder is gone hands the screen to the missing-repository flow,
  which may hand it to the parent of a worktree.
* **Front and back end.** The dialogs' latch (`activeProviderOauthRun`) and the slot
  are two locks of the same thing in two processes' halves, reached by two commands
  (`provider_oauth_sign_in`, `cancel_provider_oauth_sign_in`) in no fixed order.
* **Disk to screen.** A change made outside the app passes four filters that each drop
  something: the watch (private or shared), the classification and throttle of the
  back end, the event channel, and the debounce of the front end. What the first
  three drop must be left to something still running in the last.
* **Two machines.** A repository on an SSH host is reached through one agent process,
  by callers that do not know of each other: the queue of each tab, ordinary commands,
  the open dialog, and the tasks that watch again after a lost session.

### What is hard here, and what makes each part correct

* *The same path again.* A repository closed and reopened has the same path, so a
  path comparison lets a late answer through. Navigation and refresh are correct when
  no stale owner ever becomes current again (`StaleOwnersStayStale`,
  `StandDownIsFinal`, `EarlierSessionsAreSilent`).
* *Newer intent.* The last thing the user asked for wins, and its spinner is the only
  one and comes down (`PendingIsLatestOpen`, `NewerOpenWins`, `SpinnerIsReleased`).
* *Exactly one owner of a flag.* A superseded request must leave the flag to its
  successor, a failed one must lower it (`SpinnersHaveOwners`, `LoadingEnds`), and
  whoever lowers it replays what waited (`DeferredWaitsForLoading`,
  `DeferredIsReplayed`, `WaiterHasReplay`).
* *A cancel that races its flow.* It must stop the flow or be refused, never be lost
  to another flow nor fail a later one (`RecordedCancelWins`, `SlotIsClean`,
  `CancelBeatsStore`).
* *Partial failure.* A record, a token and a remote change in separate calls; each may
  fail (`NoOrphanToken`, `RunEnds`). A hand-off runs six git
  commands; a failure of any, or a kill between two, must leave every change in a
  worktree or on the stash stack (`FailureRollsBack`, `NothingDisappears`).
* *Something shared by those who come and go.* A watcher shared by worktrees and a
  session shared by tabs exist exactly while somebody needs them, and die without
  taking a waiter with them (`SharedIsExact`, `OneSession`, `ClosedFailsAll`,
  `WatchSurvives`, `CallsEnd`).
* *One thing in four places.* Who commits is a card, a marker, an identity on screen
  and six config keys, each written at its own time: they agree in the end, and a commit
  takes all of it from one card (`MarkerNamesTheCard`, `ShownIsTrue`, `CommitsAreWhole`,
  `InClickOrder`).
* *Nothing swallowed.* A throttled or coalesced event is covered by another
  (`NothingMissed`, `WatchFollowsTab`).
* *An algorithm whose rules interact.* Lanes are claimed, blocked, promoted, released
  and reused; a line must never run through a commit it has nothing to do with
  (`FirstParentLinesRunFree`, `LastMergeLinesRunFree`, `HeadLeads`), and what is drawn
  from it must agree with it (`MarkersStandClear`, `QueryIsExact`).

## Modules

| Module | Role |
|---|---|
| `RepoScreen` | abstract specification: one screen, one pending pick, a repository appears only as the landing of the pending pick |
| `RepoNavigation` | tabs, opens and the published session in detail; implements `RepoScreen` |
| `RepoRefresh` | reads, writes and the deferred re-sync over the screen; moves the screen only by actions of `RepoScreen` |
| `SignInSlot` | the back end's slot and the flow that claims it, for any number of calls |
| `ProviderSignIn` | dialog, account record, keychain and remote; extends `SignInSlot` |
| `WatchQueue` | the chain of calls of each path; used by the two modules after it and by `RemoteHost` |
| `WatchRegistry` | private and shared watchers behind the queue |
| `RepoWatch` | composes them with classification, throttle, event channel and debounce |
| `RemoteHost` | the calls, sessions, connects and watches of one SSH host, over `WatchQueue` |
| `WorktreeHandoff` | the move of a branch with its stashes, rollback and carry, beside the user |
| `GraphLayout` | the lanes of the commit graph, row by row |
| `GraphPaint` | markers and the paint index of a finished layout |
| `CommitIdentity` | identity cards: the queue of writes, the marker, the identity on screen, the config keys, the commit |
| `MCRepoNavigation`, `MCRepoRefresh`, `MCRepoWatch`, `MCRemoteHost`, `MCWorktreeHandoff`, `MCCommitIdentity` | the small instances TLC checks |
| `RepoNavigationProofs` | typing of the navigation, one screen, tabs against leases and watches, stale owners, the restore, the tab of what is on screen, and that it implements `RepoScreen`, proved |
| `RepoRefreshProofs` | typing of the refresh, owners of the spinners, waiting writes, the deferred re-sync, silence of earlier sessions, and that it runs on `RepoScreen`, proved |
| `SignInProofs` | the slot's safety, and with it that of the dialogs, the account record and the keychain, proved |
| `RepoWatchProofs` | shared watchers, settled calls and swallowed changes, proved |
| `RemoteHostProofs` | nothing waits on a closed session, one session per host, watches come back, proved |
| `WorktreeHandoffProofs` | a failed hand-off rolls back and no change disappears, proved |
| `GraphProofs` | the lines of the layout run free and HEAD leads, markers stand clear and the paint index is exact, proved |
| `CommitIdentityProofs` | order of writes, marker, identity on screen and whole commits, proved |

Operators named `...Anyway`, `...Keeping...`, `...Blindly` and the like, commented
`Mutation:` or `Mutant:`, are not part of any specification: each is a plausible bug in the
definition that follows it, kept so that every property can be shown to notice one.

### RepoNavigation

An action is the code between two awaits. Everything in flight is a record in a set:
`opens` (calls of `loadRepo` before they publish), `reads` (reads that may find the
repository gone), `writes` (writes that navigate when they end), `locates`, `labels`
and `restore`. Each is resumed by an action of its own with any answer the back end
can give: found, missing, failed.

| Code | Definition |
|---|---|
| `tabLifetimeByPath`, `begin/ensure/endTabLifetime` | `life`, `BeginTab`, `EnsureTabs`, `EndTab` |
| `loadRepo` up to its first await; its answer | `LoadRepo`; `PublishSwitch`, `OpenStandsDown`, `OpenFindsMissing`, `OpenFallbackResumes` |
| `openOwnerIsCurrent`, `tabOwnerIsCurrent`, `releasePending` | `OpenOwnerIsCurrent`, `TabOwnerIsCurrent`, `Released` |
| `publishRepoSwitch` | `PublishSwitch` |
| `enterMissingState`, `retireDeadWorktreeTab`, `fallbackFromRemovedWorktree` | the operators of the same names, `FallBackTo` |
| `closeRepo` | `CloseMissing`, `CloseBackground`, `CloseActive` |
| `restoreSession` | `Init` and `RestoreResumes` |
| `locateMissingRepo` | `StartLocate`, `LocateResumes`, `LocateEnds` |
| `refreshTabInfo` | `StartLabel`, `LabelResumes`, `LabelEnds` |

Abstracted: the order of tabs in the strip (it only chooses the neighbour a close
lands on: any is allowed), recents, groups, labels' text, and the watch queue (the
last request queued per path is kept). `lastPath` is kept because what is persisted
decides where the next launch lands.

### RepoRefresh

A lane is a counter compared with a captured token in the code; here each request
carries the lanes whose token it still holds, and claiming a lane takes it from the
rest. A load is one record with the parts it still waits for. `deferred` is
`pendingRefresh`, `merge` the one write that waits for a re-sync and then reads what
it left. `gone` and `conflicted` stand for the disk. The screen (`shown`, `missing`,
`pending`, `session`, `intent`) moves only by the actions of `RepoScreen`, which
`RepoNavigation` is shown to implement: the two detailed modules meet there.

Abstracted: the commits, files and stashes an answer carries, and the sections whose
failures are only drawn. Answers have no version of their data, so `EarlierSessionsAreSilent`
and `NewerOpenWins` are about answers to an earlier session and about a newer open; that of
two re-syncs within one session the newer one's data stays is left to the lanes, and no
property compares it.

### SignInSlot and ProviderSignIn

`SignInSlot` has one step per access of the mutex: `Arm` (the command), `ClaimRefused`,
`ClaimCanceled`, `Claim` (`claim_slot`), `BeginCommit` (`begin_credential_commit`),
`GuardDrops` inside `Stores` and `Fails` (the guard's `Drop`), `CancelAccepted`
(`cancel_sign_in`). Between them `AsksForPage`, `PageOpens` and `Authorized` are the
flow's own steps with its `is_canceled` checks: device flow and PKCE have them in the
same places. A poisoned mutex is left out.

`ProviderSignIn` extends it: a flow is a press of Sign in, so that the steps of the
slot are parts of a run (`BackendArms`, `BackendRuns`, `BackendStores`,
`CancelAnswered`) beside which the front end moves: `stage[r]` says which await of the
run hook or of `signInProviderOauth`/`rollbackProviderOauthSignIn` the run is at, `cancel[r]` is
`cancelDecision`, `entry` is the `providerTokens` record with the run that wrote it
(the code compares objects by identity), `keychain` the tokens stored. One host and
one remote: only runs on the same host share the sentinel key. `signOutProviderToken`
runs beside them in two steps, because it captures the account before it awaits.
`heard` and `stray` are history variables read only by properties.

### WatchQueue, WatchRegistry and RepoWatch

`queue[p]` is the chain of a path, its head the call in flight. A watch has two steps:
`Builds`, before the registry's mutex (roots resolved, private watcher made), and
`Installs`, under it (`install_watch`: stage or join the shared watcher, detach the
old subscription, insert); `BuildFails` and `InstallFails` are the refusals of notify.
`Moves` puts another repository at a path, so that a re-watch finds another common
directory than the one subscribed to. `refused` is a history variable: the paths whose last
watch failed, in its build or its installation. With its chain empty a path is watched if
its tab is open and not refused, and not watched if its tab is closed (`WatchFollowsTab`).

`RepoWatch` adds time in ticks of 100 ms (`THROTTLE` is 3, the debounce 4).
`FileChanges` and `RefsChange` cause events with the impact `classify_paths` gives
them (or `ambiguous`, as FSEvents names only a directory); `Handles` is `handle_event`
with its `EmitState` (`quiet`, `lastKind`, and `seen` for "the fingerprint is that of
the refs"); `Delivers` and `Fires` are the hook. Time may pass before any event is
handled or delivered; only the channel's order is kept, events not handled yet are a set.
`missed` is a history variable: what the screen lacks of what its watch could hear.

Abstracted: path matching (only impacts matter), the 150 ms in which focus and
visibility events are one. Events of a watcher that is replaced are still handled.

### RemoteHost

A caller is a path (its queued watch or unwatch), a command, the dialog, or the task
that watches one repository again on one new session. `pc[c]` is the next step of its
call, `at[c]` the session it was given. `holder` is the host's mutex, which
`session_and_lost_watches` keeps across the connect. `Registers` is the look at
`Pending.closed` and the insertion under one lock; `WriteFails`, `ReaderCloses` and
`Takes` are the three ways `Shared::close` is reached; `AgentRuns` runs requests in any
order, as the agent has a task for each. `StreamEnds` ends ssh, and with it the agent
and its watches, at any point. Abstracted: framing, the install of the agent, askpass.
`confirmed` (the tabs `WatchSurvives` speaks of) drops a tab whose re-watch is answered with
an error: the task that watches again throws that answer away (`commands/remote.rs:245`).

### WorktreeHandoff

`pc` walks through `move_branch_to_worktree`, one step per git command; every step may
succeed, fail, or be the last (`Stops`: the error is returned or the app is killed).
A change is a name that is in a worktree (`work`), in an entry of the stack (`stash`)
or in both. Applying a stash may succeed, leave conflicts or be refused, whatever it
holds. A `git switch` may also fail with its work done, since a post-checkout hook decides
its exit code: `Detaches` then leaves the source detached, and `ChecksOut` the branch in the
destination, where `Reattaches` cannot take it from. `Marks` is `carry_conflict`: if the
marker cannot be written, or only in part, the move fails although it is done. Beside it
run an editor, branch switches, stash, pop, drop, and the continue and abort of a carry.

`Marked(w)` is "the marker of `w` is not empty", which is all that `continue_carry` and
`abort_carry` ask for: a stale marker, none of whose stashes is on the stack any more, is
still aborted with `reset --hard` until `Heals` (`operation_status`) clears it. `Heals` may
also clear a live one, as the error of a stack that cannot be read is passed over. Where
`Continues` or `Aborts` cannot remove the marker (`clear_marker` does not say so) the carry
stays open. Four variables are history:

* `before`: what there would be, had the move never begun;
* `clean`: no step of the rollback failed, and what failed before it left nothing behind (no
  stash stored with the tree half cleared, no switch answered as failed with HEAD moved);
* `late`: what only an Abort of a marked worktree would take: what came into it while it was
  marked, and what was in a stash dropped since;
* `given`: what the user gave up: dropped with its stash, in `late` and then aborted, or reset
  by an Abort that could not clear the marker.

### GraphLayout and GraphPaint

A commit is named by the row it will have, so that its parents are greater; which
parents a row has is chosen when it is laid out, which makes every window of the given
size a behaviour. `Lays` is the body of the loop up to the first parent, `Reserves` one
turn of the loop over the merge parents. Lanes count from 1 instead of 0.

`QueryIsExact` is about the intervals of the edges between commits and about the commits
themselves. The connectors of stashes go through the same `buildIntervalIndex` with intervals
of their own, the row of the working tree has a comparison to itself: neither is enumerated.

`GraphPaint` evaluates the front end's algorithms over every finished layout and compares
them with a definition by quantifiers. Recursion in the code is a recursive function here:

| Code | Definition |
|---|---|
| `buildLaneOccupancy`: the array and the rows of each node | `Heap`, `Halves`, `IsNode`, `Middle` |
| its `update`, for every commit and edge | `Called`, `Within`, `Raises`, `Updated`, over `Spans` |
| its `materialize`, `maxByRow` | `Materialized`, `LaneOccupancy` |
| `maxLaneInSpan` and the marker's lane | `MarkerLane` |
| `buildIntervalIndex` | `Before`, `Sorted`, `MaxEnd` |
| `queryIntervalNode` | `Query` |
| `commitsByRow`, `lowerBoundCommit`, `upperBoundCommit`, the slice between | `CommitRows`, `Bound`, `LowerBound`, `UpperBound`, `CommitsBetween` |

The code walks a tree from the root down, `Called` and `Materialized` say of a node what
follows from its parent: a node is called if its parent is, is not within the span, and the
span reaches into its half. Updates take a maximum, so their order makes no difference.
A subtree of the interval tree is the range of sorted intervals it was built from. The
bounds of a viewport are whole rows here; in the code they lie between rows, which lets in
the same rows.

Abstracted: octopus merges (a merge here has two parents), refs and texts. A stash is
an entry nobody descends from with its base as parent. That a stash is never older
than its base is taken from the comment at `build.rs:146-148`; with a clock skew its
committer time could be earlier, and the walk would put it below its base.

### CommitIdentity

A call is one `applyCommitSource` (a card, or a clear), or the read that deleting a card
queues behind each write for it. `pc[i]` is its next await: `waits` (for the tail it was
chained to), `sent`, `writes` (it holds the lock), `wrote` or `threw` (the answer is on its
way), `reads` (the identity is read back), `over`. `Answered` is the rest of the queued
closure together with what the caller does up to its next await: promise reactions run
before any other callback, which is `Drained`.

| Code | Definition |
|---|---|
| `queueIdentityWrite`, its `finally` | `Queued`, `Queues`, `Starting`; `EndsTurn` |
| `applyCommitSource` | `Applies`, `Starts`, `Answered`, `Marks`, `EndsCall` |
| `deleteManualIdentity`, `invalidateDeletedIdentity`, `scrubManualId`; `saveManualIdentity` | `Deletes`; `Edits` |
| `syncRepoAccount`, `pinRepoIdentity`, `hydrateRepoIdentity` | `Syncs`; `Pins`; `Asks`, `Reads`, `MayLand`, `Lands` |
| `lock_identity_config`, `set_repo_identity`, `clear_repo_identity` | `Locks`, `Turns`, `Due`, `WritesKey`, `KeyFails`, `UndoFails`, `Finishes` |
| `commitSelected`, `commit_expected`, `pinned_author_args` | `Commits`; `CommitRuns` |

A card's tuple is a value per key group: name, e-mail, signing (the four signing keys are
one, because they are written next to one another in both orders). A version tells an
edited card from the tuple captured before. `given`, `torn` and `blind` are history
variables: the card of the last write that succeeded, what a failed write left behind, and
whether the last read came late or not at all.

The undo of a set restores its snapshot, `job.old`. `Locks` takes it as `read_local` does: a
key whose `git config --get` fails is in it as unset (`identity.rs:252`, `.ok()?`), whatever
it holds. `job.was` is history, the config as it really was: a write that fails leaves
`torn` behind whenever the config differs from that, also after an undo that did all its
steps.

Abstracted: the global identity, the labels, the storage migrations, and `git config`
itself, which sets a key or fails without setting it. A card is edited only while a call
carries it, since otherwise it is just another card. The app is not killed between two keys:
a kill drops the lock and the undo with it, so that half a tuple would stay in the config
and nothing in the code would tell.

## What is checked

Every run explores its whole state space. Bounds are constants named in the modules'
guards or `CONSTANTS`; nothing else is cut off. `CHECK_DEADLOCK FALSE` everywhere: a
user may leave an idle application alone, and the bounds end behaviours as well.

| Run | Instance | What it shows |
|---|---|---|
| `NavStrip` | repository `a`, its worktree `w`, an alias `l` of `a`; 4 opens, 1 read | strip, leases, spinner and screen stay consistent under every order of open, close, cancel, supersede, missing; implements `RepoScreen` |
| `NavFlows` | the same picks, a stored session; 2 opens, 1 each of read, write, Locate..., label | the same with restore and the other flows in flight, and liveness of the spinner |
| `RefreshMoves` | one repository, 2 opens, 1 read, a move | spinners have owners; reads and writes of an earlier session are silent; a newer open wins |
| `RefreshWrites` | one repository, 1 open, a fetch, a checkout and a merge | the deferred re-sync is always replayed, and `loading` always ends |
| `SignInSlot` | 4 concurrent calls | one flow; a recorded cancel wins; the slot is clean at the end |
| `SignInRun` | 2 runs, 2 accounts, 1 sign-out | latch and slot agree; cancel beats the store; no orphan token; every run ends |
| `Watch` | 2 worktrees, 1 common directory; 3 gestures, 2 changes, 1 repository replaced | shared watchers are exact; with its calls settled a tab is watched exactly while it is open, but for a refusal of notify; no change is swallowed |
| `Remote` | 2 repositories of a host; 2 sessions, 3 gestures, 1 command or dialog | nothing waits on a closed session; one connection; watches come back; every call ends |
| `Handoff` | 2 worktrees, 2 changes; 2 hand-offs, 3 stash entries | a reported failure rolls back, or has carried every change; no change disappears |
| `Graph` | windows of 4 rows, 2 commits outside, any HEAD; up to 1 context row, any anchor, any choice of stashes | lines run free; markers stand clear; the paint index finds the edges and the commits of every viewport |
| `Identity` | 1 repository, 2 cards, one signs; 2 calls, 1 sync, 1 edit of each card, two key groups (author, signing), commits | writes keep the order of the clicks; marker, screen and config agree in the end; commits are of one card |

Why the bounds suffice. Four opens are enough for an open, its close, its reopening
and one more that supersedes it, on either side of an answer; the alias gives the
case where what is asked for and what is opened differ, the worktree the case of a
parent. The refresh runs use one repository because the hard comparison is the path
with itself: a second repository is only easier to tell apart. One read and the
writes' own refreshes give a holder of a lane, its successor and a deferral. Two runs
of a sign-in give every pair of accounts and every order of prior pin and entry; the
run latch forbids more at once. Four calls at the slot give one that holds it, one
refused, one canceled before it claims and one that comes after. Three gestures show,
close and show a path again, or two paths and a close, and two changes give a first
event and one the throttle meets; one replaced repository makes the re-watch of a path
leave a shared watcher it was subscribed to. Two sessions are the lost one and the one
that replaces it. Two hand-offs give one into a worktree whose carry is still open, and
three stash entries both stashes of a move and one of the user's. Changes are
interchangeable, and so are the two worktrees together with their branches, which no action
tells apart: `Alike` is their symmetry. Four rows are
enough for a lane to be blocked, released, reused and claimed below a merge, and each
of the mutants of the layout and of the history view is found in them; for more rows
their properties are proved.

Two calls at a repository are the write under way and the one queued behind it, or a write
and the read its card's deletion queues; with the sync's there are three reads to overtake
each other. Three calls over a single key, and two worktrees over two syncs, were explored
with one card and the same constants otherwise: no property failed. Two key groups are what
a mixed author needs, and keep the run short with snapshots that misread any key; the
theorems are for all three. One repository with one worktree is shown: that a read is
dropped because another repository is on screen (`open = path` in `MayLand`) is exercised by
leaving it only, and by any number of worktrees in the proof.

Each property of each passing run has a mutant in `PROJECT.json`: a definition
replaced by its `Mutation:` sibling, under which TLC finds that property violated.

### Fairness

* `RepoNavigation!FairSpec`: an open in flight settles (`WF_vars(SettleOpen)`): every
  IPC command answers or fails. Nothing is assumed of the user.
* `RepoRefresh!FairSpec`: each read answers, each write's command answers. Two
  properties also assume `UserRests`, that the user at some point starts no more
  writes: fetches that overlap for ever do keep `loading` up for ever.
* `ProviderSignIn!FairSpec`: a run's calls answer, and a page the user leaves times
  out (`PKCE_TIMEOUT_SECS`, the device code's lifetime). Not that the user authorizes.
* `RemoteHost!FairSpec`: something that can run does run (one weak fairness over all
  steps of calls and reader threads): a connect is ended by its watchdog, a request by
  its answer or the end of its ssh. Nobody has to open a tab, answer the dialog or lose
  a connection. Weak fairness of the whole is enough because the bounded gestures leave
  finitely many steps.

### Where the code and what is said of it disagree

The run `RefreshGone` is expected to find a violation: a working-tree re-sync returned
without `await` skips the `catch` of `refresh`, so a deleted repository stays on screen
(`repoRefreshActions.ts:102`). `PROJECT.json` quotes the sentences it contradicts.

Met while modelling, and without a run of their own:

* a read of the identity that predates a write is to be dropped (`accounts.ts:123-125`),
  but only a write that is shown at once moves the generation it is compared with: not one
  superseded, of a card deleted meanwhile, or off screen. The older read may then land last
  and stay on screen until the next refresh; a commit is refused meanwhile, because the back
  end compares. `blind` names these reads;
* a clear that fails after unsetting the name leaves the e-mail (`git/write/identity.rs:304-306`),
  so the global name commits with the card's e-mail, unsigned; `useCommitIdentity.ts:78` then
  says the identity is unchanged. `CommitsAreWhole` names these commits by `torn`;
* a set that fails is to "roll the *entire* tuple back" (`git/write/identity.rs:211`), but the
  snapshot takes a key it fails to read for an unset one (252), and the undo then unsets it: a
  mixed or partial identity is left with no step of the undo failed. `torn` names this too;
* a card deleted while its write runs leaves the config with it and the marker of the card
  before (`identities.ts:275`); `MarkerNamesTheCard` leaves out a config whose card is gone;

* a move to a worktree releases `loading` without replaying the deferred re-sync
  (`repoWriteActions/worktrees.ts:67-87`), so `DeferredWaitsForLoading` is checked
  with every write but the move (`OnlyMovesStrandIt` proves that nothing else does it);
* a write waiting for a deferred re-sync is not answered if its repository is closed
  and nothing is opened after it (`repoRequests.ts:190`);
* closing the tab that Locate... has just re-keyed, with the missing screen still up,
  persists the closed path (`repoTab/closeRepo.ts:52`);
* a sign-out that overlaps a sign-in deletes the entry of the new account and leaves
  its token (`accounts/credentials.ts:314`); `NoOrphanToken` names these tokens in
  `stray` and shows there are no others but those of a failed undo;
* a late Cancel of a sign-in that replaced another account puts the shared sentinel
  back into the remote and deletes the only token behind it (`accounts/oauth.ts:197`),
  and one whose pin failed leaves the account (`accounts/oauth.ts:148`);
* retiring the dead worktree tab restored as the last path writes that path back as the
  active one (`repoMissing.ts:136`; the comment at 148-150 rules it out);
* a checkout begun while a repository loads takes the metadata lane from the stash read
  and, if it fails, leaves the list empty and unflagged (`repoWriteActions/shared.ts:344`);
* `refresh` answers true although its operation read was lost, and a conflicting merge
  is then reported as git's raw error (`repoRefreshActions.ts:338`);
* a Cancel answered while the run still listens or probes is accepted but recorded
  nowhere, and the page opens later (`accounts/oauth.ts:97`);
* a merge may be drawn through an unrelated commit: of the lanes that await a merge
  parent the promotion picks the lowest (`build.rs:270`), and when an earlier merge has
  opened a branch root elsewhere two roots compete; with parents 1: 3, 2: 6 5, 3: 5,
  4: 6 5 the line from 2 to 5 crosses commit 3. `build.rs:93-95` says the connectors "run
  down empty lanes instead of overlapping commits", and
  `openspec/specs/graph/layout/spec.md:7-9` asks it of the connector of every merge.
  `LastMergeLinesRunFree` therefore
  speaks of the lowest merge of a commit only, for which it holds;
* a Finish of a carry that drops one stash, fails on the next and is followed by Abort
  loses the first change (`conflict_resolution.rs:228-243`), which `AbortConfirm.tsx:14`
  says cannot be; a second hand-off into a worktree whose resolved carry is still open
  can lose its change to an Abort the same way, and so can what is edited into a worktree
  whose marker is stale or could not be removed. `late` names exactly these;
* "From here the structural move has landed (...); we always return Ok"
  (`handoff_move.rs:146-147`): a marker that cannot be written is an error all the same (234),
  with the branch moved, the changes applied and no carry to finish or abort.
  `FailureRollsBack` says what holds then: every change carried is in its worktree or on the
  stack;
* "Source is still on `branch`" (`handoff_move.rs:120`) is not so after a switch that a
  post-checkout hook fails: the source is left detached. `clean` leaves these moves out;
* the last close of a host races a command that is about to connect: the command makes
  a session that no tab owns (`openspec/specs/remote/ssh-repos/spec.md:180` says closing
  the last repository closes the connection);
* a task that watches a repository again on a new session may run after that
  repository's unwatch, and a watch whose session dies between `session_for` and
  `opened` is not watched again; `confirmed` leaves the second out;
* a change between a load's read and the installation of its watch is not heard (the
  re-sync at window focus covers it), and a label stays old when the graph event of a
  path was taken by the debounce of the screen and the user switched tabs before it fired.

## What is proved

For every value of the constants, under the assumptions named in the modules: sets of
any size, any number of calls, opens, moves or commits. Every invariant below was first
checked by TLC on the instance of its run. None of the safety properties is inductive
unless it says so; what each proof adds is the actual reason the code is right.

* `RepoNavigationProofs`, assuming `PathsAssumption` and `LaunchesAssumption`, in
  five parts.
  * `TypeCorrect`: `Spec => []TypeOK`. `TypeOK` is inductive. The proof has one step per
    action; lemmas type the lifetimes (`LifetimeTypes`), the shared tail of every open
    (`LoadRepoType`), the two ends of a close (`CloseTypes`), an answer's release
    (`OpenTypes`) and the fallback targets.
  * `ScreensExclude` (`[]OneScreen`, inductive as it stands), `TabsAgreeAlways`
    (`[]TabsOwnLeasesAndWatches`, inductive once the variables are typed: `LeaseOperators`
    says what registering, beginning and ending a tab does to the set of leased paths,
    `RemovalLeases` and `LoadRepoLeases` carry it through the shared ends of the actions)
    and `SpinnerHasAnOpen` (`[]PendingIsLatestOpen`: a step puts its own open's marker up,
    takes the marker down, or leaves it with an open that stays; `Released` is what makes
    the third case hold when an open ends).
  * The ABA properties, `OpensStandDownForGood` (`StandDownIsFinal`), `StaleForGood`
    (`StaleOwnersStayStale`), `ClosedForGood` (`ClosedTabStaysClosed`) and
    `RestoreYieldsAlways` (`RestoreYields`). That a stale owner stays stale does not follow
    from the state it became stale in: the argument needs `Minted`, that every owner in
    flight came from a counter's past, and `Onward`, that a step keeps an owner, clears it
    or moves past everything handed out (`OnwardStep`, one case per action). Then an ID that
    once differed from the live one differs for ever (`LostTabStaysLost`); a tab that left
    the strip counts as different because `TabsAgree` says it has no lease. `OwnersInv` is
    the inductive invariant. The counters are the unbounded ones of the model; JavaScript's
    numbers would have to reach 2^53 for the code to differ.
  * `NavigationImplementsScreen`: `Spec => ImplementsScreen`. Besides `OwnersInv` it needs
    `OneMarker`, that an intent is claimed once, so that the open which may publish is the
    one whose path the abstract `pending` shows (`OwnerIsPending`); `StepSimulates` then
    maps every action to one of `Ask`, `Forget`, `Land`, `GoMissing`, `Leave` or a stutter.
  * The tab of what is on screen: `OnlyLocateTakesTheTab`, that every step but the answer
    of a Locate... keeps `DisplayedHasTab`, and `ScreenHasATab`, that it always holds where
    nothing is located. A dead worktree's tab may be retired, and the restore may prune its
    tabs, while something else is on screen. `LabelsFit` is why neither takes the tab of the
    missing screen: that screen is of no tab labelled a worktree, and whatever may still
    relabel a tab (a watch, a probe, the restore) is of one that has its label, because a
    lease is never given out again. `LaunchFit` is why the prune, which wants the intent of
    the launch, finds nothing on screen.
* `RepoRefreshProofs`, assuming `ReposAssumption`:
  `RefreshTypeCorrect`, `SpinnersAreOwned` (`[]SpinnersHaveOwners`), `WaitersAreServed`
  (`[]WaiterHasReplay`), `EarlierSessionsStaySilent`, `NewerOpensWin` and
  `FullResyncsNotice`. The invariant `RefreshInv` adds `LanesFit`: whoever still holds a lane
  of the repository on screen was begun in its session. That is why an old request cannot
  take down a spinner it does not own, and why one that was overtaken is silent. `OneAsks`
  says at most one read in flight has a write waiting for it. All that a step can do to the
  reads is to drop some, take lanes from all and add one, and the lemmas are about that.
  `FullResyncsNotice` is the counterpart of the violation the run `RefreshGone` finds: a
  full re-sync does notice the deleted folder. `DeferredIsBlocked` is
  `[]DeferredWaitsForLoading` for any choice of writes without the move, whose code breaks
  it; `OnlyMovesStrandIt` says, with the move, that no other step does.
  `RefreshRunsOnScreen` is `Spec => Screen!Spec`: the screen RepoRefresh runs its reads and
  writes against is the one RepoNavigation implements, so what is proved of the two
  components is about the same screen.
* `SignInProofs`. Of the slot alone, with no assumption: `SlotTyped`, `MutualExclusion`
  (`[]OneFlow`), `CleanSlot` (`[]SlotIsClean`) and `CancelIsNeverLost`
  (`RecordedCancelWins`). A claim looks only at the flags, so `SlotInv` adds `FlagsMatch`,
  what each flag says of the calls (in particular that `starting` may be lost while a call is
  armed, because another call's guard clears it, but is never kept when none is pending).
  `GuardDropSafe` and `HoldSafe` prove the two kinds of step all but the claims come down to.
  Of the whole sign-in, assuming `SignInAssumption`: `SignInTypeCorrect`, `NeverTurnedAway`
  (`[]NeverBusy`), `CancelStopsTheToken` (`[]CancelBeatsStore`) and `TokensHaveEntries`
  (`[]NoOrphanToken`). `SignInInv` is `SlotInv` and what the latch of the dialogs adds to it:
  where the flow of a run may be at each await (`FlowFits`), so that no second call is
  pending and `starting` is never lost (`StartingIsKept`), which is what lets an accepted
  Cancel stay on record or fail its flow (`CancelHolds`). For the tokens, the entry of a run
  is of its account (`AccountsMatch`), and every token is the entry's, a known stray, or of a
  run that has yet to record it (`TokensAccounted`).
* `RepoWatchProofs`, assuming `CommonsAssumption` and `TimesAssumption`:
  `RegistryIsExact` (typing and `SharedIsExact` of the registry) and `SharedStaysExact`, the
  same of its composition, through `WatchUsesRegistry` (every step of `RepoWatch` is one of
  the registry or leaves it alone). `SharedIsExact` is inductive with the types: a detaching
  removes the path from exactly the watcher it subscribes to, and joining is told from
  replacing by `Survives`. `WatchesFollowTabs` (`[]WatchFollowsTab`) needs
  `CallsFit`: the last call of a path's chain is the one its tab calls for, and a path without
  calls is watched, or was refused, just if it has a tab. `NothingIsSwallowed` (`[]NothingMissed`)
  needs `ThrottleFit`: while the throttle of the screen runs, the event that started it is on
  its way or the timer it armed is younger than the throttle. The assumption that the
  throttle is no longer than the debounce (300 ms and 400 ms in the code) is what makes a
  suppressed event safe.
* `RemoteHostProofs`: `NothingWaitsOnAClosedSession` (`[]ClosedFailsAll`),
  `HostHasOneSession` (`[]OneSession`) and `WatchesComeBack` (`[]WatchSurvives`), for any
  set of repositories and any bounds, assuming `CallersAssumption` and
  `BoundsAssumption`. The invariant `IInv` adds `CallersFit` (what each kind of caller may
  be doing, and that its session exists), `OneConnects` (who connects holds the mutex and
  no session lives), `OpenedFirst` (a watch under way is of a repository the host counts as
  open), `AckedIsKept` (an answered watch is kept by its agent) and `ConfirmedIsOpen` (a
  confirmed tab is open on the host and nothing queued would stop its watch). The last is
  what brings a watch back: the connect that replaces a session asks for the open
  repositories, so every confirmed one is among them. One lemma per action; `SettleHead`
  and `AskTail` say what an end and a click do to the chains.
* `WorktreeHandoffProofs`, assuming `HomeAssumption` and `HandoffBounds`: `HandTypeCorrect`,
  `FailuresRollBack` (`[]FailureRollsBack`) and `NothingIsLost` (`NothingDisappears`), for any
  number of worktrees, changes, moves and stashes. Neither property says anything of the
  middle of a move, so `HandInv` speaks of it in two terms. `GoesBack(s, w)` says that the
  stash `s` is still to be put back into `w`, and `At(w)` is what `w` holds with all of that:
  up to the point of no return, and in the rollback after it, `At` is what the worktree held
  before (`WorkFit`), the branches likewise (`BranchFit`). `Held(x)` says a change has a copy
  that neither an Abort nor a Finish would take (`HeldFit`); the property is that every step
  keeps one. `LandFit` is for a move past the point of no return, and so for one that fails
  there: the branch is in the destination, and what either worktree held is still in it or
  in the stash the move made of it, which is the second half of `FailureRollsBack`. `MoveFit`, `StashesFit`, `TodoFit` and `AppliedFit` say which stashes are
  the move's and what it has applied. There is one lemma per step of the move and per command of
  the user.
* `GraphProofs`, the layout: `FirstParentLinesAreFree`, `HeadIsFirst`, `LastMergeLinesAreFree`
  and `LayoutIsTyped`, for windows of any size, assuming `WindowAssumption`. `IInv` adds:
  what a lane may wait for (`Shape`); that a row whose
  first parent is still to come holds its column for it, as continuation, root or
  blocked (`Held`); that HEAD is awaited by the first column until it comes
  (`HeadAwaited`); and that the parent of a merge is awaited by a root lane in which
  nothing was laid out since the lowest of its merges (`MergeAwaited`). The promotion in
  `Reserves` keeps the last one.
* `GraphProofs`, the history view: `MarkersAreClear` (`[]MarkersStandClear`) and
  `QueriesAreExact` (`[]QueryIsExact`), assuming `ContextAssumption` as well. Of the layout
  they need `LaidOut`: every row has a column and edges lead down. The rest is about the
  algorithms, for lists of any length, and `MarkerIsClear` and `IndexIsExact` state it for
  any list that keeps the commits in order (`Shows`), so with several stashes at once.

  The prover has no induction over data, but it needs none: a recursive function is a
  CHOOSE, and `RecursionDefines` proves from the least counterexample that any step which
  looks only at smaller sizes has a fixed point; `SizeInduction` is the matching induction,
  over a set instead of a predicate. `HalvesEquation`, `CalledEquation`,
  `MaterializedEquation`, `BoundEquation` and `QueryEquation` are their instances.

  The tree: `NodesFit` says that a node n on the level of P nodes (P <= n < 2P) has no more
  than count / P rows, hence `TreeHasRoom`: the array of four times the rows holds every node.
  `LeafExists` gives each row its leaf. `SpanIsCounted` says that a span which covers a row
  has been counted at a node above the row's leaf or its update still comes by there, and
  `OnlySpansCount` that nothing else is handed down: a row holds the largest lane of the
  spans that cover it (`OccupancyProperties`), which `ColumnsAreSpanned` turns into the
  columns in use.

  The index: `RankProperties` and `SortedProperties` say that sorting lists each interval once,
  in order (ranks are an injection of a finite set into an interval of its size).
  `QueryProperties` is the induction over ranges: a subtree that is left out ends before the
  viewport or starts after it. `BoundProperties` is the binary search: where what passes
  comes first, `Bound` counts it.
* `CommitIdentityProofs`, assuming `CardsAssumption` and `BoundsAssumption`:
  `IdentityTypeCorrect`, `WritesKeepClickOrder` (`[]InClickOrder`), `MarkerIsRight`
  (`[]MarkerNamesTheCard`), `CommitsReadWhole` (`CommitsAreWhole`) and `ShownIsHonest`
  (`[]ShownIsTrue`), for any number of cards, worktrees, repositories and calls. The order
  rests on `TurnsFit` and `TailsFit`: a call waits for one whose turn is not over, and the
  tail of a repository is the last of those (`QueueInv`). For the marker, the newest call of
  a repository is the last to be answered (`LatestFit`), it carries a card that still exists,
  because a deletion makes another call the newest (`IntentFit`), and the marker is behind
  the config only while an answer is on its way (`MarkerFit`). For the commits, the lock is
  held by the one call that writes (`LocksFit`), and a config being written is what it was where the write has yet to
  come and what is wanted where it has been (`ConfigFit`). Of a config being undone nothing
  need be known: `torn` compares how it ends with what it was. For the screen, `TruthFit`:
  it tells the truth, or a read or a write that will correct it is still to come.

Only model-checked: the liveness properties (`SpinnerIsReleased`, `LoadingEnds`,
`DeferredIsReplayed`, `RunEnds`, `CallsEnd`), since liveness and fairness are beyond TLAPS
here. Every invariant and every action property of a passing run is proved. `OneScreen`, `HeadLeads` and `FullResyncsNoticeGone` have
proofs and no run. `DisplayedHasTab` is checked and proved without Locate... flows: a Locate...
breaks it, since it gives the tab of the missing repository, or of the one opened while its
dialog was up, to another path before that path is shown. `OnlyLocateTakesTheTab` says that
nothing else does.

## Not modelled, and the plan

* *Removal lease and index lock* (`worktree_removal_lease.rs`, `index_lock.rs`). Their
  safety rests on modification times, fingerprints of directory trees and the open files
  of other processes: a model would have to assume what the code checks.
* *Selection, pull requests* (`selection/`, `pulls/`): lanes, queues and owners of the kinds
  already modelled in `RepoRefresh` and `WatchQueue`, over data of their own.
* *Accounts and provider credentials* beyond the sign-in: migrations of stored records, and
  the choice of an account by the URL of a remote.
* *Other writes* capture an owner, run a command and refresh, as the four shapes in
  `RepoRefresh` do.
* *Terminals, agents, transports, forges, updater, UI*: I/O, parsing and presentation.
* `RefreshWrites` runs without the move, for the reason given above; what a move may do to
  the deferred re-sync is proved (`OnlyMovesStrandIt`).

Next models, in order: the pull-request list queue; the removal lease with an abstract
fingerprint; merges of more than two parents.
