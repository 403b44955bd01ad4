--------------------------- MODULE RepoNavigation ---------------------------
(***************************************************************************)
(* Which repository is on screen, and which of the requests in flight may   *)
(* still put another one there: the tab strip, the tab lifetimes, the open  *)
(* intent and the published session of src/src/store (repoRequests.ts,      *)
(* repoLifecycleActions.ts, repoLifecycle/publishSwitch.ts, repoMissing.ts, *)
(* repoTab/closeRepo.ts, repoTab/restoreSession.ts).                        *)
(*                                                                         *)
(* JavaScript runs one callback at a time, so an action is the code between *)
(* two awaits; everything in flight is a record in opens, reads, writes,    *)
(* locates, labels or restore, and is resumed by an action of its own with  *)
(* any answer the backend can give.                                         *)
(*                                                                         *)
(* The strip is a set: where a tab is drawn only decides which neighbour a  *)
(* close lands on, and that is left open here (any remaining tab).          *)
(***************************************************************************)
EXTENDS Naturals, FiniteSets

CONSTANTS
  Picks,       \* what the user can ask to open: repositories and spellings of them
  Canon,       \* Canon[p]: the path open_repo answers with for the pick p
  Worktrees,   \* the linked worktrees among the repositories
  MainOf,      \* MainOf[w]: the parent repository a worktree's tab info names, or None
  None,        \* no path
  Launches,    \* the stored tab strips and active paths a launch may find
  MaxOpens,    \* bound: no user gesture opens a repository after this many opens
  MaxReads,    \* bound: reads of the displayed repository in flight at once
  MaxWrites,   \* bound: writes in flight at once
  MaxLocates,  \* bound: Locate... flows in flight at once
  MaxLabels    \* bound: tab label probes in flight at once

Repos == {Canon[p] : p \in Picks}

ASSUME PathsAssumption ==
  /\ None \notin Picks
  /\ Canon \in [Picks -> Picks]
  /\ \A p \in Picks : Canon[Canon[p]] = Canon[p]
  /\ Worktrees \subseteq Repos
  /\ MainOf \in [Picks -> Picks \cup {None}]

ASSUME LaunchesAssumption ==
  Launches \subseteq [strip : SUBSET Repos, last : Repos \cup {None}]

ASSUME BoundsAssumption ==
  {MaxOpens, MaxReads, MaxWrites, MaxLocates, MaxLabels} \subseteq Nat

VARIABLES
  openPaths,         \* the tab strip
  worktreeTabs,      \* the paths whose tabInfoByPath entry says isWorktree
  life,              \* tabLifetimeByPath (0: no entry) and the last ID minted
  openIntent,        \* holder of the open-intent lane
  pendingOpen,       \* the marker of the open being acknowledged
  summary,           \* path of the repository on screen
  missingRepo,       \* path on the missing-repository screen
  publishedSession,  \* holder of the published-session lane
  lastPath,          \* the active path persisted for the next launch
  watched,           \* paths whose last queued watch request is a watch
  opens,             \* loadRepo calls before their phase-2 publication
  reads,             \* reads of the displayed repository that may find it gone
  writes,            \* writes that open a repository when they finish
  locates,           \* Locate... flows between the picker and the re-key
  labels,            \* refreshTabInfo probes
  restore            \* the launch-time session restore

vars == <<openPaths, worktreeTabs, life, openIntent, pendingOpen, summary,
          missingRepo, publishedSession, lastPath, watched, opens, reads,
          writes, locates, labels, restore>>

shownVars == <<summary, missingRepo, publishedSession, lastPath>>
asyncVars == <<reads, writes, locates, labels, restore>>

PathOrNone == Picks \cup {None}
NoMarker == [intent |-> 0, path |-> None, tab |-> None]
NoOwners == [p \in Picks |-> 0]
RestoreOver == [phase |-> "complete", intent |-> 0, owners |-> NoOwners,
                last |-> None, touched |-> {}]

-----------------------------------------------------------------------------
(* Tab lifetimes. A value is the map and the last ID; IDs are only compared  *)
(* per path, so one snapshot may give several unregistered tabs the same ID. *)

EnsureTabs(lt, paths) ==
  IF \A p \in paths : lt.of[p] # 0 THEN lt
  ELSE [of |-> [p \in Picks |-> IF p \in paths /\ lt.of[p] = 0
                                THEN lt.next + 1 ELSE lt.of[p]],
        next |-> lt.next + 1]

BeginTab(lt, p) == [of |-> [lt.of EXCEPT ![p] = lt.next + 1], next |-> lt.next + 1]

\* Mutation: the lease of a tab that leaves the strip survives it.
EndTabKeepingLease(lt, p) == lt

EndTab(lt, p) == [lt EXCEPT !.of = [@ EXCEPT ![p] = 0]]

\* A captured owner still names the live tab; no owner binds nothing.
TabOwnerIsCurrent(owners, p) ==
  owners[p] # 0 => life.of[p] = owners[p] /\ p \in openPaths

-----------------------------------------------------------------------------
(* Ownership of the requests in flight.                                      *)

Marker(o) == [intent |-> o.intent, path |-> o.path,
              tab |-> IF o.replace = None THEN o.path ELSE o.replace]

\* Mutation: a cancelled open is not told apart.
IntentIsCurrent(o) == o.intent = openIntent /\ TabOwnerIsCurrent(o.owners, o.path)

OpenOwnerIsCurrent(o) ==
  /\ o.intent = openIntent
  /\ pendingOpen.intent = o.intent
  /\ TabOwnerIsCurrent(o.owners, o.path)
  /\ o.replace # None => TabOwnerIsCurrent(o.owners, o.replace)

\* Mutation: only the spelling that was asked for is checked.
LandableAsAsked(o) == OpenOwnerIsCurrent(o)

\* May this open still publish the repository it resolves to?
Landable(o) == OpenOwnerIsCurrent(o) /\ TabOwnerIsCurrent(o.owners, Canon[o.path])

\* Mutation: the path alone identifies the repository on screen.
PathIsCurrent(w) == summary = w.path

OwnerIsCurrent(w) == summary = w.path /\ publishedSession = w.session

\* Both a read's missing-repository transition and a write's navigation need it.
OwnerMayNavigate(w) == OwnerIsCurrent(w) /\ openIntent = w.intent

\* Mutation: an open that stands down leaves its marker behind.
MarkerKept(o) == pendingOpen

Released(o) == IF pendingOpen.intent = o.intent THEN NoMarker ELSE pendingOpen

-----------------------------------------------------------------------------
(* loadRepo up to its first await, run on the strip and the lifetimes the    *)
(* caller leaves behind. It touches nothing that is on screen.               *)

LoadRepo(path, replace, strip, lt, others) ==
  LET owned == EnsureTabs(lt, strip)
      open == [intent |-> openIntent + 1, path |-> path, replace |-> replace,
               owners |-> [p \in Picks |-> IF p \in strip THEN owned.of[p] ELSE 0],
               probing |-> FALSE]
  IN /\ openIntent' = openIntent + 1
     /\ life' = owned
     /\ pendingOpen' = Marker(open)
     /\ opens' = others \cup {open}

\* The user picks a path: a tab, a recent, the picker, or an in-place worktree
\* switch of the tab on screen.
StartOpen(path, replace) ==
  /\ openIntent < MaxOpens
  /\ replace # None => replace = summary
  /\ LoadRepo(path, replace, openPaths, life, opens)
  /\ UNCHANGED <<openPaths, worktreeTabs, shownVars, watched, asyncVars>>

\* Mutation: a cancel hands the intent back, for the next open to take.
CancelReturningIntent ==
  /\ pendingOpen # NoMarker
  /\ pendingOpen' = NoMarker
  /\ openIntent' = openIntent - 1
  /\ UNCHANGED <<openPaths, worktreeTabs, life, shownVars, watched, opens, asyncVars>>

CancelPendingOpen ==
  /\ pendingOpen # NoMarker
  /\ pendingOpen' = NoMarker
  /\ UNCHANGED <<openPaths, worktreeTabs, life, openIntent, shownVars, watched,
                 opens, asyncVars>>

\* tabInfoByPath[p] was replaced by what open_repo or the probe reported.
Touch(p) == IF restore.phase = "restoring"
            THEN [restore EXCEPT !.touched = @ \cup {p}] ELSE restore

LabelTab(p) == (worktreeTabs \ {p}) \cup ({p} \cap Worktrees)

\* publishRepoSwitch and the synchronous head of startRepoSideEffects.
PublishSwitch(o) ==
  LET dest == Canon[o.path]
      inPlace == /\ dest \notin openPaths
                 /\ o.replace \in openPaths
                 /\ o.owners[o.replace] # 0
      strip == (IF inPlace THEN openPaths \ {o.replace} ELSE openPaths) \cup {dest}
      dropped == openPaths \ strip
      ended == IF inPlace THEN EndTab(life, o.replace) ELSE life
  IN /\ o \in opens /\ ~o.probing
     /\ Landable(o)
     /\ openPaths' = strip
     /\ life' = IF dest \in openPaths THEN EnsureTabs(ended, {dest})
                ELSE BeginTab(ended, dest)
     /\ worktreeTabs' = LabelTab(dest) \cap strip
     /\ lastPath' = dest
     /\ publishedSession' = publishedSession + 1
     /\ summary' = dest
     /\ missingRepo' = None
     /\ pendingOpen' = NoMarker
     /\ watched' = (watched \ dropped) \cup {dest}
     /\ opens' = opens \ {o}
     /\ restore' = Touch(dest)
     /\ UNCHANGED <<openIntent, reads, writes, locates, labels>>

\* A superseded, cancelled or closed open resolves, or a current one fails for
\* a reason that says nothing about the path: only the marker is released.
OpenStandsDown(o) ==
  /\ o \in opens /\ ~o.probing
  /\ pendingOpen' = Released(o)
  /\ opens' = opens \ {o}
  /\ UNCHANGED <<openPaths, worktreeTabs, life, openIntent, shownVars, watched,
                 asyncVars>>

-----------------------------------------------------------------------------
(* A path that is gone (repoMissing.ts).                                     *)

\* Route of handleMissing: a linked worktree has no recovery screen.
IsGoneWorktree(p) == p \in worktreeTabs \/ (summary = p /\ p \in Worktrees)

EnterMissingState(p) ==
  /\ openPaths' = openPaths \cup {p}
  /\ life' = IF p \in openPaths THEN EnsureTabs(life, {p}) ELSE BeginTab(life, p)
  /\ lastPath' = p
  /\ publishedSession' = publishedSession + 1
  /\ summary' = None
  /\ missingRepo' = p
  /\ UNCHANGED <<worktreeTabs, watched, openIntent>>

RetireDeadWorktreeTab(p) ==
  /\ watched' = watched \ {p}
  /\ \/ /\ p \in openPaths
        /\ openPaths' = openPaths \ {p}
        /\ worktreeTabs' = worktreeTabs \cap openPaths'
        /\ life' = EndTab(life, p)
        /\ lastPath' = IF summary # None THEN summary ELSE lastPath
     \/ /\ p \notin openPaths
        /\ UNCHANGED <<openPaths, worktreeTabs, life, lastPath>>
  /\ UNCHANGED <<summary, missingRepo, publishedSession, openIntent>>

HasParent(p) == MainOf[p] \notin {None, p}

NeedsParentProbe(p) == HasParent(p) /\ MainOf[p] \notin openPaths

\* Where the fallback may land, given what the parent's disk probe said.
FallbackTargets(p, parentExists) ==
  IF parentExists THEN {MainOf[p]}
  ELSE IF openPaths = {p} THEN {None} ELSE openPaths \ {p}

\* The displayed worktree is gone: drop its tab and open the target.
FallBackTo(p, target, others, marker) ==
  /\ openPaths' = openPaths \ {p}
  /\ worktreeTabs' = worktreeTabs \cap openPaths'
  /\ watched' = watched \ {p}
  /\ publishedSession' = publishedSession + 1
  /\ summary' = None
  /\ missingRepo' = None
  /\ lastPath' = target
  /\ \/ target # None
        /\ LoadRepo(target, None, openPaths \ {p}, EndTab(life, p), others)
     \/ target = None
        /\ life' = EndTab(life, p)
        /\ pendingOpen' = marker
        /\ opens' = others
        /\ UNCHANGED openIntent

\* The classified open says the path is gone, and the open still owns the answer.
OpenFindsMissing(o) ==
  /\ o \in opens /\ ~o.probing
  /\ OpenOwnerIsCurrent(o)
  /\ UNCHANGED asyncVars
  /\ \/ /\ ~IsGoneWorktree(o.path)
        /\ EnterMissingState(o.path)
        /\ pendingOpen' = Released(o)
        /\ opens' = opens \ {o}
     \/ /\ IsGoneWorktree(o.path) /\ summary # o.path
        /\ RetireDeadWorktreeTab(o.path)
        /\ pendingOpen' = Released(o)
        /\ opens' = opens \ {o}
     \/ /\ IsGoneWorktree(o.path) /\ summary = o.path
        /\ ~NeedsParentProbe(o.path)
        /\ \E target \in FallbackTargets(o.path, HasParent(o.path)) :
             FallBackTo(o.path, target, opens \ {o}, Released(o))
     \/ /\ IsGoneWorktree(o.path) /\ summary = o.path
        /\ NeedsParentProbe(o.path)
        /\ watched' = watched \ {o.path}
        /\ opens' = (opens \ {o}) \cup {[o EXCEPT !.probing = TRUE]}
        /\ UNCHANGED <<openPaths, worktreeTabs, life, openIntent, pendingOpen,
                       shownVars>>

\* The parent's disk probe answers; a newer operation makes the open stand down.
OpenFallbackResumes(o) ==
  /\ o \in opens /\ o.probing
  /\ UNCHANGED asyncVars
  /\ \/ /\ OpenOwnerIsCurrent(o)
        /\ \E exists \in BOOLEAN : \E target \in FallbackTargets(o.path, exists) :
             FallBackTo(o.path, target, opens \ {o}, Released(o))
     \/ /\ ~OpenOwnerIsCurrent(o)
        /\ pendingOpen' = Released(o)
        /\ opens' = opens \ {o}
        /\ UNCHANGED <<openPaths, worktreeTabs, life, openIntent, shownVars,
                       watched>>

-----------------------------------------------------------------------------
(* Reads of the displayed repository: the reads a switch fans out and those  *)
(* of a refresh. Each carries the session and the open intent it began under.*)

StartRead ==
  /\ summary # None
  /\ Cardinality(reads) < MaxReads
  /\ reads' = reads \cup {[path |-> summary, session |-> publishedSession,
                           intent |-> openIntent, probing |-> FALSE]}
  /\ UNCHANGED <<openPaths, worktreeTabs, life, openIntent, pendingOpen,
                 shownVars, watched, opens, writes, locates, labels, restore>>

\* Answered, failed for its own reason, superseded in its lane, or stale.
ReadEnds(r) ==
  /\ r \in reads
  /\ ~r.probing \/ ~OwnerMayNavigate(r)
  /\ reads' = reads \ {r}
  /\ UNCHANGED <<openPaths, worktreeTabs, life, openIntent, pendingOpen,
                 shownVars, watched, opens, writes, locates, labels, restore>>

\* surfaceOpenFailure, claimLaneFailure, or the catch of a refresh: the path is
\* gone and the read still owns the screen.
ReadFindsMissing(r) ==
  /\ r \in reads /\ ~r.probing
  /\ OwnerMayNavigate(r)
  /\ UNCHANGED <<writes, locates, labels, restore>>
  /\ \/ /\ ~IsGoneWorktree(r.path)
        /\ EnterMissingState(r.path)
        /\ reads' = reads \ {r}
        /\ UNCHANGED <<pendingOpen, opens>>
     \/ /\ IsGoneWorktree(r.path)
        /\ ~NeedsParentProbe(r.path)
        /\ \E target \in FallbackTargets(r.path, HasParent(r.path)) :
             FallBackTo(r.path, target, opens, pendingOpen)
        /\ reads' = reads \ {r}
     \/ /\ IsGoneWorktree(r.path)
        /\ NeedsParentProbe(r.path)
        /\ watched' = watched \ {r.path}
        /\ reads' = (reads \ {r}) \cup {[r EXCEPT !.probing = TRUE]}
        /\ UNCHANGED <<openPaths, worktreeTabs, life, openIntent, pendingOpen,
                       shownVars, opens>>

ReadFallbackResumes(r) ==
  /\ r \in reads /\ r.probing
  /\ OwnerMayNavigate(r)
  /\ \E exists \in BOOLEAN : \E target \in FallbackTargets(r.path, exists) :
       FallBackTo(r.path, target, opens, pendingOpen)
  /\ reads' = reads \ {r}
  /\ UNCHANGED <<writes, locates, labels, restore>>

-----------------------------------------------------------------------------
(* Closing a tab (closeRepo.ts). The neighbour is any remaining tab.         *)

PendingAfterClose(p) ==
  IF p \in {pendingOpen.path, pendingOpen.tab} THEN NoMarker ELSE pendingOpen

\* Mutation: only the pending neighbour of a close counts as active.
IsPendingNeighbour(p) == summary = None /\ missingRepo = None /\ lastPath = p

\* The screen the persisted path owns while its activation is still pending.
IsActive(p) == summary = p \/ (summary = None /\ missingRepo = None /\ lastPath = p)

\* Land on a neighbour, or on the welcome screen.
LandOn(next, p, remaining) ==
  /\ lastPath' = next
  /\ \/ /\ next # None
        /\ openIntent < MaxOpens
        /\ LoadRepo(next, None, remaining, EndTab(life, p), opens)
     \/ /\ next = None
        /\ life' = EndTab(life, p)
        /\ pendingOpen' = PendingAfterClose(p)
        /\ UNCHANGED <<openIntent, opens>>

CloseTab(p) ==
  /\ openPaths' = openPaths \ {p}
  /\ worktreeTabs' = worktreeTabs \cap openPaths'
  /\ watched' = watched \ {p}
  /\ UNCHANGED asyncVars

\* Its neighbour may be None with tabs left: the rest are in a folded group.
CloseMissing(p) ==
  /\ p # None /\ missingRepo = p
  /\ CloseTab(p)
  /\ missingRepo' = None
  /\ \E next \in (openPaths \ {p}) \cup {None} : LandOn(next, p, openPaths \ {p})
  /\ UNCHANGED <<summary, publishedSession>>

CloseBackground(p) ==
  /\ p \in openPaths /\ missingRepo # p /\ ~IsActive(p)
  /\ CloseTab(p)
  /\ life' = EndTab(life, p)
  /\ pendingOpen' = PendingAfterClose(p)
  /\ lastPath' = IF summary # None THEN summary ELSE lastPath
  /\ UNCHANGED <<openIntent, opens, summary, missingRepo, publishedSession>>

CloseActive(p) ==
  /\ p \in openPaths /\ missingRepo # p /\ IsActive(p)
  /\ CloseTab(p)
  /\ publishedSession' = publishedSession + 1
  /\ summary' = None
  /\ missingRepo' = None
  /\ \E next \in IF openPaths = {p} THEN {None} ELSE openPaths \ {p} :
       LandOn(next, p, openPaths \ {p})

-----------------------------------------------------------------------------
(* Writes that end by opening a repository: moveBranchToWorktree,            *)
(* createWorktreeAt, checkoutBranch and checkoutRemoteBranch.                *)

StartWrite ==
  /\ summary # None
  /\ Cardinality(writes) < MaxWrites
  /\ writes' = writes \cup {[path |-> summary, session |-> publishedSession,
                             intent |-> openIntent]}
  /\ UNCHANGED <<openPaths, worktreeTabs, life, openIntent, pendingOpen,
                 shownVars, watched, opens, reads, locates, labels, restore>>

\* The write is done and still owns the screen: it opens its destination.
WriteNavigates(w, dest, replace) ==
  /\ w \in writes
  /\ OwnerMayNavigate(w)
  /\ openIntent < MaxOpens
  /\ LoadRepo(dest, replace, openPaths, life, opens)
  /\ writes' = writes \ {w}
  /\ UNCHANGED <<openPaths, worktreeTabs, shownVars, watched, reads, locates,
                 labels, restore>>

\* It failed, opens nothing, or something newer owns the screen.
WriteEnds(w) ==
  /\ w \in writes
  /\ writes' = writes \ {w}
  /\ UNCHANGED <<openPaths, worktreeTabs, life, openIntent, pendingOpen,
                 shownVars, watched, opens, reads, locates, labels, restore>>

-----------------------------------------------------------------------------
(* Locate... re-points a dead path; initMissingRepo resumes like a Locate     *)
(* whose answer is the stale path itself.                                     *)

StartLocate(stale, explicit) ==
  /\ IF explicit THEN summary = None /\ missingRepo = None ELSE stale = missingRepo
  /\ Cardinality(locates) < MaxLocates
  /\ locates' = locates \cup {[stale |-> stale, explicit |-> explicit]}
  /\ UNCHANGED <<openPaths, worktreeTabs, life, openIntent, pendingOpen,
                 shownVars, watched, opens, reads, writes, labels, restore>>

LocateOwnerIsCurrent(l) == l.explicit \/ missingRepo = l.stale

ReKeyedLife(stale, target) ==
  LET ended == IF stale \in openPaths THEN EndTab(life, stale) ELSE life
  IN IF target \in openPaths THEN EnsureTabs(ended, {target})
     ELSE IF stale \in openPaths THEN BeginTab(ended, target)
     ELSE life

LocateResumes(l, target) ==
  /\ l \in locates
  /\ LocateOwnerIsCurrent(l)
  /\ openIntent < MaxOpens
  /\ locates' = locates \ {l}
  /\ LET strip == IF l.stale \in openPaths
                  THEN (openPaths \ {l.stale}) \cup {target} ELSE openPaths
     IN \/ /\ target # l.stale
           /\ openPaths' = strip
           /\ lastPath' = target
           /\ watched' = watched \ {l.stale}
           /\ LoadRepo(target, None, strip, ReKeyedLife(l.stale, target), opens)
        \/ /\ target = l.stale
           /\ LoadRepo(target, None, openPaths, life, opens)
           /\ UNCHANGED <<openPaths, lastPath, watched>>
  /\ UNCHANGED <<worktreeTabs, summary, missingRepo, publishedSession, reads,
                 writes, labels, restore>>

\* The dialog was dismissed, the pick is no repository, or the flow was
\* superseded while it was up.
LocateEnds(l) ==
  /\ l \in locates
  /\ locates' = locates \ {l}
  /\ UNCHANGED <<openPaths, worktreeTabs, life, openIntent, pendingOpen,
                 shownVars, watched, opens, reads, writes, labels, restore>>

-----------------------------------------------------------------------------
(* useRepoWatcher and refreshTabInfo: a watched background tab's repository   *)
(* changed, so its label is probed again.                                    *)

StartLabel(p) ==
  /\ p \in watched \cap openPaths
  /\ summary # p
  /\ Cardinality(labels) < MaxLabels
  /\ life' = EnsureTabs(life, {p})
  /\ labels' = labels \cup {[path |-> p, lifetime |-> life'.of[p]]}
  /\ UNCHANGED <<openPaths, worktreeTabs, openIntent, pendingOpen, shownVars,
                 watched, opens, reads, writes, locates, restore>>

LabelIsCurrent(b) == life.of[b.path] = b.lifetime /\ b.path \in openPaths

LabelResumes(b) ==
  /\ b \in labels
  /\ LabelIsCurrent(b)
  /\ labels' = labels \ {b}
  /\ worktreeTabs' = LabelTab(b.path)
  /\ restore' = Touch(b.path)
  /\ UNCHANGED <<openPaths, life, openIntent, pendingOpen, shownVars, watched,
                 opens, reads, writes, locates>>

LabelEnds(b) ==
  /\ b \in labels
  /\ labels' = labels \ {b}
  /\ UNCHANGED <<openPaths, worktreeTabs, life, openIntent, pendingOpen,
                 shownVars, watched, opens, reads, writes, locates, restore>>

-----------------------------------------------------------------------------
(* restoreSession: at launch, before anything else, the stored tabs are given *)
(* their lifetimes and probed on disk; this is the answer. failed: no answer. *)

RestoreLeaseIsLive(p) == restore.owners[p] # 0 /\ life.of[p] = restore.owners[p]

\* Mutation: a startup restore does not ask whether the user opened something.
RestoreAlwaysCurrent == restore.phase = "restoring"

RestoreIntentIsCurrent == openIntent = restore.intent

\* The tabs whose probe answer still applies, and those it removes.
RestoreOwned(failed) ==
  {p \in openPaths : ~failed /\ RestoreLeaseIsLive(p) /\ p \notin restore.touched}

RestorePruned(failed, exists) ==
  {p \in RestoreOwned(failed) :
     RestoreIntentIsCurrent /\ p \notin exists /\ p \in worktreeTabs}

RestoreOwnsNavigation ==
  RestoreIntentIsCurrent /\ lastPath = restore.last /\ lastPath # None

\* Where the launch lands; None opens nothing.
RestoreTargets(strip, exists) ==
  LET survivors == {p \in strip : RestoreLeaseIsLive(p)}
  IN IF ~RestoreOwnsNavigation THEN {None}
     ELSE IF lastPath \in survivors \/ restore.owners = NoOwners THEN {lastPath}
     ELSE IF survivors = {} THEN {None}
     ELSE IF survivors \cap exists # {} THEN survivors \cap exists
     ELSE survivors

RestoreResumes(failed, exists) ==
  LET pruned == RestorePruned(failed, exists)
      found == RestoreOwned(failed) \cap exists
      strip == openPaths \ pruned
      ended == [life EXCEPT !.of = [p \in Picks |-> IF p \in pruned THEN 0 ELSE @[p]]]
  IN /\ restore.phase = "restoring"
     /\ failed => exists = {}
     /\ restore' = RestoreOver
     /\ openPaths' = strip
     /\ worktreeTabs' = ((worktreeTabs \ found) \cup (found \cap Worktrees)) \cap strip
     /\ \E target \in RestoreTargets(strip, exists) :
          /\ lastPath' = IF RestoreOwnsNavigation THEN target ELSE lastPath
          /\ watched' = (watched \ pruned) \cup (found \ {target, summary})
          /\ \/ target # None /\ LoadRepo(target, None, strip, ended, opens)
             \/ target = None /\ life' = ended
                /\ UNCHANGED <<openIntent, pendingOpen, opens>>
     /\ UNCHANGED <<summary, missingRepo, publishedSession, reads, writes,
                    locates, labels>>

-----------------------------------------------------------------------------
Init ==
  \E launch \in Launches :
    LET owned == EnsureTabs([of |-> NoOwners, next |-> 0], launch.strip)
    IN /\ openPaths = launch.strip
       /\ worktreeTabs = launch.strip \cap Worktrees
       /\ life = owned
       /\ openIntent = 0
       /\ pendingOpen = NoMarker
       /\ summary = None
       /\ missingRepo = None
       /\ publishedSession = 0
       /\ lastPath = launch.last
       /\ watched = {}
       /\ opens = {} /\ reads = {} /\ writes = {} /\ locates = {} /\ labels = {}
       /\ restore = [phase |-> "restoring", intent |-> 0, owners |-> owned.of,
                     last |-> launch.last, touched |-> {}]

SettleOpen ==
  \E o \in opens : PublishSwitch(o) \/ OpenStandsDown(o) \/ OpenFindsMissing(o)
                   \/ OpenFallbackResumes(o)

UserStep ==
  \/ \E path \in Picks, replace \in Repos \cup {None} : StartOpen(path, replace)
  \/ CancelPendingOpen
  \/ \E p \in Picks : CloseMissing(p) \/ CloseBackground(p) \/ CloseActive(p)
  \/ StartWrite
  \/ \E stale \in Picks, explicit \in BOOLEAN : StartLocate(stale, explicit)

Next ==
  \/ UserStep
  \/ SettleOpen
  \/ StartRead
  \/ \E r \in reads : ReadEnds(r) \/ ReadFindsMissing(r) \/ ReadFallbackResumes(r)
  \/ \E w \in writes : WriteEnds(w)
  \/ \E w \in writes, dest \in Repos : \E replace \in {None, w.path} :
       WriteNavigates(w, dest, replace)
  \/ \E l \in locates : LocateEnds(l) \/ \E target \in Repos : LocateResumes(l, target)
  \/ \E p \in Picks : StartLabel(p)
  \/ \E b \in labels : LabelResumes(b) \/ LabelEnds(b)
  \/ \E failed \in BOOLEAN, exists \in SUBSET Repos : RestoreResumes(failed, exists)

Spec == Init /\ [][Next]_vars

\* Every backend call answers, so every open settles.
FairSpec == Spec /\ WF_vars(SettleOpen)
-----------------------------------------------------------------------------
(* Properties.                                                               *)

Owners == [Picks -> Nat]
Open == [intent : Nat \ {0}, path : Picks, replace : PathOrNone, owners : Owners,
         probing : BOOLEAN]
ReadOwner == [path : Picks, session : Nat, intent : Nat, probing : BOOLEAN]
WriteOwner == [path : Picks, session : Nat, intent : Nat]

\* Every variable has the shape its store field or in-flight closure has.
TypeOK ==
  /\ openPaths \subseteq Picks
  /\ worktreeTabs \subseteq Picks
  /\ life \in [of : Owners, next : Nat]
  /\ openIntent \in Nat
  /\ pendingOpen \in [intent : Nat, path : PathOrNone, tab : PathOrNone]
  /\ summary \in PathOrNone
  /\ missingRepo \in PathOrNone
  /\ publishedSession \in Nat
  /\ lastPath \in PathOrNone
  /\ watched \subseteq Picks
  /\ opens \subseteq Open
  /\ reads \subseteq ReadOwner
  /\ writes \subseteq WriteOwner
  /\ locates \subseteq [stale : Picks, explicit : BOOLEAN]
  /\ labels \subseteq [path : Picks, lifetime : Nat]
  /\ restore \in [phase : {"restoring", "complete"}, intent : Nat, owners : Owners,
                 last : PathOrNone, touched : SUBSET Picks]

\* The spinner on a tab always belongs to the newest open, and that open is
\* still running: it is never stranded on an open that has already returned
\* (releasePending, cancelPendingOpen, closeRepo, phase 2 of loadRepo).
PendingIsLatestOpen ==
  pendingOpen # NoMarker =>
    /\ pendingOpen.intent = openIntent
    /\ \E o \in opens : Marker(o) = pendingOpen

\* The strip, the lifetimes and the watches agree: a path that has no tab has
\* no live lease a request could match and is not watched by the backend.
TabsOwnLeasesAndWatches ==
  /\ {p \in Picks : life.of[p] # 0} \subseteq openPaths
  /\ watched \subseteq openPaths

\* What is on screen has a tab to leave it by.
DisplayedHasTab == {summary, missingRepo} \subseteq openPaths \cup {None}

\* A repository on screen and the missing-repository screen exclude each other.
OneScreen == summary = None \/ missingRepo = None

\* An open that has lost its claim, its marker or its tab never wins them back:
\* no sequence of closes, reopens and cancels makes a stale answer publishable.
StandDownIsFinal ==
  [][\A o \in opens : o \in opens' /\ ~Landable(o) => ~Landable(o)']_vars

\* The same for a read, a write and a tab-label probe whose repository was
\* closed and reopened while they ran (repoRequests.ts, the same-path ABA case).
StaleOwnersStayStale ==
  [][/\ \A r \in reads : ~OwnerMayNavigate(r) => ~OwnerMayNavigate(r)'
     /\ \A w \in writes : ~OwnerMayNavigate(w) => ~OwnerMayNavigate(w)'
     /\ \A b \in labels : ~LabelIsCurrent(b) => ~LabelIsCurrent(b)']_vars

\* A tab the user closed comes back only through an open begun after the close:
\* the open that puts a tab into the strip never held a lease on that tab.
ClosedTabStaysClosed ==
  [][\A p \in openPaths' \ openPaths, o \in opens \ opens' : o.owners[p] = 0]_vars

\* Startup restore never undoes what the user did while the disk was probed: it
\* removes only tabs that were never closed, reopened or relabelled since, and
\* once an open was claimed it neither prunes, nor navigates, nor moves the
\* persisted active path.
RestoreYields ==
  [][restore.phase = "restoring" /\ restore'.phase = "complete" =>
       /\ \A p \in openPaths \ openPaths' :
            RestoreLeaseIsLive(p) /\ p \notin restore.touched
       /\ openIntent # restore.intent =>
            UNCHANGED <<openPaths, openIntent, opens, pendingOpen, lastPath>>]_vars

\* A spinner is always taken down.
SpinnerIsReleased == []<>(pendingOpen = NoMarker)

\* Opening, closing and losing repositories does no more than RepoScreen allows:
\* a repository appears only as the landing of the one pending pick.
Screen == INSTANCE RepoScreen
  WITH shown <- summary, missing <- missingRepo, pending <- pendingOpen.path,
       session <- publishedSession, intent <- openIntent
ImplementsScreen == Screen!Spec
=============================================================================
