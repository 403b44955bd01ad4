---------------------------- MODULE RepoRefresh ----------------------------
(***************************************************************************)
(* What the displayed repository shows while its reads and writes overlap:   *)
(* the request lanes, the `loading` flag that defers a re-sync, the deferred *)
(* re-sync and who waits for it, and the missing-repository transition of a  *)
(* failed read (src/src/store: repoRefreshActions.ts, repoRefresh/,          *)
(* repoGuards.ts, repoRequests.ts, repoWriteActions/).                       *)
(*                                                                         *)
(* Which repository is on screen moves as RepoScreen says. A request lane    *)
(* (requestLease.ts) is a counter compared with a captured token; here each  *)
(* request in flight carries the lanes whose token it still holds, and       *)
(* claiming a lane takes it from every other request.                        *)
(***************************************************************************)
EXTENDS Naturals, FiniteSets

CONSTANTS
  Repos,       \* repositories
  None,        \* no repository
  WriteKinds,  \* the writes that run, of "fetch", "checkout", "move" and "merge"
  MaxIntents,  \* bound: opens begun
  MaxReads     \* bound: a gesture begins with fewer reads in flight

Lanes == {"graph", "metadata", "tree", "remotes"}

ASSUME ReposAssumption == None \notin Repos
ASSUME KindsAssumption == WriteKinds \subseteq {"fetch", "checkout", "move", "merge"}
ASSUME BoundsAssumption == {MaxIntents, MaxReads} \subseteq Nat

VARIABLES
  shown, missing, pending, session, intent,  \* RepoScreen
  gone,        \* repositories whose folder was deleted
  conflicted,  \* repositories git left in a merge or rebase
  reads,       \* loads after their publication, re-syncs and history pages
  writes,      \* fetch, checkout and move
  merge,       \* the operation that may stop on conflicts
  loading,     \* the flag a load, a re-sync or a write holds
  graph,       \* "absent", "skeleton" (graphLoading) or "present"
  paging,      \* loadingMoreHistory
  stashes,     \* "blank", or "settled": read, or flagged unavailable
  operation,   \* the conflict workspace is open
  deferred     \* pendingRefresh: "none", "worktree" or "all"

screenVars == <<shown, missing, pending, session, intent>>
diskVars == <<gone, conflicted>>
paneVars == <<graph, stashes, operation>>
vars == <<screenVars, diskVars, reads, writes, merge, loading, paging, paneVars,
          deferred>>

Screen == INSTANCE RepoScreen WITH Picks <- Repos, Canon <- [r \in Repos |-> r]

-----------------------------------------------------------------------------
(* Ownership.                                                                *)

\* No session: a later open of the same path has claimed the lane itself.
GraphIsCurrent(r) == "graph" \in r.owns /\ shown = r.path

ReadIsCurrent(lane, r) == lane \in r.owns /\ session = r.session /\ shown = r.path

\* Mutation: the path alone identifies the repository on screen.
PathIsCurrent(w) == shown = w.path

OwnerIsCurrent(w) == session = w.session /\ shown = w.path

OwnerMayNavigate(w) == OwnerIsCurrent(w) /\ intent = w.intent

\* The reads left once a newer request has claimed these lanes.
Claimed(lanes, rs) == {[r EXCEPT !.owns = @ \ lanes] : r \in rs}

FreshId(rs) == CHOOSE i \in 1..(Cardinality(rs) + 1) : \A r \in rs : r.id # i

-----------------------------------------------------------------------------
(* refresh() up to its first await, and the flush of a deferred one.         *)

Wider(one, other) == IF "all" \in {one, other} THEN "all" ELSE "worktree"

LanesOf(scope) == IF scope = "all" THEN Lanes ELSE {"tree"}

Resync(scope, quiet, caller, rs) ==
  [id |-> FreshId(rs), kind |-> scope, path |-> shown, session |-> session,
   intent |-> intent, owns |-> LanesOf(scope), quiet |-> quiet,
   caller |-> caller, doomed |-> shown \in gone, waiting |-> {}]

\* With rs in flight and loading as held: deferred behind whoever holds it.
Refresh(scope, quiet, caller, rs, held) ==
  \/ /\ held
     /\ deferred' = Wider(deferred, scope)
     /\ reads' = rs
     /\ loading' = TRUE
     /\ UNCHANGED paging
  \/ /\ ~held
     /\ reads' = Claimed(LanesOf(scope), rs) \cup {Resync(scope, quiet, caller, rs)}
     /\ loading' = ~quiet
     /\ paging' = (paging /\ scope = "worktree")
     /\ UNCHANGED deferred

\* A replay runs unless nothing is queued, nothing is shown or loading is held.
Replays(held) == deferred # "none" /\ shown' # None /\ ~held

\* flushPendingRefresh, with rs in flight and loading as held after the step.
FlushReads(rs, held) ==
  reads' = IF ~Replays(held) THEN rs
           ELSE LET caller == IF merge.phase = "queued" THEN "waiters" ELSE "nobody"
                IN Claimed(LanesOf(deferred), rs)
                   \cup {Resync(deferred, TRUE, caller, rs)}

FlushDeferred(held) ==
  deferred' = IF deferred # "none" /\ shown' # None /\ held THEN deferred ELSE "none"

\* A waiter follows its replay, or is told that nothing was re-read.
FlushWaiters(held) ==
  merge' = IF merge.phase # "queued" \/ (deferred' # "none") THEN merge
           ELSE IF Replays(held) THEN [merge EXCEPT !.phase = "reading"]
           ELSE [merge EXCEPT !.phase = "done", !.verdict = "raw"]

\* A full replay takes the graph from the history page being read.
FlushPaging(held) ==
  paging' = (paging /\ shown' # None /\ (Replays(held) => deferred = "worktree"))

Flush(rs, held) ==
  FlushReads(rs, held) /\ FlushDeferred(held) /\ FlushPaging(held) /\ FlushWaiters(held)

-----------------------------------------------------------------------------
(* The screen changes hands.                                                 *)

\* repoDataWipe. The stashes and the operation of a fallback with a target are
\* wiped only by its load; nothing shows them meanwhile.
Wipe ==
  /\ graph' = "absent"
  /\ stashes' = "blank"
  /\ operation' = FALSE

Ask(p) ==
  /\ intent < MaxIntents
  /\ Screen!Ask(p)
  /\ UNCHANGED <<diskVars, reads, writes, merge, loading, paging, paneVars, deferred>>

Forget ==
  /\ pending # None
  /\ Screen!Forget
  /\ UNCHANGED <<diskVars, reads, writes, merge, loading, paging, paneVars, deferred>>

LoadParts == {"graph", "branches", "stashes", "changes", "operation"}

\* publishRepoSwitch claims every lane; startRepoSideEffects and loadRepo then
\* read the parts, each on its own.
Land ==
  /\ Screen!Land
  /\ reads' = Claimed(Lanes, reads) \cup
       {[id |-> FreshId(reads), kind |-> "load", path |-> shown', session |-> session',
         intent |-> intent, owns |-> Lanes, quiet |-> FALSE, caller |-> "nobody",
         doomed |-> FALSE, waiting |-> LoadParts]}
  /\ graph' = "skeleton"
  /\ stashes' = "blank"
  /\ operation' = FALSE
  /\ paging' = FALSE
  /\ loading' = TRUE
  /\ UNCHANGED <<diskVars, writes, merge, deferred>>

\* A tab is closed, or the open of a missing pick settles. The graph lane that
\* a missing path claims is not released to anyone: the next load claims it.
GoAway ==
  /\ \/ Screen!Leave /\ (shown # None \/ missing # None \/ pending' # pending)
     \/ pending \in gone /\ Screen!GoMissing(pending) /\ pending' = None
  /\ intent' <= MaxIntents
  /\ Wipe
  /\ paging' = FALSE
  /\ loading' = FALSE
  /\ UNCHANGED <<diskVars, reads, writes, merge, deferred>>

-----------------------------------------------------------------------------
(* Outside the application.                                                  *)

FolderDeleted(r) ==
  /\ r \notin gone
  /\ gone' = gone \cup {r}
  /\ UNCHANGED <<screenVars, conflicted, reads, writes, merge, loading, paging,
                 paneVars, deferred>>

\* A merge is started, or concluded, in a terminal.
TerminalMerge(r) ==
  /\ r \notin gone
  /\ conflicted' = IF r \in conflicted THEN conflicted \ {r} ELSE conflicted \cup {r}
  /\ UNCHANGED <<screenVars, gone, reads, writes, merge, loading, paging, paneVars,
                 deferred>>

-----------------------------------------------------------------------------
(* Answers. A failed read of a path that is gone takes the repository off the *)
(* screen, unless a newer open was begun since (handleMissing).              *)

\* Mutation: a newer open does not protect the screen.
GoesMissingAnyway(r) == r.path \in gone

GoesMissing(r) == r.path \in gone /\ intent = r.intent

LeaveMissing(r) ==
  /\ \/ Screen!GoMissing(r.path) /\ pending' = pending
     \/ Screen!Leave /\ (pending' = pending \/ intent' = intent + 1)
  /\ intent' <= MaxIntents
  /\ Wipe

PaneKept == UNCHANGED <<screenVars, paneVars>>

Answered(r, part) ==
  IF r.waiting = {part} THEN reads \ {r}
  ELSE (reads \ {r}) \cup {[r EXCEPT !.waiting = @ \ {part}]}

PartIsCurrent(part, r) ==
  CASE part = "graph" -> GraphIsCurrent(r)
    [] part \in {"branches", "stashes"} -> ReadIsCurrent("metadata", r)
    [] OTHER -> ReadIsCurrent("tree", r)

\* Superseded answers change nothing and replay nothing, so those left of a load
\* are dropped together.
LoadSuperseded(r) ==
  /\ \A part \in r.waiting : ~PartIsCurrent(part, r)
  /\ reads' = reads \ {r}
  /\ PaneKept
  /\ UNCHANGED <<diskVars, writes, merge, loading, paging, deferred>>

LoadGraphAnswers(r, ok) ==
  /\ "graph" \in r.waiting
  /\ PartIsCurrent("graph", r)
  /\ \/ /\ ~ok /\ GoesMissing(r)
        /\ LeaveMissing(r)
     \/ /\ ok \/ ~GoesMissing(r)
        /\ graph' = IF ok THEN "present" ELSE "absent"
        /\ UNCHANGED <<screenVars, stashes, operation>>
  /\ loading' = FALSE
  /\ Flush(Answered(r, "graph"), FALSE)
  /\ UNCHANGED <<diskVars, writes>>

\* Branches and changes are required: losing either is noticed.
LoadRequiredAnswers(r, part, ok) ==
  /\ part \in r.waiting
  /\ PartIsCurrent(part, r)
  /\ reads' = Answered(r, part)
  /\ \/ ~ok /\ GoesMissing(r) /\ LeaveMissing(r) /\ loading' = FALSE /\ paging' = FALSE
     \/ (ok \/ ~GoesMissing(r)) /\ PaneKept /\ UNCHANGED <<loading, paging>>
  /\ UNCHANGED <<diskVars, writes, merge, deferred>>

\* A failure flags the section, so either answer settles the stash list.
LoadStashesAnswers(r) ==
  /\ "stashes" \in r.waiting
  /\ PartIsCurrent("stashes", r)
  /\ reads' = Answered(r, "stashes")
  /\ stashes' = "settled"
  /\ UNCHANGED <<screenVars, diskVars, writes, merge, loading, paging, graph,
                 operation, deferred>>

LoadOperationAnswers(r, ok) ==
  /\ "operation" \in r.waiting
  /\ PartIsCurrent("operation", r)
  /\ reads' = Answered(r, "operation")
  /\ operation' = IF ok THEN r.path \in conflicted ELSE operation
  /\ UNCHANGED <<screenVars, diskVars, writes, merge, loading, paging, graph,
                 stashes, deferred>>

LoadAnswers(r) ==
  /\ r.kind = "load"
  /\ \/ LoadSuperseded(r)
     \/ LoadStashesAnswers(r)
     \/ \E ok \in BOOLEAN :
          \/ LoadGraphAnswers(r, ok)
          \/ \E part \in {"branches", "changes"} : LoadRequiredAnswers(r, part, ok)
          \/ LoadOperationAnswers(r, ok)

-----------------------------------------------------------------------------
(* Re-syncs. The caller of one is "merge", which reads the operation it       *)
(* leaves, "waiters" for a replay a merge waits for, or "nobody".             *)

StartResync(scope, quiet) ==
  /\ shown # None
  /\ Cardinality(reads) < MaxReads
  /\ scope = "worktree" => quiet
  /\ Refresh(scope, quiet, "nobody", reads, loading)
  /\ UNCHANGED <<screenVars, diskVars, writes, merge, paneVars>>

\* runMaybeConflict, once its refresh has answered: a merge that newly stopped
\* opens the conflict workspace, everything else surfaces git's error.
Decide(m, refreshed) ==
  [m EXCEPT !.phase = "done", !.refreshed = refreshed,
            !.verdict = IF refreshed /\ ~m.had /\ operation' THEN "conflict" ELSE "raw"]

OwnerIsCurrentAfter(m) == shown' = m.path /\ session' = m.session

\* Mutation: a failed refresh always waits for a next one.
CallerAlwaysWaits(r, result) ==
  merge' = IF result THEN Decide(merge, OwnerIsCurrentAfter(merge))
           ELSE [merge EXCEPT !.phase = "queued"]

\* refreshSettled and settlePendingWaiters: what r's caller does with its result.
CallerHears(r, result) ==
  merge' = IF result THEN Decide(merge, OwnerIsCurrentAfter(merge))
           ELSE IF /\ deferred' # "none"
                   /\ r.caller = "waiters" \/ OwnerIsCurrentAfter(merge)
                THEN [merge EXCEPT !.phase = "queued"]
                ELSE Decide(merge, FALSE)

\* The end of every full re-sync: replay what was deferred, then answer.
Finish(r, held, result) ==
  /\ loading' = held
  /\ FlushReads(reads \ {r}, held)
  /\ FlushDeferred(held)
  /\ FlushPaging(held)
  /\ IF r.caller = "nobody" THEN FlushWaiters(held) ELSE CallerHears(r, result)

\* Mutation: the re-sync that raised loading never lowers it.
HeldForEver(r, releases) == loading

HeldAfter(r, releases) == loading /\ ~(releases /\ ~r.quiet)

\* openRepo rejects: nothing else is read, and only the graph's owner matters.
ResyncOpenFails(r) ==
  /\ r.kind = "all"
  /\ \/ /\ GraphIsCurrent(r) /\ GoesMissing(r)
        /\ LeaveMissing(r)
        /\ Finish(r, FALSE, FALSE)
     \/ /\ GraphIsCurrent(r) /\ ~GoesMissing(r)
        /\ graph' = IF graph = "skeleton" THEN "absent" ELSE graph
        /\ UNCHANGED <<screenVars, stashes, operation>>
        /\ Finish(r, HeldAfter(r, TRUE), FALSE)
     \/ /\ ~GraphIsCurrent(r)
        /\ PaneKept
        /\ Finish(r, loading, FALSE)
  /\ UNCHANGED <<diskVars, writes>>

\* Failed stash, worktree, forge and remote reads flag their section.
ResyncReads == {"graph", "branches", "changes", "operation"}

\* A failed status read keeps an operation only while conflicts remain.
OperationRead(r, failed) ==
  r.path \in conflicted /\ ("operation" \in failed => operation)

\* Every read has settled: the lanes still held are published together.
ResyncAnswers(r, failed) ==
  LET graphCurrent == GraphIsCurrent(r)
      metadataCurrent == ReadIsCurrent("metadata", r)
      treeCurrent == ReadIsCurrent("tree", r)
      graphFails == "graph" \in failed /\ graphCurrent
      metadataFails == "branches" \in failed /\ metadataCurrent
      treeFails == "changes" \in failed /\ treeCurrent
      ownedFailure == graphFails \/ metadataFails \/ treeFails
      published == (metadataCurrent /\ ~metadataFails) \/ (treeCurrent /\ ~treeFails)
                   \/ ReadIsCurrent("remotes", r)
  IN /\ r.kind = "all" /\ ~r.doomed
     /\ UNCHANGED <<diskVars, writes>>
     /\ \/ /\ ownedFailure /\ GoesMissing(r)
           /\ LeaveMissing(r)
           /\ Finish(r, FALSE, FALSE)
        \/ /\ ~(ownedFailure /\ GoesMissing(r))
           /\ UNCHANGED screenVars
           /\ graph' = IF ~graphCurrent THEN graph
                       ELSE IF ~graphFails THEN "present"
                       ELSE IF graph = "skeleton" THEN "absent" ELSE graph
           /\ stashes' = IF metadataCurrent /\ ~metadataFails THEN "settled" ELSE stashes
           /\ operation' = IF treeCurrent /\ ~treeFails THEN OperationRead(r, failed)
                           ELSE operation
           /\ Finish(r, HeldAfter(r, graphCurrent),
                     ~ownedFailure /\ ((graphCurrent /\ ~graphFails) \/ published))

\* refreshWorktreeScope. Its promise is returned, not awaited, so a rejected
\* read reaches none of refresh's handlers: no transition, and no replay.
WorktreeAnswers(r, failed) ==
  LET published == ReadIsCurrent("tree", r) /\ "changes" \notin failed
  IN /\ r.kind = "worktree" /\ (r.doomed => "changes" \in failed)
     /\ UNCHANGED <<screenVars, diskVars, writes, loading, paging, graph, stashes>>
     /\ reads' = reads \ {r}
     /\ operation' = IF published THEN OperationRead(r, failed) ELSE operation
     /\ deferred' = deferred
     /\ IF r.caller = "nobody" THEN UNCHANGED merge ELSE CallerHears(r, published)

\* loadMoreHistory: the graph it extends must have been painted.
StartPage ==
  /\ shown # None /\ graph = "present" /\ ~loading /\ ~paging
  /\ Cardinality(reads) < MaxReads
  /\ paging' = TRUE
  /\ reads' = Claimed({"graph"}, reads) \cup
       {[id |-> FreshId(reads), kind |-> "page", path |-> shown, session |-> session,
         intent |-> intent, owns |-> {"graph"}, quiet |-> TRUE, caller |-> "nobody",
         doomed |-> FALSE, waiting |-> {}]}
  /\ UNCHANGED <<screenVars, diskVars, writes, merge, loading, paneVars, deferred>>

PageAnswers(r) ==
  /\ r.kind = "page"
  /\ reads' = reads \ {r}
  /\ paging' = (paging /\ ~GraphIsCurrent(r))
  /\ UNCHANGED <<screenVars, diskVars, writes, merge, loading, paneVars, deferred>>

Answer(r) ==
  \/ LoadAnswers(r)
  \/ ResyncOpenFails(r)
  \/ \E failed \in SUBSET ResyncReads : ResyncAnswers(r, failed) \/ WorktreeAnswers(r, failed)
  \/ PageAnswers(r)

-----------------------------------------------------------------------------
(* Writes. Each captures its owner before its first await (captureOwner).     *)

Owner(kind, phase) == [kind |-> kind, path |-> shown, session |-> session,
                       intent |-> intent, phase |-> phase]

Begin(kind, phase) ==
  /\ kind \in WriteKinds
  /\ shown # None
  /\ Cardinality(reads) < MaxReads
  /\ \A w \in writes : w.kind # kind
  /\ writes' = writes \cup {Owner(kind, phase)}
  /\ UNCHANGED <<screenVars, diskVars, merge, paging, paneVars, deferred>>

\* Mutation: a failed write releases loading without replaying (GL-20).
ReleaseOnly(w) ==
  /\ loading' = (loading /\ ~OwnerIsCurrent(w))
  /\ UNCHANGED <<reads, deferred, paging, merge>>

\* releaseLoadingIfCurrent with flush: the end of a write that failed.
ReleaseAndFlush(w) ==
  /\ IF OwnerIsCurrent(w) THEN loading' = FALSE /\ Flush(reads, FALSE)
     ELSE UNCHANGED <<loading, reads, deferred, paging, merge>>

\* releaseLoadingIfCurrent, then refreshIfCurrent in the same callback.
ReleaseAndRefresh(w) ==
  /\ IF OwnerIsCurrent(w) THEN Refresh("all", FALSE, "nobody", reads, FALSE)
     ELSE UNCHANGED <<loading, reads, deferred, paging>>
  /\ UNCHANGED merge

Ends(w) == writes' = writes \ {w}

StartFetch == Begin("fetch", "running") /\ loading' = TRUE /\ UNCHANGED reads

\* checkoutBranch first probes the worktrees, on the metadata lane.
StartCheckout ==
  /\ Begin("checkout", "probing")
  /\ reads' = Claimed({"metadata"}, reads)
  /\ UNCHANGED loading

\* The branch is free and the screen was not asked for: git checks it out.
ProbeEnds(w) ==
  /\ w \in writes /\ w.kind = "checkout" /\ w.phase = "probing"
  /\ \/ /\ OwnerMayNavigate(w)
        /\ writes' = (writes \ {w}) \cup {[w EXCEPT !.phase = "running"]}
        /\ loading' = TRUE
     \/ Ends(w) /\ UNCHANGED loading
  /\ UNCHANGED <<screenVars, diskVars, reads, merge, paging, paneVars, deferred>>

\* The end of a fetch or a checkout.
WriteSucceeds(w) ==
  /\ w \in writes /\ w.kind \in {"fetch", "checkout"} /\ w.phase = "running"
  /\ Ends(w)
  /\ ReleaseAndRefresh(w)
  /\ UNCHANGED <<screenVars, diskVars, paneVars>>

WriteFails(w) ==
  /\ w \in writes /\ w.phase = "running"
  /\ Ends(w)
  /\ UNCHANGED <<screenVars, diskVars, paneVars>>
  /\ ReleaseAndFlush(w)

StartMove ==
  /\ ~loading /\ intent < MaxIntents
  /\ Begin("move", "running")
  /\ loading' = TRUE
  /\ UNCHANGED reads

\* The branch was moved: land on its destination unless something newer owns
\* the screen, in which case only the spinner is released.
MoveSucceeds(w) ==
  /\ w \in writes /\ w.kind = "move" /\ w.phase = "running"
  /\ loading' = (loading /\ ~OwnerIsCurrent(w))
  /\ \/ /\ OwnerMayNavigate(w) /\ intent < MaxIntents
        /\ \E dest \in Repos : Screen!Ask(dest)
        /\ writes' = (writes \ {w}) \cup {[w EXCEPT !.phase = "landing",
                                                 !.intent = intent']}
     \/ /\ ~OwnerMayNavigate(w)
        /\ Ends(w)
        /\ UNCHANGED screenVars
  /\ UNCHANGED <<diskVars, reads, merge, paging, paneVars, deferred>>

\* The destination's loadRepo returned, landed or not.
MoveLands(w) ==
  /\ w \in writes /\ w.phase = "landing"
  /\ intent = w.intent => pending = None
  /\ \A r \in reads : ~(r.kind = "load" /\ r.intent = w.intent /\ "graph" \in r.waiting)
  /\ Ends(w)
  /\ loading' = (loading /\ ~OwnerIsCurrent(w))
  /\ UNCHANGED <<screenVars, diskVars, reads, merge, paging, paneVars, deferred>>

NoMerge == [phase |-> "idle", path |-> None, session |-> 0, had |-> FALSE,
            stopped |-> FALSE, refreshed |-> FALSE, verdict |-> "none"]

\* runMaybeConflict does not hold loading while git runs.
StartMerge ==
  /\ "merge" \in WriteKinds
  /\ shown # None
  /\ Cardinality(reads) < MaxReads
  /\ merge.phase \in {"idle", "done"}
  /\ merge' = [NoMerge EXCEPT !.phase = "running", !.path = shown,
                              !.session = session, !.had = operation]
  /\ UNCHANGED <<screenVars, diskVars, reads, writes, loading, paging, paneVars,
                 deferred>>

MergeSucceeds ==
  /\ merge.phase = "running"
  /\ merge' = NoMerge
  /\ IF OwnerIsCurrent(merge) THEN Refresh("all", FALSE, "nobody", reads, loading)
     ELSE UNCHANGED <<reads, loading, deferred, paging>>
  /\ UNCHANGED <<screenVars, diskVars, writes, paneVars>>

\* git exits with an error: it stopped on conflicts, or refused to start.
MergeFails(stopped) ==
  /\ merge.phase = "running"
  /\ conflicted' = IF stopped THEN conflicted \cup {merge.path} ELSE conflicted
  /\ \/ /\ OwnerIsCurrent(merge)
        /\ Refresh("all", FALSE, "merge", reads, loading)
        /\ merge' = [merge EXCEPT !.stopped = stopped,
                                  !.phase = IF loading THEN "queued" ELSE "reading"]
     \/ /\ ~OwnerIsCurrent(merge)
        /\ merge' = [merge EXCEPT !.stopped = stopped, !.phase = "done", !.verdict = "raw"]
        /\ UNCHANGED <<reads, loading, deferred, paging>>
  /\ UNCHANGED <<screenVars, gone, writes, paneVars>>

-----------------------------------------------------------------------------
Init ==
  /\ Screen!Init
  /\ gone = {} /\ conflicted = {}
  /\ reads = {} /\ writes = {} /\ merge = NoMerge
  /\ loading = FALSE /\ graph = "absent" /\ paging = FALSE
  /\ stashes = "blank" /\ operation = FALSE /\ deferred = "none"

Navigate == (\E p \in Repos : Ask(p)) \/ Forget \/ Land \/ GoAway

Outside == \E r \in Repos : FolderDeleted(r) \/ TerminalMerge(r)

Gesture ==
  \/ \E scope \in {"worktree", "all"}, quiet \in BOOLEAN : StartResync(scope, quiet)
  \/ StartPage
  \/ StartFetch \/ StartCheckout \/ StartMove \/ StartMerge

WriteStep(w) ==
  ProbeEnds(w) \/ WriteSucceeds(w) \/ WriteFails(w) \/ MoveSucceeds(w) \/ MoveLands(w)

MergeStep == MergeSucceeds \/ \E stopped \in BOOLEAN : MergeFails(stopped)

Next ==
  \/ Navigate \/ Outside \/ Gesture
  \/ \E r \in reads : Answer(r)
  \/ \E w \in writes : WriteStep(w)
  \/ MergeStep

Spec == Init /\ [][Next]_vars

AnswerTo(id) == \E r \in reads : r.id = id /\ Answer(r)
WriteStepOf(kind) == \E w \in writes : w.kind = kind /\ WriteStep(w)

\* Every backend call answers: a read, and the git command of a write.
FairSpec ==
  /\ Spec
  /\ \A id \in 1..(MaxReads + Cardinality(WriteKinds) + 1) : WF_vars(AnswerTo(id))
  /\ \A kind \in {"fetch", "checkout", "move"} : WF_vars(WriteStepOf(kind))
  /\ WF_vars(MergeStep)

-----------------------------------------------------------------------------
(* Properties.                                                               *)

RepoOrNone == Repos \cup {None}
Read == [id : Nat \ {0}, kind : {"load", "worktree", "all", "page"}, path : Repos,
         session : Nat, intent : Nat, owns : SUBSET Lanes, quiet : BOOLEAN,
         caller : {"nobody", "merge", "waiters"}, doomed : BOOLEAN,
         waiting : SUBSET LoadParts]
Write == [kind : {"fetch", "checkout", "move"}, path : Repos, session : Nat,
          intent : Nat, phase : {"probing", "running", "landing"}]
Merge == [phase : {"idle", "running", "reading", "queued", "done"}, path : RepoOrNone,
          session : Nat, had : BOOLEAN, stopped : BOOLEAN, refreshed : BOOLEAN,
          verdict : {"none", "conflict", "raw"}]

\* Every variable has the shape its store field or in-flight closure has.
TypeOK ==
  /\ {shown, missing, pending} \subseteq RepoOrNone
  /\ session \in Nat /\ intent \in Nat
  /\ gone \subseteq Repos /\ conflicted \subseteq Repos
  /\ reads \subseteq Read /\ writes \subseteq Write /\ merge \in Merge
  /\ {loading, paging, operation} \subseteq BOOLEAN
  /\ graph \in {"absent", "skeleton", "present"}
  /\ stashes \in {"blank", "settled"}
  /\ deferred \in {"none", "worktree", "all"}

\* The three spinners (loading, graphLoading, loadingMoreHistory) are never left
\* to nobody: some request or write in flight still owns taking each one down.
SpinnersHaveOwners ==
  /\ loading =>
       \/ \E r \in reads :
            /\ GraphIsCurrent(r)
            /\ (r.kind = "all" /\ ~r.quiet) \/ "graph" \in r.waiting
       \/ \E w \in writes : OwnerIsCurrent(w) /\ w.phase = "running"
  /\ graph = "skeleton" =>
       \E r \in reads : GraphIsCurrent(r) /\ (r.kind = "all" \/ "graph" \in r.waiting)
  /\ paging => \E r \in reads : GraphIsCurrent(r) /\ r.kind = "page"

\* A re-sync deferred for the repository on screen waits for loading to be
\* released, so whoever releases it replays it (GL-20).
DeferredWaitsForLoading == deferred # "none" /\ shown # None => loading

\* A write that waits for a deferred re-sync has one to wait for, and an answer is
\* handed to a write exactly while one waits for it.
WaiterHasReplay ==
  /\ merge.phase = "queued" => deferred # "none"
  /\ merge.phase = "reading" <=> \E r \in reads : r.caller # "nobody"

\* A read or a write begun under an earlier session, same path or not, changes
\* nothing of what the repository on screen shows, takes down none of its spinners
\* and, if it is a write, starts no read of its own.
EarlierSessionsAreSilent ==
  [][/\ \A r \in reads : r.session # session /\ Answer(r) =>
          UNCHANGED <<shown, missing, graph, stashes, operation, loading>>
     /\ \A w \in writes : w.session # session /\ WriteStep(w) =>
          UNCHANGED <<screenVars, reads, loading, paging, paneVars, deferred>>]_vars

\* Once a newer open was begun, no read in flight takes its repository off the
\* screen or touches the pick that is pending, however its path is gone.
NewerOpenWins ==
  [][\A r \in reads : r.intent # intent => UNCHANGED screenVars \/ ~Answer(r)]_vars

\* A refresh begun after the open repository's folder was deleted, and that still
\* owns its lane when its read fails, takes the repository off the screen.
GoneIsNoticed ==
  [][\A r \in reads :
       (/\ r.doomed /\ ReadIsCurrent("tree", r) /\ r.intent = intent
        /\ "graph" \in r.owns \/ r.kind = "worktree"
        /\ Answer(r)) => shown' = None]_vars

\* Writes superseding each other's refresh for ever would hold both off.
UserRests == <>[](writes = {})

\* The progress bar always comes down.
LoadingEnds == UserRests => []<>~loading

\* A re-sync deferred for the repository on screen is always replayed.
DeferredIsReplayed == UserRests => []<>(deferred = "none" \/ shown = None)
=============================================================================
