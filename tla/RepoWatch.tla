----------------------------- MODULE RepoWatch -----------------------------
(***************************************************************************)
(* What becomes of a change made outside the app: the file system event, its *)
(* classification and throttling per watched path                            *)
(* (src/src-tauri/src/watcher/classification.rs), the repo-changed event the *)
(* webview receives, and the debounced refresh of the repository on screen   *)
(* (src/src/hooks/useRepoWatcher.ts). The registry the events come through is *)
(* WatchRegistry.                                                           *)
(*                                                                         *)
(* Time passes in ticks of 100 ms. An event of an ignored path, an access    *)
(* and a sibling's private files change nothing and are left out; the other   *)
(* events carry the impact classify_paths gives them. An event a replaced     *)
(* watcher has already queued is still handled.                               *)
(***************************************************************************)
EXTENDS WatchRegistry, FiniteSets

CONSTANTS
  Throttle,     \* ticks between two events emitted for a path
  Debounce,     \* ticks from the last event to the refresh
  MaxGestures,  \* bound: tabs shown and closed
  MaxChanges,   \* bound: changes on disk
  MaxMoves      \* bound: repositories replaced at a path

ASSUME TimesAssumption == {Throttle, Debounce} \subseteq Nat /\ Throttle <= Debounce
ASSUME BoundsAssumption == {MaxGestures, MaxChanges, MaxMoves} \subseteq Nat

Off == Debounce + 1
Impacts == {"worktree", "ambiguous", "graph"}
Kinds == {"worktree", "graph"}
Scopes == {"none", "worktree", "all"}

VARIABLES
  open, shown,             \* the tabs, and the one whose summary is on screen
  events,                  \* per path, the impacts of the events not handled yet
  quiet, lastKind, seen,   \* EmitState; seen: the fingerprint is that of the refs
  builtSeen,               \* seen, for the EmitState of a watch being installed
  wire,                    \* repo-changed events on their way to the webview
  since, scope, probes,    \* the refresh timer, its scope, and the label timers
  armed,                   \* the watch asked for by this showing is installed
  missed,                  \* what changed since the last read, once armed
  refused,                 \* history: paths the last watch of which failed
  gestures, changes, moves

emitVars == <<events, quiet, lastKind, seen, builtSeen>>
hookVars == <<since, scope, probes>>
tabVars == <<open, shown, armed, refused>>
boundVars == <<gestures, changes, moves>>
vars == <<watchVars, tabVars, emitVars, wire, hookVars, missed, boundVars>>

Rank(s) == CASE s = "none" -> 0 [] s = "worktree" -> 1 [] s = "all" -> 2
Wider(s, t) == IF Rank(s) >= Rank(t) THEN s ELSE t
ScopeOf(kind) == IF kind = "graph" THEN "all" ELSE "worktree"

-----------------------------------------------------------------------------
(* Gestures and the registry's calls.                                        *)

WatchInit ==
  /\ Init
  /\ open = {} /\ shown = None /\ armed = FALSE /\ refused = {}
  /\ events = [p \in Paths |-> {}]
  /\ quiet = [p \in Paths |-> Throttle]
  /\ lastKind = [p \in Paths |-> "worktree"]
  /\ seen = [p \in Paths |-> TRUE] /\ builtSeen = [p \in Paths |-> TRUE]
  /\ wire = <<>>
  /\ since = Off /\ scope = "none" /\ probes = {}
  /\ missed = "none"
  /\ gestures = 0 /\ changes = 0 /\ moves = 0

Gesture == gestures < MaxGestures /\ gestures' = gestures + 1

\* A load publishes p and asks for its watch; its reads begin after that.
Shows(p) ==
  /\ Gesture
  /\ Ask(p, "watch")
  /\ open' = open \cup {p} /\ shown' = p /\ armed' = FALSE
  /\ missed' = "none"
  /\ UNCHANGED <<home, built, tabs, live, shared, emitVars, wire, hookVars, refused, changes, moves>>

Closes(p) ==
  /\ p \in open /\ Gesture
  /\ Ask(p, "unwatch")
  /\ open' = open \ {p}
  /\ IF shown = p
       THEN shown' = None /\ armed' = FALSE /\ missed' = "none"
       ELSE UNCHANGED <<shown, armed, missed>>
  /\ UNCHANGED <<home, built, tabs, live, shared, emitVars, wire, hookVars, refused, changes, moves>>

\* A watch that is installed comes with an EmitState of its own.
Called(p) ==
  /\ \/ /\ Builds(p)
        /\ builtSeen' = [builtSeen EXCEPT ![p] = TRUE]
        /\ UNCHANGED <<events, quiet, lastKind, seen, armed, refused>>
     \/ /\ Installs(p)
        /\ quiet' = [quiet EXCEPT ![p] = Throttle]
        /\ lastKind' = [lastKind EXCEPT ![p] = "worktree"]
        /\ seen' = [seen EXCEPT ![p] = builtSeen[p]]
        /\ armed' = (armed \/ (p = shown /\ Len(queue[p]) = 1))
        /\ refused' = refused \ {p}
        /\ UNCHANGED <<events, builtSeen>>
     \/ /\ Unwatches(p)
        /\ events' = [events EXCEPT ![p] = {}] /\ refused' = refused \ {p}
        /\ UNCHANGED <<quiet, lastKind, seen, builtSeen, armed>>
     \/ /\ BuildFails(p) \/ InstallFails(p)
        /\ refused' = refused \cup {p}
        /\ UNCHANGED <<emitVars, armed>>
  /\ UNCHANGED <<open, shown, wire, hookVars, missed, boundVars>>

Relocates(p) ==
  /\ moves < MaxMoves /\ moves' = moves + 1
  /\ Moves(p)
  /\ UNCHANGED <<tabVars, emitVars, wire, hookVars, missed, gestures, changes>>

-----------------------------------------------------------------------------
(* Changes on disk and the events they cause.                                *)

Change == changes < MaxChanges /\ changes' = changes + 1

\* What the screen does not show yet, for a change its watch can hear.
Notes(p, s) == missed' = IF p = shown /\ armed THEN Wider(missed, s) ELSE missed

\* A file of the worktree; FSEvents may name only the watched directory.
FileChanges(p) ==
  /\ Watched(p) /\ Change
  /\ \E i \in {"worktree", "ambiguous"} : events' = [events EXCEPT ![p] = @ \cup {i}]
  /\ Notes(p, "worktree")
  /\ UNCHANGED <<watchVars, tabVars, quiet, lastKind, seen, builtSeen, wire, hookVars,
                 gestures, moves>>

\* The paths that hear of the refs p reads.
Hearers(p) ==
  IF tabs[p] = Plain THEN {p}
  ELSE IF tabs[p] \in live THEN shared[tabs[p]] ELSE {}

\* HEAD or a ref of p's repository moves, the commit's objects with it.
RefsChange(p) ==
  /\ Watched(p) /\ tabs[p] = home[p] /\ Change
  /\ \E i \in {"graph", "ambiguous"} :
       events' = [q \in Paths |-> IF q \in Hearers(p) THEN events[q] \cup {i} ELSE events[q]]
  /\ LET same == {q \in Paths : q = p \/ (home[q] = home[p] /\ home[q] # Plain)}
     IN /\ seen' = [q \in Paths |-> IF q \in same THEN FALSE ELSE seen[q]]
        /\ builtSeen' = [q \in Paths |-> IF q \in same THEN FALSE ELSE builtSeen[q]]
        /\ IF shown \in same /\ tabs[shown] = home[shown]
             THEN Notes(shown, "all") ELSE UNCHANGED missed
  /\ UNCHANGED <<watchVars, tabVars, quiet, lastKind, wire, hookVars, gestures, moves>>

-----------------------------------------------------------------------------
(* handle_event.                                                             *)

Throttled(p) == quiet[p] < Throttle

\* Mutant: the throttle drops whatever comes while it runs.
SuppressedAll(p, i) == Throttled(p)

\* decide_emission before it looks at the refs.
Suppressed(p, i) == Throttled(p) /\ (lastKind[p] = "graph" \/ i = "worktree")

\* resolve_change_kind, given whether the refs could be read.
KindOf(p, i, readable) ==
  IF i = "graph" \/ (i = "ambiguous" /\ ~(readable /\ seen[p])) THEN "graph" ELSE "worktree"

SeenAfter(p, i, readable) ==
  CASE i = "worktree" -> seen[p]
    [] i = "graph" -> readable
    [] i = "ambiguous" -> readable \/ seen[p]

Handles(p, i) ==
  /\ i \in events[p]
  /\ events' = [events EXCEPT ![p] = @ \ {i}]
  /\ \/ /\ Suppressed(p, i)
        /\ UNCHANGED <<quiet, lastKind, seen, wire>>
     \/ \E readable \in BOOLEAN :
          /\ ~Suppressed(p, i)
          /\ LET kind == KindOf(p, i, readable)
             IN IF Throttled(p) /\ kind = "worktree"
                  THEN UNCHANGED <<quiet, lastKind, wire>>
                  ELSE /\ quiet' = [quiet EXCEPT ![p] = 0]
                       /\ lastKind' = [lastKind EXCEPT ![p] = kind]
                       /\ wire' = Append(wire, [path |-> p, kind |-> kind])
          /\ seen' = [seen EXCEPT ![p] = SeenAfter(p, i, readable)]
  /\ UNCHANGED <<watchVars, tabVars, builtSeen, hookVars, missed, boundVars>>

-----------------------------------------------------------------------------
(* useRepoWatcher.                                                           *)

\* The listener: the displayed path re-arms the refresh, a tab its label probe.
Delivers ==
  /\ wire # <<>> /\ wire' = Tail(wire)
  /\ LET e == Head(wire)
     IN IF e.path = shown
          THEN scope' = Wider(scope, ScopeOf(e.kind)) /\ since' = 0 /\ UNCHANGED probes
          ELSE /\ probes' = IF e.path \in open /\ e.kind = "graph"
                              THEN probes \cup {e.path} ELSE probes
               /\ UNCHANGED <<since, scope>>
  /\ UNCHANGED <<watchVars, tabVars, emitVars, missed, boundVars>>

Read(s, what) == IF Rank(what) >= Rank(s) THEN "none" ELSE s

\* The refresh begins; what it reads is on screen with everything before it.
Fires ==
  /\ since = Debounce
  /\ since' = Off /\ scope' = "none"
  /\ missed' = Read(missed, scope)
  /\ UNCHANGED <<watchVars, tabVars, emitVars, wire, probes, boundVars>>

\* The window regains focus: a refresh of everything.
Focus ==
  /\ missed' = "none"
  /\ UNCHANGED <<watchVars, tabVars, emitVars, wire, hookVars, boundVars>>

LabelProbed(p) ==
  /\ p \in probes /\ probes' = probes \ {p}
  /\ UNCHANGED <<watchVars, tabVars, emitVars, wire, since, scope, missed, boundVars>>

Tick ==
  /\ quiet' = [p \in Paths |-> IF quiet[p] < Throttle THEN quiet[p] + 1 ELSE Throttle]
  /\ since' = IF since < Debounce THEN since + 1 ELSE since
  /\ UNCHANGED <<watchVars, tabVars, events, lastKind, seen, builtSeen, wire, scope, probes,
                 missed, boundVars>>

WatchNext ==
  \/ \E p \in Paths : \/ Shows(p) \/ Closes(p) \/ Called(p) \/ Relocates(p)
                      \/ FileChanges(p) \/ RefsChange(p) \/ LabelProbed(p)
                      \/ \E i \in Impacts : Handles(p, i)
  \/ Delivers \/ Fires \/ Focus \/ Tick

WatchSpec == WatchInit /\ [][WatchNext]_vars

-----------------------------------------------------------------------------
(* Properties.                                                               *)

\* Once the calls of a path have settled, however often its tab was closed and
\* reopened while they were in flight, a closed tab is not watched, and an open one
\* is, unless its last watch was refused by notify (the chain of repoWatchQueue.ts).
WatchFollowsTab ==
  \A p \in Paths : queue[p] = <<>> =>
    /\ p \notin open => tabs[p] = None
    /\ p \in open => Watched(p) \/ p \in refused

\* What a scope the screen needs can still come from.
Coming(s) ==
  \/ since # Off /\ Rank(scope) >= Rank(s)
  \/ \E k \in DOMAIN wire : wire[k].path = shown /\ Rank(ScopeOf(wire[k].kind)) >= Rank(s)
  \/ \E i \in events[shown] :
       s = "worktree" \/ i = "graph" \/ (i = "ambiguous" /\ ~seen[shown])

\* No change is swallowed: while the screen lacks something the watch could
\* hear, a refresh wide enough is armed or an event that will arm one is on its
\* way. What handle_event suppresses is left to a debounce that is still running
\* (THROTTLE is shorter than the hook's 400 ms), and the ref fingerprint never
\* hides a moved ref.
NothingMissed == missed # "none" => Coming(missed)
=============================================================================
