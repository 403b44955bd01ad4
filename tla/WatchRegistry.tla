--------------------------- MODULE WatchRegistry ---------------------------
(***************************************************************************)
(* Which open repositories the file system is watched for: the registry of   *)
(* watchers (src/src-tauri/src/watcher.rs, watcher/install.rs,               *)
(* watcher/commondir.rs) behind the queue of watch and unwatch calls.        *)
(*                                                                         *)
(* Every open path has a watcher of its own. The linked worktrees of one     *)
(* repository share a further watcher on its common directory, made for the  *)
(* first of them and dropped with the last. The registry is one mutex; the   *)
(* work before it is taken (resolving the roots, making the private watcher) *)
(* is a step of its own.                                                     *)
(***************************************************************************)
EXTENDS WatchQueue, Naturals

CONSTANTS
  Commons,  \* common directories outside a worktree
  Plain,    \* a checkout with its own .git: no common directory to share
  None      \* no watch, nothing built

ASSUME CommonsAssumption == Plain \notin Commons /\ None \notin Commons \cup {Plain}

Roots == Commons \cup {Plain}

VARIABLES
  home,    \* the common directory of the repository found at a path
  built,   \* per path, the roots of a watch call that is not installed yet
  tabs,    \* per path, the common directory its watch subscribes to
  live,    \* common directories with a shared watcher
  shared   \* per common directory, the subscribers of its watcher

registryVars == <<queue, built, tabs, live, shared>>
watchVars == <<home, registryVars>>

-----------------------------------------------------------------------------
(* The registry.                                                             *)

Watched(p) == tabs[p] # None

\* detach: p leaves the shared watcher it subscribes to, and the watcher goes
\* with its last subscriber.
DetachedShared(p) ==
  [c \in Commons |-> IF c = tabs[p] THEN shared[c] \ {p} ELSE shared[c]]

\* Mutant: the shared watcher goes with the first tab that leaves it.
DetachedLiveFirst(p) == live \ {tabs[p]}

DetachedLive(p) == {c \in live : c # tabs[p] \/ DetachedShared(p)[c] # {}}

\* Another tab subscribes too, so the watcher outlives p's detaching.
Survives(p, c) == c \in live /\ shared[c] \ {p} # {}

\* Joining the surviving watcher, or putting the staged one in its place.
Joins(p, c) ==
  IF Survives(p, c)
    THEN /\ live' = DetachedLive(p)
         /\ shared' = [DetachedShared(p) EXCEPT
                         ![c] = IF c \in DetachedLive(p) THEN @ \cup {p} ELSE @]
    ELSE /\ live' = DetachedLive(p) \cup {c}
         /\ shared' = [DetachedShared(p) EXCEPT ![c] = {p}]

-----------------------------------------------------------------------------
(* Steps.                                                                    *)

Init ==
  /\ home \in [Paths -> Roots]
  /\ queue = [p \in Paths |-> <<>>]
  /\ built = [p \in Paths |-> None]
  /\ tabs = [p \in Paths |-> None]
  /\ live = {} /\ shared = [c \in Commons |-> {}]

\* watch before its lock: roots resolved, private watcher made.
Builds(p) ==
  /\ InFlight(p, "watch") /\ built[p] = None
  /\ built' = [built EXCEPT ![p] = home[p]]
  /\ UNCHANGED <<home, queue, tabs, live, shared>>

\* notify refuses the private watcher: nothing was touched.
BuildFails(p) ==
  /\ InFlight(p, "watch") /\ built[p] = None
  /\ Settles(p)
  /\ UNCHANGED <<home, built, tabs, live, shared>>

\* install_watch: stage, detach, join, insert, under one lock.
Installs(p) ==
  /\ InFlight(p, "watch") /\ built[p] # None
  /\ IF built[p] = Plain
       THEN live' = DetachedLive(p) /\ shared' = DetachedShared(p)
       ELSE Joins(p, built[p])
  /\ tabs' = [tabs EXCEPT ![p] = built[p]]
  /\ built' = [built EXCEPT ![p] = None]
  /\ Settles(p)
  /\ UNCHANGED home

\* notify refuses the shared watcher: install_watch returns before detaching.
InstallFails(p) ==
  /\ InFlight(p, "watch") /\ built[p] \in Commons /\ ~Survives(p, built[p])
  /\ built' = [built EXCEPT ![p] = None]
  /\ Settles(p)
  /\ UNCHANGED <<home, tabs, live, shared>>

Unwatches(p) ==
  /\ InFlight(p, "unwatch")
  /\ live' = DetachedLive(p) /\ shared' = DetachedShared(p)
  /\ tabs' = [tabs EXCEPT ![p] = None]
  /\ Settles(p)
  /\ UNCHANGED <<home, built>>

\* A call asked for by a gesture.
Asks(p) == \E op \in Ops : Ask(p, op) /\ UNCHANGED <<home, built, tabs, live, shared>>

\* Another repository is put at the path: a worktree moved, .git re-created.
Moves(p) == /\ \E c \in Roots : home' = [home EXCEPT ![p] = c]
            /\ UNCHANGED registryVars

Call(p) == Builds(p) \/ BuildFails(p) \/ Installs(p) \/ InstallFails(p) \/ Unwatches(p)

Next == \E p \in Paths : Call(p) \/ Asks(p) \/ Moves(p)

Spec == Init /\ [][Next]_watchVars

-----------------------------------------------------------------------------
(* Properties.                                                               *)

TypeOK ==
  /\ home \in [Paths -> Roots]
  /\ queue \in [Paths -> Seq(Ops)]
  /\ built \in [Paths -> Roots \cup {None}]
  /\ tabs \in [Paths -> Roots \cup {None}]
  /\ live \subseteq Commons
  /\ shared \in [Commons -> SUBSET Paths]

\* A shared watcher exists exactly while a registered tab subscribes to it, and
\* its events reach exactly those tabs: no watcher leaks when the last tab of a
\* repository closes, none is torn down under a sibling, and a path whose
\* repository changed does not keep hearing the old one (install_watch, detach).
SharedIsExact ==
  \A c \in Commons : /\ shared[c] = {p \in Paths : tabs[p] = c}
                     /\ c \in live <=> shared[c] # {}
=============================================================================
