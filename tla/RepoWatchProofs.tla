--------------------------- MODULE RepoWatchProofs ---------------------------
(***************************************************************************)
(* For any set of paths and common directories, any throttle and any         *)
(* debounce no shorter: the watcher registry holds exactly the shared         *)
(* watchers its tabs need, a path whose calls have settled is watched just if *)
(* its tab is open, unless notify refused, and no change the watch could hear *)
(* is swallowed.                                                             *)
(***************************************************************************)
EXTENDS RepoWatch, SequenceTheorems, TLAPS

-----------------------------------------------------------------------------
(* The registry alone.                                                       *)

\* No path is watched at first.
LEMMA InitHolds == Init => TypeOK /\ SharedIsExact
<1> SUFFICES ASSUME Init PROVE TypeOK /\ SharedIsExact
  OBVIOUS
<1>1. TypeOK
  BY DEF Init, TypeOK, Ops
<1>2. SharedIsExact
  BY CommonsAssumption DEF Init, SharedIsExact, Roots
<1> QED BY <1>1, <1>2

\* Settling a call and asking for one keep the queues typed.
LEMMA SettlesTyped ==
  ASSUME TypeOK, NEW p \in Paths, queue[p] # <<>>, Settles(p)
  PROVE  queue' \in [Paths -> Seq(Ops)]
BY DEF TypeOK, Settles

\* What detaching leaves behind: exactly the other subscribers.
LEMMA DetachedIsExact ==
  ASSUME TypeOK, SharedIsExact, NEW p \in Paths, NEW c \in Commons
  PROVE  /\ DetachedShared(p)[c] = {q \in Paths : tabs[q] = c /\ q # p}
         /\ c \in DetachedLive(p) <=> DetachedShared(p)[c] # {}
         /\ DetachedLive(p) \subseteq Commons
         /\ DetachedShared(p) \in [Commons -> SUBSET Paths]
<1>1. DetachedShared(p)[c] = {q \in Paths : tabs[q] = c /\ q # p}
  BY DEF SharedIsExact, DetachedShared, TypeOK
<1>2. c \in DetachedLive(p) <=> DetachedShared(p)[c] # {}
  <2>1. CASE c = tabs[p]
    <3>1. p \in shared[c]
      BY <2>1 DEF SharedIsExact
    <3> QED BY <2>1, <3>1 DEF DetachedLive, SharedIsExact
  <2>2. CASE c # tabs[p]
    <3>1. DetachedShared(p)[c] = shared[c]
      BY <2>2 DEF DetachedShared
    <3> QED BY <2>2, <3>1 DEF DetachedLive, SharedIsExact
  <2> QED BY <2>1, <2>2
<1>3. DetachedLive(p) \subseteq Commons
  BY DEF DetachedLive, TypeOK
<1>4. DetachedShared(p) \in [Commons -> SUBSET Paths]
  BY DEF DetachedShared, TypeOK
<1> QED BY <1>1, <1>2, <1>3, <1>4

\* A detach that puts p on another root keeps the registry exact.
LEMMA DetachKeeps ==
  ASSUME TypeOK, SharedIsExact, NEW p \in Paths, NEW r \in {Plain, None},
         live' = DetachedLive(p), shared' = DetachedShared(p),
         tabs' = [tabs EXCEPT ![p] = r]
  PROVE  SharedIsExact'
<1> SUFFICES ASSUME NEW c \in Commons
             PROVE  /\ shared'[c] = {q \in Paths : tabs'[q] = c}
                    /\ c \in live' <=> shared'[c] # {}
  BY DEF SharedIsExact
<1>1. \A q \in Paths : tabs'[q] = c <=> tabs[q] = c /\ q # p
  BY CommonsAssumption DEF TypeOK
<1> QED BY <1>1, DetachedIsExact

\* Joining the common directory of the roots just built keeps it exact.
LEMMA JoinKeeps ==
  ASSUME TypeOK, SharedIsExact, NEW p \in Paths, NEW d \in Commons, Joins(p, d),
         tabs' = [tabs EXCEPT ![p] = d]
  PROVE  /\ SharedIsExact'
         /\ live' \subseteq Commons
         /\ shared' \in [Commons -> SUBSET Paths]
<1>1. \A c \in Commons : \A q \in Paths :
         tabs'[q] = c <=> (IF q = p THEN c = d ELSE tabs[q] = c)
  BY DEF TypeOK
<1>2. CASE Survives(p, d)
  <2>1. \E q \in Paths : q # p /\ tabs[q] = d
    BY <1>2 DEF Survives, SharedIsExact
  <2>2. d \in DetachedLive(p)
    BY <2>1, DetachedIsExact
  <2>3. /\ live' = DetachedLive(p)
        /\ shared' = [DetachedShared(p) EXCEPT ![d] = @ \cup {p}]
    BY <1>2, <2>2 DEF Joins
  <2>4. ASSUME NEW c \in Commons
        PROVE  /\ shared'[c] = {q \in Paths : tabs'[q] = c}
               /\ c \in live' <=> shared'[c] # {}
    <3>1. CASE c = d
      BY <3>1, <1>1, <2>1, <2>2, <2>3, DetachedIsExact
    <3>2. CASE c # d
      BY <3>2, <1>1, <2>3, DetachedIsExact
    <3> QED BY <3>1, <3>2
  <2> QED BY <2>3, <2>4, DetachedIsExact DEF SharedIsExact
<1>3. CASE ~Survives(p, d)
  <2>1. \A q \in Paths : q # p => tabs[q] # d
    BY <1>3 DEF Survives, SharedIsExact
  <2>2. /\ live' = DetachedLive(p) \cup {d}
        /\ shared' = [DetachedShared(p) EXCEPT ![d] = {p}]
    BY <1>3 DEF Joins
  <2>3. ASSUME NEW c \in Commons
        PROVE  /\ shared'[c] = {q \in Paths : tabs'[q] = c}
               /\ c \in live' <=> shared'[c] # {}
    <3>1. CASE c = d
      BY <3>1, <1>1, <2>1, <2>2, DetachedIsExact
    <3>2. CASE c # d
      BY <3>2, <1>1, <2>2, DetachedIsExact
    <3> QED BY <3>1, <3>2
  <2> QED BY <2>2, <2>3, DetachedIsExact DEF SharedIsExact
<1> QED BY <1>2, <1>3

\* A call of the registry keeps it typed and exact.
LEMMA CallKeeps ==
  ASSUME TypeOK, SharedIsExact, NEW p \in Paths, Call(p)
  PROVE  TypeOK' /\ SharedIsExact'
<1>1. CASE Builds(p)
  BY <1>1 DEF Builds, TypeOK, SharedIsExact
<1>2. CASE BuildFails(p)
  BY <1>2, SettlesTyped DEF BuildFails, InFlight, TypeOK, SharedIsExact
<1>3. CASE Installs(p)
  <2>1. built[p] \in Roots
    BY <1>3 DEF Installs, TypeOK
  <2>2. queue' \in [Paths -> Seq(Ops)]
    BY <1>3, SettlesTyped DEF Installs, InFlight
  <2>3. /\ home' \in [Paths -> Roots]
        /\ built' \in [Paths -> Roots \cup {None}]
        /\ tabs' \in [Paths -> Roots \cup {None}]
    BY <1>3, <2>1 DEF Installs, TypeOK
  <2>4. CASE built[p] = Plain
    <3>1. SharedIsExact'
      BY <1>3, <2>4, DetachKeeps DEF Installs
    <3>2. live' \subseteq Commons /\ shared' \in [Commons -> SUBSET Paths]
      BY <1>3, <2>4 DEF Installs, DetachedLive, DetachedShared, TypeOK
    <3> QED BY <2>2, <2>3, <3>1, <3>2 DEF TypeOK
  <2>5. CASE built[p] \in Commons
    <3>1. Joins(p, built[p]) /\ tabs' = [tabs EXCEPT ![p] = built[p]]
      BY <1>3, <2>5, CommonsAssumption DEF Installs
    <3> QED BY <2>2, <2>3, <2>5, <3>1, JoinKeeps DEF TypeOK
  <2> QED BY <2>1, <2>4, <2>5 DEF Roots
<1>4. CASE InstallFails(p)
  BY <1>4, SettlesTyped DEF InstallFails, InFlight, TypeOK, SharedIsExact
<1>5. CASE Unwatches(p)
  <2>1. SharedIsExact'
    BY <1>5, DetachKeeps DEF Unwatches
  <2>2. queue' \in [Paths -> Seq(Ops)]
    BY <1>5, SettlesTyped DEF Unwatches, InFlight
  <2>3. live' \subseteq Commons /\ shared' \in [Commons -> SUBSET Paths]
    BY <1>5 DEF Unwatches, DetachedLive, DetachedShared, TypeOK
  <2> QED BY <1>5, <2>1, <2>2, <2>3 DEF Unwatches, TypeOK
<1> QED BY <1>1, <1>2, <1>3, <1>4, <1>5 DEF Call

\* Every step of the registry keeps it typed and exact.
LEMMA NextKeeps ==
  ASSUME TypeOK, SharedIsExact, [Next]_watchVars
  PROVE  TypeOK' /\ SharedIsExact'
<1>1. ASSUME NEW p \in Paths, Asks(p) PROVE TypeOK' /\ SharedIsExact'
  BY <1>1 DEF Asks, Ask, TypeOK, SharedIsExact
<1>2. ASSUME NEW p \in Paths, Moves(p) PROVE TypeOK' /\ SharedIsExact'
  BY <1>2 DEF Moves, registryVars, TypeOK, SharedIsExact
<1>3. CASE UNCHANGED watchVars
  BY <1>3 DEF watchVars, registryVars, TypeOK, SharedIsExact
<1> QED BY <1>1, <1>2, <1>3, CallKeeps DEF Next

\* Whatever watches and unwatches are asked for, and whichever of them notify
\* refuses, a shared watcher exists exactly while a registered tab needs it.
THEOREM RegistryIsExact == Spec => [](TypeOK /\ SharedIsExact)
<1>1. Init => TypeOK /\ SharedIsExact
  BY InitHolds
<1>2. TypeOK /\ SharedIsExact /\ [Next]_watchVars => (TypeOK /\ SharedIsExact)'
  BY NextKeeps
<1> QED BY <1>1, <1>2, PTL DEF Spec

-----------------------------------------------------------------------------
(* The registry inside the application.                                      *)

\* A step of the composition is a step of the registry, or leaves it alone.
LEMMA WatchStepIsRegistryStep ==
  ASSUME [WatchNext]_vars
  PROVE  [Next]_watchVars
<1>1. ASSUME NEW p \in Paths, Shows(p) PROVE Next
  BY <1>1 DEF Shows, Asks, Ops, Next
<1>2. ASSUME NEW p \in Paths, Closes(p) PROVE Next
  BY <1>2 DEF Closes, Asks, Ops, Next
<1>3. ASSUME NEW p \in Paths, Called(p) PROVE Next
  BY <1>3 DEF Called, Call, Next
<1>4. ASSUME NEW p \in Paths, Relocates(p) PROVE Next
  BY <1>4 DEF Relocates, Next
<1>5. ASSUME NEW p \in Paths,
             FileChanges(p) \/ RefsChange(p) \/ LabelProbed(p)
      PROVE  UNCHANGED watchVars
  BY <1>5 DEF FileChanges, RefsChange, LabelProbed
<1>6. ASSUME NEW p \in Paths, NEW i \in Impacts, Handles(p, i)
      PROVE  UNCHANGED watchVars
  BY <1>6 DEF Handles
<1>7. ASSUME Delivers \/ Fires \/ Focus \/ Tick
      PROVE  UNCHANGED watchVars
  BY <1>7 DEF Delivers, Fires, Focus, Tick
<1>8. CASE UNCHANGED vars
  BY <1>8 DEF vars
<1> QED BY <1>1, <1>2, <1>3, <1>4, <1>5, <1>6, <1>7, <1>8 DEF WatchNext

\* The tabs, events and timers around it only use the registry: every step of
\* theirs is a registry step or leaves it alone.
THEOREM WatchUsesRegistry == WatchSpec => Spec
<1>1. WatchInit => Init
  BY DEF WatchInit
<1>2. [WatchNext]_vars => [Next]_watchVars
  BY WatchStepIsRegistryStep
<1> QED BY <1>1, <1>2, PTL DEF WatchSpec, Spec

\* SharedIsExact of the runs, for all paths, common directories and bounds.
THEOREM SharedStaysExact == WatchSpec => []SharedIsExact
BY RegistryIsExact, WatchUsesRegistry, PTL

-----------------------------------------------------------------------------
(* What the calls, the throttle and the timer have to do with one another.   *)

\* The last call asked for a path is the one its tab calls for, and a path
\* without calls is watched, or was refused, just if it has a tab.
CallsFit ==
  \A p \in Paths :
    IF queue[p] = <<>>
      THEN /\ p \notin open => tabs[p] = None
           /\ p \in open => Watched(p) \/ p \in refused
    ELSE queue[p][Len(queue[p])] = IF p \in open THEN "watch" ELSE "unwatch"

\* A repo-changed event.
Event == [path : Paths, kind : Kinds]

\* The events, the throttle and the timer have their types.
EventsTyped ==
  /\ events \in [Paths -> SUBSET Impacts]
  /\ seen \in [Paths -> BOOLEAN] /\ builtSeen \in [Paths -> BOOLEAN]
  /\ quiet \in [Paths -> 0..Throttle] /\ lastKind \in [Paths -> Kinds]
  /\ wire \in Seq(Event)
  /\ since \in 0..Off /\ scope \in Scopes /\ missed \in Scopes

\* What is shown with its watch installed is a path without calls; only such a
\* one misses anything.
ArmedFit ==
  /\ armed => shown \in Paths /\ queue[shown] = <<>>
  /\ missed # "none" => armed

\* While the throttle of what is shown runs, the event that started it is on its
\* way, or the timer it armed is younger than the throttle.
ThrottleFit ==
  armed /\ Throttled(shown) =>
    \/ \E k \in DOMAIN wire :
         wire[k].path = shown /\ Rank(ScopeOf(wire[k].kind)) >= Rank(ScopeOf(lastKind[shown]))
    \/ since <= quiet[shown] /\ Rank(scope) >= Rank(ScopeOf(lastKind[shown]))

WatchInv ==
  TypeOK /\ SharedIsExact /\ CallsFit /\ EventsTyped /\ ArmedFit /\ ThrottleFit /\ NothingMissed

\* The lengths of time, and what is wider than what.
LEMMA TimesAre ==
  /\ Throttle \in Nat /\ Debounce \in Nat /\ Throttle <= Debounce
  /\ Off \in Nat /\ Off > Debounce
  BY TimesAssumption DEF Off

\* Scopes are ranked.
LEMMA RanksAre ==
  /\ Rank("none") = 0 /\ Rank("worktree") = 1 /\ Rank("all") = 2
  /\ ScopeOf("graph") = "all" /\ ScopeOf("worktree") = "worktree"
  /\ \A r \in Scopes : r = "none" \/ r = "worktree" \/ r = "all"
  /\ \A r, t \in Scopes :
       /\ Wider(r, t) \in Scopes
       /\ Rank(Wider(r, t)) >= Rank(r) /\ Rank(Wider(r, t)) >= Rank(t)
       /\ Wider(r, t) = r \/ Wider(r, t) = t
  /\ \A k \in Kinds : ScopeOf(k) \in Scopes
<1>1. /\ Rank("none") = 0 /\ Rank("worktree") = 1 /\ Rank("all") = 2
      /\ ScopeOf("graph") = "all" /\ ScopeOf("worktree") = "worktree"
  BY DEF Rank, ScopeOf
<1>2. \A r \in Scopes : r = "none" \/ r = "worktree" \/ r = "all"
  BY DEF Scopes
<1>3. \A r \in Scopes : Rank(r) \in Nat
  BY <1>1, <1>2
<1>4. ASSUME NEW r \in Scopes, NEW t \in Scopes
      PROVE  /\ Wider(r, t) \in Scopes
             /\ Rank(Wider(r, t)) >= Rank(r) /\ Rank(Wider(r, t)) >= Rank(t)
             /\ Wider(r, t) = r \/ Wider(r, t) = t
  BY <1>3 DEF Wider
<1>5. \A k \in Kinds : ScopeOf(k) \in Scopes
  BY DEF ScopeOf, Kinds, Scopes
<1> QED BY <1>1, <1>2, <1>4, <1>5

\* A call asked for is the last one.
LEMMA AskIs ==
  ASSUME TypeOK, NEW p \in Paths, NEW op \in Ops, Ask(p, op)
  PROVE  /\ queue'[p] # <<>> /\ queue'[p][Len(queue'[p])] = op
         /\ \A q \in Paths : q # p => queue'[q] = queue[q]
<1>1. queue[p] \in Seq(Ops) /\ queue'[p] = Append(queue[p], op)
  BY DEF TypeOK, Ask
<1>2. \A q \in Paths : q # p => queue'[q] = queue[q]
  BY DEF TypeOK, Ask
<1> QED BY <1>1, <1>2

\* A call that settles was the last one or leaves the last one.
LEMMA SettlesIs ==
  ASSUME TypeOK, NEW p \in Paths, NEW op, InFlight(p, op), Settles(p)
  PROVE  /\ \A q \in Paths : q # p => queue'[q] = queue[q]
         /\ queue'[p] = <<>> => queue[p][Len(queue[p])] = op
         /\ queue'[p] # <<>> => queue'[p][Len(queue'[p])] = queue[p][Len(queue[p])]
         /\ queue[p] # <<>>
<1>1. queue[p] \in Seq(Ops) /\ queue[p] # <<>> /\ Head(queue[p]) = op /\ queue'[p] = Tail(queue[p])
  BY DEF TypeOK, Settles, InFlight
<1>2. \A q \in Paths : q # p => queue'[q] = queue[q]
  BY DEF TypeOK, Settles
<1>3. PICK s \in Seq(Ops) : s = queue[p]
  BY <1>1
<1>4. Tail(s) = <<>> => Len(s) = 1
  <2>1. PICK t : t = Tail(s)
    OBVIOUS
  <2>2. Len(t) = Len(s) - 1 /\ Len(s) \in Nat
    BY <1>1, <1>3, <2>1
  <2>3. t = <<>> => Len(t) = 0
    OBVIOUS
  <2>4. t = <<>> => Len(s) = 1
    BY <2>2, <2>3
  <2> QED BY <2>1, <2>4, Zenon
<1>5. Tail(s) # <<>> => Len(s) > 1 /\ Len(Tail(s)) = Len(s) - 1 /\ Tail(s)[Len(s) - 1] = s[Len(s)]
  BY <1>1, <1>3
<1>6. s[1] = op
  BY <1>1, <1>3
<1> QED BY <1>1, <1>2, <1>3, <1>4, <1>5, <1>6

\* What a call of the registry does to the queues and to the tabs' watches: the
\* watch that settles is installed or refused.
LEMMA CallIs ==
  ASSUME TypeOK, NEW p \in Paths, Called(p)
  PROVE  /\ UNCHANGED <<open, shown>>
         /\ \A q \in Paths : q # p => /\ queue'[q] = queue[q] /\ tabs'[q] = tabs[q]
                                      /\ q \in refused' <=> q \in refused
         /\ \/ UNCHANGED <<queue, tabs>> /\ queue[p] # <<>>
            \/ InFlight(p, "watch") /\ Settles(p) /\ (tabs'[p] # None \/ p \in refused')
            \/ InFlight(p, "unwatch") /\ Settles(p) /\ tabs'[p] = None
<1>1. UNCHANGED <<open, shown>>
  BY DEF Called
<1>2. \A q \in Paths : q # p => (q \in refused' <=> q \in refused)
  BY DEF Called
<1>3. CASE Builds(p)
  BY <1>1, <1>2, <1>3 DEF Builds, InFlight
<1>4. CASE (BuildFails(p) \/ InstallFails(p)) /\ refused' = refused \cup {p}
  BY <1>1, <1>2, <1>4, SettlesIs DEF BuildFails, InstallFails
<1>5. CASE Installs(p)
  <2>1. \A q \in Paths : q # p => tabs'[q] = tabs[q]
    BY <1>5 DEF Installs, TypeOK
  <2>2. tabs'[p] # None
    BY <1>5 DEF Installs, TypeOK
  <2> QED BY <1>1, <1>2, <1>5, <2>1, <2>2, SettlesIs DEF Installs
<1>6. CASE Unwatches(p)
  <2>1. tabs'[p] = None /\ \A q \in Paths : q # p => tabs'[q] = tabs[q]
    BY <1>6 DEF Unwatches, TypeOK
  <2> QED BY <1>1, <1>2, <1>6, <2>1, SettlesIs DEF Unwatches
<1> QED BY <1>3, <1>4, <1>5, <1>6 DEF Called

\* The last call of a path stays the one its tab calls for.
LEMMA CallsFitKeeps ==
  ASSUME TypeOK, CallsFit, [WatchNext]_vars
  PROVE  CallsFit'
<1> USE DEF CallsFit, Watched
<1>1. ASSUME NEW p \in Paths, Shows(p) PROVE CallsFit'
  <2>1. /\ Ask(p, "watch") /\ "watch" \in Ops /\ open' = open \cup {p} /\ tabs' = tabs
        /\ refused' = refused
    BY <1>1 DEF Shows, Ops
  <2> QED BY <2>1, AskIs
<1>2. ASSUME NEW p \in Paths, Closes(p) PROVE CallsFit'
  <2>1. /\ Ask(p, "unwatch") /\ "unwatch" \in Ops /\ open' = open \ {p} /\ tabs' = tabs
        /\ refused' = refused
    BY <1>2 DEF Closes, Ops
  <2> QED BY <2>1, AskIs
<1>3. ASSUME NEW p \in Paths, Called(p) PROVE CallsFit'
  <2> SUFFICES ASSUME NEW q \in Paths
               PROVE  IF queue'[q] = <<>>
                        THEN /\ q \notin open' => tabs'[q] = None
                             /\ q \in open' => tabs'[q] # None \/ q \in refused'
                        ELSE queue'[q][Len(queue'[q])] = IF q \in open' THEN "watch" ELSE "unwatch"
    OBVIOUS
  <2>1. CASE q # p
    BY <1>3, <2>1, CallIs
  <2>2. CASE q = p /\ UNCHANGED <<queue, tabs>> /\ queue[p] # <<>>
    BY <1>3, <2>2, CallIs
  <2>3. CASE /\ q = p /\ InFlight(p, "watch") /\ Settles(p)
             /\ tabs'[p] # None \/ p \in refused'
    <3>1. open' = open
      BY <1>3, CallIs
    <3>2. queue[q] # <<>> /\ (queue'[q] = <<>> => queue[q][Len(queue[q])] = "watch")
      BY <2>3, SettlesIs
    <3>3. queue'[q] # <<>> => queue'[q][Len(queue'[q])] = queue[q][Len(queue[q])]
      BY <2>3, SettlesIs
    <3> QED BY <2>3, <3>1, <3>2, <3>3
  <2>4. CASE q = p /\ InFlight(p, "unwatch") /\ Settles(p) /\ tabs'[p] = None
    <3>1. open' = open
      BY <1>3, CallIs
    <3>2. queue[q] # <<>> /\ (queue'[q] = <<>> => queue[q][Len(queue[q])] = "unwatch")
      BY <2>4, SettlesIs
    <3>3. queue'[q] # <<>> => queue'[q][Len(queue'[q])] = queue[q][Len(queue[q])]
      BY <2>4, SettlesIs
    <3> QED BY <2>4, <3>1, <3>2, <3>3
  <2> QED BY <1>3, <2>1, <2>2, <2>3, <2>4, CallIs
<1>4. ASSUME UNCHANGED <<queue, tabs, open, refused>> PROVE CallsFit'
  BY <1>4
<1>5. ASSUME NEW p \in Paths,
             \/ Relocates(p) \/ FileChanges(p) \/ RefsChange(p) \/ LabelProbed(p)
             \/ \E i \in Impacts : Handles(p, i)
      PROVE  UNCHANGED <<queue, tabs, open, refused>>
  BY <1>5 DEF Relocates, Moves, FileChanges, RefsChange, LabelProbed, Handles, watchVars,
              registryVars, tabVars
<1>6. ASSUME Delivers \/ Fires \/ Focus \/ Tick \/ UNCHANGED vars
      PROVE  UNCHANGED <<queue, tabs, open, refused>>
  BY <1>6 DEF Delivers, Fires, Focus, Tick, vars, watchVars, registryVars, tabVars
<1> QED BY <1>1, <1>2, <1>3, <1>4, <1>5, <1>6 DEF WatchNext

\* An event that is sent joins those on their way.
LEMMA WireGrows ==
  ASSUME EventsTyped, NEW e \in Event, wire' = Append(wire, e)
  PROVE  /\ wire' \in Seq(Event)
         /\ \A k \in DOMAIN wire : k \in DOMAIN wire' /\ wire'[k] = wire[k]
         /\ \E k \in DOMAIN wire' : wire'[k] = e
<1>1. wire \in Seq(Event)
  BY DEF EventsTyped
<1>2. /\ wire' \in Seq(Event) /\ Len(wire') = Len(wire) + 1 /\ wire'[Len(wire) + 1] = e
      /\ \A k \in 1..Len(wire) : wire'[k] = wire[k]
  BY <1>1, AppendProperties
<1>3. DOMAIN wire = 1..Len(wire) /\ DOMAIN wire' = 1..Len(wire') /\ Len(wire) \in Nat
  BY <1>1, <1>2, LenProperties
<1> QED BY <1>2, <1>3

\* One that is delivered leaves the others.
LEMMA WireShrinks ==
  ASSUME EventsTyped, wire # <<>>, wire' = Tail(wire)
  PROVE  /\ wire' \in Seq(Event) /\ Head(wire) \in Event
         /\ \A k \in DOMAIN wire :
              wire[k] = Head(wire) \/ \E j \in DOMAIN wire' : wire'[j] = wire[k]
<1>1. wire \in Seq(Event)
  BY DEF EventsTyped
<1>2. /\ wire' \in Seq(Event) /\ Head(wire) \in Event /\ Len(wire') = Len(wire) - 1
      /\ Head(wire) = wire[1] /\ \A k \in 1..Len(wire') : wire'[k] = wire[k + 1]
  BY <1>1, HeadTailProperties
<1>3. DOMAIN wire = 1..Len(wire) /\ DOMAIN wire' = 1..Len(wire') /\ Len(wire) \in Nat
  BY <1>1, <1>2, LenProperties
<1>4. ASSUME NEW k \in DOMAIN wire, k # 1
      PROVE  k - 1 \in DOMAIN wire' /\ wire'[k - 1] = wire[k]
  BY <1>2, <1>3, <1>4
<1> QED BY <1>2, <1>4

\* What is made of an event of the file system: nothing, for one that the running
\* throttle covers; or a repo-changed event, which tells of the graph if the event
\* may; the fingerprint is renewed only then.
LEMMA HandlesIs ==
  ASSUME EventsTyped, NEW p \in Paths, NEW i \in Impacts, Handles(p, i)
  PROVE  /\ UNCHANGED <<watchVars, tabVars, hookVars, missed>>
         /\ i \in events[p] /\ events' = [events EXCEPT ![p] = @ \ {i}]
         /\ seen' \in [Paths -> BOOLEAN] /\ \A q \in Paths : q # p => seen'[q] = seen[q]
         /\ \/ /\ Throttled(p) /\ UNCHANGED <<quiet, lastKind, wire>> /\ seen'[p] = seen[p]
               /\ \/ lastKind[p] = "graph"
                  \/ i = "worktree"
                  \/ i = "ambiguous" /\ seen[p]
            \/ \E kind \in Kinds :
                 /\ quiet' = [quiet EXCEPT ![p] = 0] /\ lastKind' = [lastKind EXCEPT ![p] = kind]
                 /\ wire' = Append(wire, [path |-> p, kind |-> kind])
                 /\ \/ kind = "graph"
                    \/ /\ seen'[p] = seen[p]
                       /\ i = "worktree" \/ (i = "ambiguous" /\ seen[p])
<1>1. /\ UNCHANGED <<watchVars, tabVars, hookVars, missed>>
      /\ i \in events[p] /\ events' = [events EXCEPT ![p] = @ \ {i}]
  BY DEF Handles
<1>2. seen \in [Paths -> BOOLEAN] /\ seen[p] \in BOOLEAN
  BY DEF EventsTyped
<1>3. i = "worktree" \/ i = "ambiguous" \/ i = "graph"
  BY DEF Impacts
<1>4. CASE Suppressed(p, i) /\ UNCHANGED <<quiet, lastKind, seen, wire>>
  BY <1>1, <1>2, <1>4 DEF Suppressed
<1>5. ASSUME NEW readable \in BOOLEAN, ~Suppressed(p, i),
             IF Throttled(p) /\ KindOf(p, i, readable) = "worktree"
               THEN UNCHANGED <<quiet, lastKind, wire>>
               ELSE /\ quiet' = [quiet EXCEPT ![p] = 0]
                    /\ lastKind' = [lastKind EXCEPT ![p] = KindOf(p, i, readable)]
                    /\ wire' = Append(wire, [path |-> p, kind |-> KindOf(p, i, readable)]),
             seen' = [seen EXCEPT ![p] = SeenAfter(p, i, readable)]
      PROVE  /\ seen' \in [Paths -> BOOLEAN] /\ \A q \in Paths : q # p => seen'[q] = seen[q]
             /\ \/ /\ Throttled(p) /\ UNCHANGED <<quiet, lastKind, wire>> /\ seen'[p] = seen[p]
                   /\ \/ lastKind[p] = "graph"
                      \/ i = "worktree"
                      \/ i = "ambiguous" /\ seen[p]
                \/ \E kind \in Kinds :
                     /\ quiet' = [quiet EXCEPT ![p] = 0] /\ lastKind' = [lastKind EXCEPT ![p] = kind]
                     /\ wire' = Append(wire, [path |-> p, kind |-> kind])
                     /\ \/ kind = "graph"
                        \/ /\ seen'[p] = seen[p]
                           /\ i = "worktree" \/ (i = "ambiguous" /\ seen[p])
  <2>1. SeenAfter(p, i, readable) \in BOOLEAN
    <3>1. CASE i = "worktree"
      BY <1>2, <3>1 DEF SeenAfter
    <3>2. CASE i = "graph"
      BY <3>2 DEF SeenAfter
    <3>3. CASE i = "ambiguous"
      BY <3>3 DEF SeenAfter
    <3> QED BY <1>3, <3>1, <3>2, <3>3
  <2>2. /\ seen' \in [Paths -> BOOLEAN] /\ \A q \in Paths : q # p => seen'[q] = seen[q]
        /\ seen'[p] = SeenAfter(p, i, readable)
    BY <1>2, <1>5, <2>1
  <2>3. KindOf(p, i, readable) \in Kinds
    BY DEF KindOf, Kinds
  <2>4. KindOf(p, i, readable) # "graph" =>
          /\ i = "worktree" \/ (i = "ambiguous" /\ seen[p])
          /\ SeenAfter(p, i, readable) = seen[p]
    <3>1. CASE i = "worktree"
      BY <3>1 DEF SeenAfter
    <3>2. CASE i = "graph"
      BY <3>2 DEF KindOf
    <3>3. CASE i = "ambiguous"
      <4>1. CASE readable /\ seen[p]
        <5>1. SeenAfter(p, i, readable) = TRUE /\ seen[p] = TRUE
          BY <1>2, <3>3, <4>1 DEF SeenAfter
        <5> QED BY <3>3, <4>1, <5>1
      <4>2. CASE ~(readable /\ seen[p])
        BY <3>3, <4>2 DEF KindOf
      <4> QED BY <4>1, <4>2
    <3> QED BY <1>3, <3>1, <3>2, <3>3
  <2>5. PICK kind \in Kinds : kind = KindOf(p, i, readable)
    BY <2>3
  <2>6. kind = "graph" \/ /\ seen'[p] = seen[p]
                          /\ i = "worktree" \/ (i = "ambiguous" /\ seen[p])
    BY <2>2, <2>4, <2>5
  <2>7. CASE Throttled(p) /\ kind = "worktree"
    <3>1. UNCHANGED <<quiet, lastKind, wire>>
      BY <1>5, <2>5, <2>7
    <3> QED BY <2>2, <2>6, <2>7, <3>1
  <2>8. CASE ~(Throttled(p) /\ kind = "worktree")
    <3>1. /\ quiet' = [quiet EXCEPT ![p] = 0] /\ lastKind' = [lastKind EXCEPT ![p] = kind]
          /\ wire' = Append(wire, [path |-> p, kind |-> kind])
      BY <1>5, <2>5, <2>8
    <3> QED BY <2>2, <2>6, <3>1
  <2> QED BY <2>7, <2>8
<1> QED BY <1>1, <1>4, <1>5 DEF Handles

\* The events, the throttle and the timer stay typed.
LEMMA EventsTypedKeeps ==
  ASSUME TypeOK, EventsTyped, [WatchNext]_vars
  PROVE  EventsTyped'
<1>0. /\ "none" \in Scopes /\ "worktree" \in Scopes /\ "all" \in Scopes
      /\ "worktree" \in Kinds /\ "graph" \in Kinds
  BY DEF Scopes, Kinds
<1>1. ASSUME UNCHANGED <<events, quiet, lastKind, seen, builtSeen, wire, since, scope>>,
             missed' \in Scopes
      PROVE  EventsTyped'
  BY <1>1 DEF EventsTyped
<1>2. ASSUME NEW p \in Paths, NEW r \in Scopes, Notes(p, r) PROVE missed' \in Scopes
  BY <1>2, RanksAre DEF Notes, EventsTyped
<1>3. ASSUME NEW p \in Paths, Shows(p) \/ Closes(p) PROVE EventsTyped'
  <2>1. UNCHANGED <<events, quiet, lastKind, seen, builtSeen, wire, since, scope>>
    BY <1>3 DEF Shows, Closes, emitVars, hookVars
  <2>2. missed' \in Scopes
    BY <1>0, <1>3 DEF Shows, Closes, EventsTyped
  <2> QED BY <1>1, <2>1, <2>2
<1>4. ASSUME NEW p \in Paths, Called(p) PROVE EventsTyped'
  <2>1. /\ UNCHANGED <<wire, since, scope, missed>>
        /\ \/ events' = events
           \/ events' = [events EXCEPT ![p] = {}]
        /\ \/ quiet' = quiet
           \/ quiet' = [quiet EXCEPT ![p] = Throttle]
        /\ \/ lastKind' = lastKind
           \/ lastKind' = [lastKind EXCEPT ![p] = "worktree"]
        /\ \/ seen' = seen
           \/ seen' = [seen EXCEPT ![p] = builtSeen[p]]
        /\ \/ builtSeen' = builtSeen
           \/ builtSeen' = [builtSeen EXCEPT ![p] = TRUE]
    BY <1>4 DEF Called, emitVars, hookVars
  <2>2. events' \in [Paths -> SUBSET Impacts]
    BY <2>1 DEF EventsTyped
  <2>3. quiet' \in [Paths -> 0..Throttle]
    BY <2>1, TimesAre DEF EventsTyped
  <2>4. lastKind' \in [Paths -> Kinds]
    BY <1>0, <2>1 DEF EventsTyped
  <2>5. seen' \in [Paths -> BOOLEAN]
    BY <2>1 DEF EventsTyped
  <2>6. builtSeen' \in [Paths -> BOOLEAN]
    BY <2>1 DEF EventsTyped
  <2> QED BY <2>1, <2>2, <2>3, <2>4, <2>5, <2>6 DEF EventsTyped
<1>5. ASSUME NEW p \in Paths, FileChanges(p) PROVE EventsTyped'
  <2>1. events' \in [Paths -> SUBSET Impacts]
    BY <1>5 DEF FileChanges, EventsTyped, Impacts
  <2>2. missed' \in Scopes
    BY <1>0, <1>2, <1>5 DEF FileChanges
  <2>3. UNCHANGED <<quiet, lastKind, seen, builtSeen, wire, since, scope>>
    BY <1>5 DEF FileChanges, hookVars
  <2> QED BY <2>1, <2>2, <2>3 DEF EventsTyped
<1>6. ASSUME NEW p \in Paths, RefsChange(p) PROVE EventsTyped'
  <2>1. PICK i \in {"graph", "ambiguous"} :
          events' = [q \in Paths |-> IF q \in Hearers(p) THEN events[q] \cup {i} ELSE events[q]]
    BY <1>6 DEF RefsChange
  <2>2. i \in Impacts
    BY DEF Impacts
  <2>3. events' \in [Paths -> SUBSET Impacts]
    BY <2>1, <2>2 DEF EventsTyped
  <2>4. PICK same \in SUBSET Paths :
          /\ seen' = [q \in Paths |-> IF q \in same THEN FALSE ELSE seen[q]]
          /\ builtSeen' = [q \in Paths |-> IF q \in same THEN FALSE ELSE builtSeen[q]]
          /\ IF shown \in same /\ tabs[shown] = home[shown]
               THEN Notes(shown, "all") ELSE UNCHANGED missed
    BY <1>6 DEF RefsChange
  <2>5. seen' \in [Paths -> BOOLEAN] /\ builtSeen' \in [Paths -> BOOLEAN]
    BY <2>4 DEF EventsTyped
  <2>6. missed' \in Scopes
    BY <1>0, <1>2, <2>4 DEF EventsTyped
  <2>7. UNCHANGED <<quiet, lastKind, wire, since, scope>>
    BY <1>6 DEF RefsChange, hookVars
  <2> QED BY <2>3, <2>5, <2>6, <2>7 DEF EventsTyped
<1>7. ASSUME NEW p \in Paths, NEW i \in Impacts, Handles(p, i) PROVE EventsTyped'
  <2>1. /\ UNCHANGED <<since, scope, missed, builtSeen>> /\ seen' \in [Paths -> BOOLEAN]
        /\ events' = [events EXCEPT ![p] = @ \ {i}]
    BY <1>7, HandlesIs DEF hookVars, Handles
  <2>2. events' \in [Paths -> SUBSET Impacts]
    BY <2>1 DEF EventsTyped
  <2>3. \/ UNCHANGED <<quiet, lastKind, wire>>
        \/ \E kind \in Kinds :
             /\ quiet' = [quiet EXCEPT ![p] = 0] /\ lastKind' = [lastKind EXCEPT ![p] = kind]
             /\ wire' = Append(wire, [path |-> p, kind |-> kind])
    BY <1>7, HandlesIs
  <2>4. CASE UNCHANGED <<quiet, lastKind, wire>>
    BY <2>1, <2>2, <2>4 DEF EventsTyped
  <2>5. ASSUME NEW kind \in Kinds, quiet' = [quiet EXCEPT ![p] = 0],
               lastKind' = [lastKind EXCEPT ![p] = kind],
               wire' = Append(wire, [path |-> p, kind |-> kind])
        PROVE  EventsTyped'
    <3>1. PICK e \in Event : e = [path |-> p, kind |-> kind]
      BY DEF Event
    <3>2. wire' \in Seq(Event)
      BY <2>5, <3>1, WireGrows
    <3>3. quiet' \in [Paths -> 0..Throttle] /\ lastKind' \in [Paths -> Kinds]
      BY <2>5, TimesAre DEF EventsTyped
    <3> QED BY <2>1, <2>2, <3>2, <3>3 DEF EventsTyped
  <2> QED BY <2>3, <2>4, <2>5
<1>8. CASE Delivers
  <2>1. /\ wire # <<>> /\ wire' = Tail(wire)
        /\ UNCHANGED <<events, quiet, lastKind, seen, builtSeen, missed>>
        /\ \/ scope' = Wider(scope, ScopeOf(Head(wire).kind)) /\ since' = 0
           \/ UNCHANGED <<scope, since>>
    BY <1>8 DEF Delivers, emitVars
  <2>2. wire' \in Seq(Event) /\ Head(wire) \in Event
    BY <2>1, WireShrinks
  <2>3. Head(wire).kind \in Kinds
    BY <2>2 DEF Event
  <2>4. scope' \in Scopes /\ since' \in 0..Off
    BY <2>1, <2>3, RanksAre, TimesAre DEF EventsTyped
  <2> QED BY <2>1, <2>2, <2>4 DEF EventsTyped
<1>9. CASE Fires \/ Focus
  <2>1. /\ UNCHANGED <<events, quiet, lastKind, seen, builtSeen, wire>>
        /\ \/ since' = Off /\ scope' = "none"
           \/ UNCHANGED <<since, scope>>
        /\ missed' \in {missed, "none"}
    BY <1>9 DEF Fires, Focus, Read, emitVars, hookVars
  <2> QED BY <1>0, <2>1, TimesAre DEF EventsTyped
<1>10. CASE Tick
  <2>1. UNCHANGED <<events, lastKind, seen, builtSeen, wire, scope, missed>>
    BY <1>10 DEF Tick
  <2>2. quiet' \in [Paths -> 0..Throttle]
    BY <1>10, TimesAre DEF Tick, EventsTyped
  <2>3. since' \in 0..Off
    BY <1>10, TimesAre DEF Tick, EventsTyped
  <2> QED BY <2>1, <2>2, <2>3 DEF EventsTyped
<1>11. ASSUME (\E p \in Paths : Relocates(p) \/ LabelProbed(p)) \/ UNCHANGED vars PROVE EventsTyped'
  <2>1. UNCHANGED <<events, quiet, lastKind, seen, builtSeen, wire, since, scope, missed>>
    BY <1>11 DEF Relocates, LabelProbed, vars, emitVars, hookVars
  <2> QED BY <2>1 DEF EventsTyped
<1>12. WatchNext => EventsTyped'
  BY <1>3, <1>4, <1>5, <1>6, <1>7, <1>8, <1>9, <1>10, <1>11 DEF WatchNext
<1> QED BY <1>11, <1>12

\* What is shown with its watch installed stays a path without calls.
LEMMA ArmedFitKeeps ==
  ASSUME TypeOK, EventsTyped, ArmedFit, [WatchNext]_vars
  PROVE  ArmedFit'
<1> USE DEF ArmedFit
<1>1. ASSUME UNCHANGED <<armed, shown, queue>>, missed' = missed \/ missed' = "none" \/ armed
      PROVE  ArmedFit'
  BY <1>1
<1>2. ASSUME NEW p \in Paths, Shows(p) PROVE ArmedFit'
  BY <1>2 DEF Shows
<1>3. ASSUME NEW p \in Paths, Closes(p) PROVE ArmedFit'
  <2>1. Ask(p, "unwatch") /\ "unwatch" \in Ops
    BY <1>3 DEF Closes, Ops
  <2>2. CASE shown = p
    BY <1>3, <2>2 DEF Closes
  <2>3. CASE shown # p
    <3>1. UNCHANGED <<shown, armed, missed>>
      BY <1>3, <2>3 DEF Closes
    <3> QED BY <2>1, <2>3, <3>1, AskIs
  <2> QED BY <2>2, <2>3
<1>4. ASSUME NEW p \in Paths, Called(p) PROVE ArmedFit'
  <2>1. shown' = shown /\ missed' = missed /\ queue[p] # <<>>
        /\ \A q \in Paths : q # p => queue'[q] = queue[q]
    BY <1>4, CallIs, SettlesIs DEF Called
  <2>2. \/ armed' <=> armed
        \/ p = shown /\ Len(queue[p]) = 1 /\ Installs(p)
    BY <1>4, Zenon DEF Called, emitVars
  <2>3. CASE armed' <=> armed
    BY <2>1, <2>3
  <2>4. CASE p = shown /\ Len(queue[p]) = 1 /\ Installs(p)
    <3>1. queue[p] \in Seq(Ops) /\ queue'[p] = Tail(queue[p])
      BY <2>4 DEF Installs, Settles, TypeOK
    <3>2. PICK q \in Seq(Ops) : q = queue[p]
      BY <3>1
    <3>3. q # <<>> => Tail(q) \in Seq(Ops) /\ Len(Tail(q)) = Len(q) - 1
      BY HeadTailProperties
    <3>4. PICK r : r = Tail(q)
      OBVIOUS
    <3>5. r \in Seq(Ops) /\ Len(r) = 0
      BY <2>1, <2>4, <3>2, <3>3, <3>4
    <3>6. r = <<>>
      BY <3>5, EmptySeq
    <3> QED BY <2>1, <2>4, <3>1, <3>2, <3>4, <3>6
  <2> QED BY <2>2, <2>3, <2>4
<1>5. ASSUME NEW p \in Paths, FileChanges(p) \/ RefsChange(p) PROVE ArmedFit'
  <2>1. UNCHANGED <<armed, shown, queue>>
    BY <1>5 DEF FileChanges, RefsChange, watchVars, registryVars, tabVars
  <2>2. missed' = missed \/ armed
    BY <1>5 DEF FileChanges, RefsChange, Notes
  <2> QED BY <1>1, <2>1, <2>2
<1>6. ASSUME NEW p \in Paths, NEW i \in Impacts, Handles(p, i) PROVE ArmedFit'
  BY <1>1, <1>6 DEF Handles, watchVars, registryVars, tabVars
<1>7. ASSUME \/ \E p \in Paths : Relocates(p) \/ LabelProbed(p)
             \/ Delivers \/ Fires \/ Focus \/ Tick \/ UNCHANGED vars
      PROVE  ArmedFit'
  <2>1. UNCHANGED <<armed, shown, queue>>
    BY <1>7 DEF Relocates, LabelProbed, Moves, Delivers, Fires, Focus, Tick, vars, watchVars,
                registryVars, tabVars
  <2>2. missed' = missed \/ missed' = "none"
    BY <1>7 DEF Relocates, LabelProbed, Delivers, Fires, Focus, Tick, Read, vars
  <2> QED BY <1>1, <2>1, <2>2
<1> QED BY <1>2, <1>3, <1>4, <1>5, <1>6, <1>7 DEF WatchNext

\* The throttle of what is shown stays covered while nothing that covers it is
\* taken away.
LEMMA ThrottleStill ==
  ASSUME ThrottleFit, armed' => armed, shown' = shown,
         quiet'[shown] < Throttle => quiet[shown] < Throttle /\ lastKind'[shown] = lastKind[shown],
         \A k \in DOMAIN wire : wire[k].path = shown =>
           \E j \in DOMAIN wire' : wire'[j] = wire[k],
         since <= quiet[shown] /\ quiet'[shown] < Throttle =>
           since' <= quiet'[shown] /\ scope' = scope
  PROVE  ThrottleFit'
<1> SUFFICES ASSUME armed', quiet'[shown] < Throttle
             PROVE  \/ \E k \in DOMAIN wire' :
                         /\ wire'[k].path = shown'
                         /\ Rank(ScopeOf(wire'[k].kind)) >= Rank(ScopeOf(lastKind'[shown']))
                    \/ since' <= quiet'[shown'] /\ Rank(scope') >= Rank(ScopeOf(lastKind'[shown']))
  BY DEF ThrottleFit, Throttled
<1>1. lastKind'[shown'] = lastKind[shown] /\ shown' = shown
  OBVIOUS
<1>2. \/ \E k \in DOMAIN wire :
           wire[k].path = shown /\ Rank(ScopeOf(wire[k].kind)) >= Rank(ScopeOf(lastKind[shown]))
      \/ since <= quiet[shown] /\ Rank(scope) >= Rank(ScopeOf(lastKind[shown]))
  BY DEF ThrottleFit, Throttled
<1> QED BY <1>1, <1>2

\* The throttle of what is shown stays covered.
LEMMA ThrottleFitKeeps ==
  ASSUME TypeOK, EventsTyped, ArmedFit, ThrottleFit, [WatchNext]_vars
  PROVE  ThrottleFit'
<1>0. /\ quiet \in [Paths -> 0..Throttle] /\ lastKind \in [Paths -> Kinds] /\ since \in 0..Off
      /\ scope \in Scopes /\ wire \in Seq(Event)
      /\ armed => shown \in Paths /\ queue[shown] = <<>>
  BY DEF EventsTyped, ArmedFit
<1>1. ASSUME UNCHANGED <<quiet, lastKind, wire, since, scope>>, ((armed' => armed) /\ shown' = shown) \/ ~armed'
      PROVE  ThrottleFit'
  BY <1>1 DEF ThrottleFit, Throttled
<1>2. ASSUME NEW p \in Paths, Shows(p) \/ Closes(p) PROVE ThrottleFit'
  BY <1>1, <1>2 DEF Shows, Closes, emitVars, hookVars
<1>3. ASSUME NEW p \in Paths, Called(p) PROVE ThrottleFit'
  <2>1. UNCHANGED <<wire, since, scope, shown>>
    BY <1>3 DEF Called, hookVars
  <2>2. CASE UNCHANGED <<quiet, lastKind>> /\ armed' = armed
    BY <1>1, <2>1, <2>2
  <2>3. CASE /\ quiet' = [quiet EXCEPT ![p] = Throttle]
             /\ lastKind' = [lastKind EXCEPT ![p] = "worktree"]
             /\ p = shown
    <3>1. ~Throttled(shown)'
      BY <1>0, <2>1, <2>3, TimesAre DEF Throttled
    <3> QED BY <3>1 DEF ThrottleFit
  <2>4. CASE /\ quiet' = [quiet EXCEPT ![p] = Throttle]
             /\ lastKind' = [lastKind EXCEPT ![p] = "worktree"]
             /\ p # shown /\ (armed' <=> armed)
    <3>1. armed => quiet'[shown] = quiet[shown] /\ lastKind'[shown] = lastKind[shown]
      BY <1>0, <2>4
    <3> QED BY <2>1, <2>4, <3>1 DEF ThrottleFit, Throttled
  <2>5. \/ UNCHANGED <<quiet, lastKind>> /\ armed' = armed
        \/ /\ quiet' = [quiet EXCEPT ![p] = Throttle]
           /\ lastKind' = [lastKind EXCEPT ![p] = "worktree"]
           /\ p = shown \/ (armed' <=> armed)
    BY <1>3, Zenon DEF Called, emitVars
  <2> QED BY <2>2, <2>3, <2>4, <2>5
<1>4. ASSUME NEW p \in Paths, FileChanges(p) \/ RefsChange(p) \/ Relocates(p) \/ LabelProbed(p)
      PROVE  ThrottleFit'
  <2>1. UNCHANGED <<quiet, lastKind, wire, since, scope, armed, shown>>
    BY <1>4 DEF FileChanges, RefsChange, Relocates, LabelProbed, tabVars, emitVars, hookVars
  <2> QED BY <1>1, <2>1
<1>5. ASSUME NEW p \in Paths, NEW i \in Impacts, Handles(p, i) PROVE ThrottleFit'
  <2>1. UNCHANGED <<since, scope, armed, shown>>
    BY <1>5, HandlesIs DEF tabVars, hookVars
  <2>2. CASE UNCHANGED <<quiet, lastKind, wire>>
    BY <1>1, <2>1, <2>2
  <2>3. ASSUME NEW kind \in Kinds, quiet' = [quiet EXCEPT ![p] = 0],
               lastKind' = [lastKind EXCEPT ![p] = kind],
               wire' = Append(wire, [path |-> p, kind |-> kind])
        PROVE  ThrottleFit'
    <3>1. PICK e \in Event : e = [path |-> p, kind |-> kind] /\ e.path = p /\ e.kind = kind
      <4>1. [path |-> p, kind |-> kind] \in Event
        BY DEF Event
      <4> QED BY <4>1
    <3>2. /\ \A k \in DOMAIN wire : k \in DOMAIN wire' /\ wire'[k] = wire[k]
          /\ \E k \in DOMAIN wire' : wire'[k] = e
      BY <2>3, <3>1, WireGrows
    <3>3. Rank(ScopeOf(kind)) >= Rank(ScopeOf(kind))
      BY RanksAre
    <3>4. CASE ~armed
      BY <2>1, <3>4 DEF ThrottleFit
    <3>5. CASE armed /\ p = shown
      <4>1. lastKind'[shown] = kind
        BY <1>0, <2>3, <3>5
      <4> QED BY <2>1, <3>1, <3>2, <3>3, <3>5, <4>1 DEF ThrottleFit
    <3>6. CASE armed /\ p # shown
      <4>1. quiet'[shown] = quiet[shown] /\ lastKind'[shown] = lastKind[shown]
        BY <1>0, <2>3, <3>6
      <4> QED BY <2>1, <3>2, <4>1, ThrottleStill
    <3> QED BY <3>4, <3>5, <3>6
  <2> QED BY <1>5, <2>2, <2>3, HandlesIs
<1>6. CASE Delivers
  <2>1. /\ wire # <<>> /\ wire' = Tail(wire) /\ UNCHANGED <<quiet, lastKind, armed, shown>>
        /\ \/ /\ Head(wire).path = shown
              /\ scope' = Wider(scope, ScopeOf(Head(wire).kind)) /\ since' = 0
           \/ Head(wire).path # shown /\ UNCHANGED <<scope, since>>
    BY <1>6 DEF Delivers, tabVars, emitVars
  <2>2. /\ Head(wire) \in Event
        /\ \A k \in DOMAIN wire :
             wire[k] = Head(wire) \/ \E j \in DOMAIN wire' : wire'[j] = wire[k]
    BY <2>1, WireShrinks
  <2>3. CASE Head(wire).path # shown /\ UNCHANGED <<scope, since>>
    BY <2>1, <2>2, <2>3, ThrottleStill
  <2>4. CASE /\ Head(wire).path = shown
             /\ scope' = Wider(scope, ScopeOf(Head(wire).kind)) /\ since' = 0
    <3>1. PICK t \in Scopes : t = ScopeOf(Head(wire).kind)
      BY <2>2, RanksAre DEF Event
    <3>2. Rank(scope') >= Rank(scope) /\ Rank(scope') >= Rank(t)
      BY <1>0, <2>4, <3>1, RanksAre
    <3>3. /\ Rank(scope) \in Nat /\ Rank(scope') \in Nat /\ Rank(t) \in Nat
      BY <1>0, <2>4, <3>1, RanksAre
    <3> SUFFICES ASSUME armed, Throttled(shown), shown \in Paths
                 PROVE  ThrottleFit'
      BY <1>0, <2>1 DEF ThrottleFit, Throttled
    <3>4. PICK r \in Scopes : r = ScopeOf(lastKind[shown]) /\ Rank(r) \in Nat
      BY <1>0, RanksAre
    <3>5. since' <= quiet'[shown'] /\ lastKind'[shown'] = lastKind[shown]
      BY <1>0, <2>1, <2>4, TimesAre
    <3>6. CASE \E k \in DOMAIN wire :
                 wire[k].path = shown /\ Rank(ScopeOf(wire[k].kind)) >= Rank(r)
      <4>1. PICK k \in DOMAIN wire :
              wire[k].path = shown /\ Rank(ScopeOf(wire[k].kind)) >= Rank(r)
        BY <3>6
      <4>2. CASE wire[k] = Head(wire)
        <5>1. Rank(scope') >= Rank(r)
          BY <3>1, <3>2, <3>3, <3>4, <4>1, <4>2
        <5> QED BY <3>4, <3>5, <5>1 DEF ThrottleFit
      <4>3. CASE \E j \in DOMAIN wire' : wire'[j] = wire[k]
        BY <2>1, <3>4, <3>5, <4>1, <4>3 DEF ThrottleFit
      <4> QED BY <2>2, <4>2, <4>3
    <3>7. CASE Rank(scope) >= Rank(r)
      <4>1. Rank(scope') >= Rank(r)
        BY <3>2, <3>3, <3>4, <3>7
      <4> QED BY <3>4, <3>5, <4>1 DEF ThrottleFit
    <3> QED BY <3>4, <3>6, <3>7 DEF ThrottleFit
  <2> QED BY <2>1, <2>3, <2>4
<1>7. CASE Fires
  <2>1. UNCHANGED <<quiet, lastKind, wire, armed, shown>> /\ since = Debounce
    BY <1>7 DEF Fires, tabVars, emitVars
  <2>2. ASSUME armed, quiet[shown] < Throttle PROVE ~(since <= quiet[shown])
    BY <1>0, <2>1, <2>2, TimesAre
  <2> QED BY <2>1, <2>2 DEF ThrottleFit, Throttled
<1>8. CASE Tick
  <2>1. UNCHANGED <<lastKind, wire, scope, armed, shown>>
    BY <1>8 DEF Tick, tabVars
  <2>2. CASE ~armed
    BY <2>1, <2>2 DEF ThrottleFit
  <2>3. CASE armed
    <3>1. quiet'[shown] = IF quiet[shown] < Throttle THEN quiet[shown] + 1 ELSE Throttle
      BY <1>0, <1>8, <2>3 DEF Tick
    <3>2. quiet'[shown] < Throttle => quiet[shown] < Throttle
      BY <1>0, <2>3, <3>1, TimesAre
    <3>3. since <= quiet[shown] /\ quiet'[shown] < Throttle => since' <= quiet'[shown]
      BY <1>0, <1>8, <2>3, <3>1, TimesAre DEF Tick
    <3> QED BY <2>1, <3>2, <3>3, ThrottleStill
  <2> QED BY <2>2, <2>3
<1>9. CASE Focus \/ UNCHANGED vars
  BY <1>1, <1>9 DEF Focus, vars, tabVars, emitVars, hookVars
<1> QED BY <1>2, <1>3, <1>4, <1>5, <1>6, <1>7, <1>8, <1>9 DEF WatchNext

\* What is still to come keeps coming while its source is kept, or handed on to
\* the timer.
LEMMA ComingStill ==
  ASSUME EventsTyped, EventsTyped', NEW r \in Scopes, Coming(r), shown' = shown,
         since # Off => since' # Off /\ Rank(scope') >= Rank(scope),
         \A k \in DOMAIN wire : wire[k].path = shown =>
           \/ \E j \in DOMAIN wire' : wire'[j] = wire[k]
           \/ since' # Off /\ Rank(scope') >= Rank(ScopeOf(wire[k].kind)),
         events[shown] \subseteq events'[shown], seen'[shown] => seen[shown]
  PROVE  Coming(r)'
<1>0. \A t \in Scopes : Rank(t) \in Nat
  BY RanksAre
<1>1. CASE since # Off /\ Rank(scope) >= Rank(r)
  <2>1. scope \in Scopes /\ scope' \in Scopes
    BY DEF EventsTyped
  <2>2. Rank(scope') >= Rank(r)
    BY <1>0, <1>1, <2>1
  <2> QED BY <1>1, <2>2 DEF Coming
<1>2. ASSUME NEW k \in DOMAIN wire, wire[k].path = shown, Rank(ScopeOf(wire[k].kind)) >= Rank(r)
      PROVE  Coming(r)'
  <2>1. CASE \E j \in DOMAIN wire' : wire'[j] = wire[k]
    BY <1>2, <2>1 DEF Coming
  <2>2. CASE since' # Off /\ Rank(scope') >= Rank(ScopeOf(wire[k].kind))
    <3>1. PICK e \in Event : e = wire[k]
      <4>1. wire \in Seq(Event)
        BY DEF EventsTyped
      <4> QED BY <4>1, ElementOfSeq, LenProperties
    <3>2. scope' \in Scopes /\ ScopeOf(e.kind) \in Scopes
      BY RanksAre DEF EventsTyped, Event
    <3>3. Rank(scope') >= Rank(r)
      BY <1>0, <1>2, <2>2, <3>1, <3>2
    <3> QED BY <2>2, <3>3 DEF Coming
  <2> QED BY <1>2, <2>1, <2>2
<1>3. ASSUME NEW i \in events[shown],
             r = "worktree" \/ i = "graph" \/ (i = "ambiguous" /\ ~seen[shown])
      PROVE  Coming(r)'
  <2>1. i \in events'[shown']
    OBVIOUS
  <2>2. r = "worktree" \/ i = "graph" \/ (i = "ambiguous" /\ ~seen'[shown'])
    BY <1>3, Zenon
  <2> QED BY <2>1, <2>2, Zenon DEF Coming
<1> QED BY <1>1, <1>2, <1>3 DEF Coming

\* It comes when an event of what is shown is on its way.
LEMMA ComingByWire ==
  ASSUME NEW r \in Scopes, NEW kind \in Kinds, Rank(ScopeOf(kind)) >= Rank(r),
         \E k \in DOMAIN wire' : wire'[k].path = shown' /\ wire'[k].kind = kind
  PROVE  Coming(r)'
  BY DEF Coming

\* What the screen lacks is what is to come.
LEMMA MissedBy ==
  ASSUME NEW r, r = missed', r # "none" => Coming(r)'
  PROVE  NothingMissed'
  BY DEF NothingMissed, Coming

\* Nothing the watch could hear is swallowed when an event is handled: a throttle
\* that suppresses it is covered, and a fingerprint that renews is told of.
LEMMA HandleMisses ==
  ASSUME TypeOK, EventsTyped, EventsTyped', ArmedFit, ThrottleFit, NothingMissed,
         NEW p \in Paths, NEW i \in Impacts, Handles(p, i)
  PROVE  NothingMissed'
<1>1. /\ UNCHANGED <<since, scope, shown, missed>>
      /\ events' = [events EXCEPT ![p] = @ \ {i}]
      /\ \A q \in Paths : q # p => seen'[q] = seen[q]
  BY HandlesIs DEF tabVars, hookVars
<1>2. PICK r \in Scopes : r = missed
  BY DEF EventsTyped
<1> SUFFICES ASSUME r # "none" PROVE Coming(r)'
  BY <1>1, <1>2, MissedBy
<1>3. Coming(r)
  BY <1>2 DEF NothingMissed, Coming
<1>4. armed /\ shown \in Paths
  BY <1>2 DEF ArmedFit
<1>5. \A q \in Paths : q # p => events'[q] = events[q]
  BY <1>1 DEF EventsTyped
<1>6. \A k \in DOMAIN wire : \E j \in DOMAIN wire' : wire'[j] = wire[k]
  <2>1. CASE wire' = wire
    BY <2>1
  <2>2. ASSUME NEW kind \in Kinds, wire' = Append(wire, [path |-> p, kind |-> kind])
        PROVE  \A k \in DOMAIN wire : \E j \in DOMAIN wire' : wire'[j] = wire[k]
    <3>1. [path |-> p, kind |-> kind] \in Event
      BY DEF Event
    <3>2. PICK e \in Event : e = [path |-> p, kind |-> kind]
      BY <3>1
    <3>3. \A k \in DOMAIN wire : k \in DOMAIN wire' /\ wire'[k] = wire[k]
      BY <2>2, <3>2, WireGrows
    <3> QED BY <3>3
  <2>3. wire' = wire \/ \E kind \in Kinds : wire' = Append(wire, [path |-> p, kind |-> kind])
    BY HandlesIs
  <2> QED BY <2>1, <2>2, <2>3
<1>7. Rank(scope) >= Rank(scope)
  BY RanksAre DEF EventsTyped
<1>8. CASE p # shown
  BY <1>1, <1>3, <1>4, <1>5, <1>6, <1>7, <1>8, ComingStill
<1>9. CASE p = shown
  <2>0. PICK n : n = i
    OBVIOUS
  <2>1. ASSUME seen'[p] = seen[p], ~(r = "worktree" \/ n = "graph" \/ (n = "ambiguous" /\ ~seen[p]))
        PROVE  Coming(r)'
    <3>1. CASE since # Off /\ Rank(scope) >= Rank(r)
      BY <1>1, <3>1 DEF Coming
    <3>2. CASE \E k \in DOMAIN wire : wire[k].path = shown /\ Rank(ScopeOf(wire[k].kind)) >= Rank(r)
      BY <1>1, <1>6, <3>2 DEF Coming
    <3>3. ASSUME NEW j \in events[shown],
                 r = "worktree" \/ j = "graph" \/ (j = "ambiguous" /\ ~seen[shown])
          PROVE  Coming(r)'
      <4>1. j # n
        BY <1>9, <2>1, <3>3, Zenon
      <4>2. j \in events'[shown']
        BY <1>1, <1>4, <1>9, <2>0, <4>1 DEF EventsTyped
      <4>3. r = "worktree" \/ j = "graph" \/ (j = "ambiguous" /\ ~seen'[shown'])
        <5>1. seen'[shown'] = seen[shown]
          BY <1>1, <1>9, <2>1
        <5> QED BY <3>3, <5>1
      <4> QED BY <4>2, <4>3, Zenon DEF Coming
    <3> QED BY <1>3, <3>1, <3>2, <3>3 DEF Coming
  <2>2. CASE /\ Throttled(p) /\ UNCHANGED <<quiet, lastKind, wire>> /\ seen'[p] = seen[p]
             /\ \/ lastKind[p] = "graph"
                \/ i = "worktree"
                \/ i = "ambiguous" /\ seen[p]
    <3>1. PICK k \in Kinds : k = lastKind[shown]
      BY <1>4 DEF EventsTyped
    <3>2. \/ \E j \in DOMAIN wire : wire[j].path = shown /\ Rank(ScopeOf(wire[j].kind)) >= Rank(ScopeOf(k))
          \/ since # Off /\ Rank(scope) >= Rank(ScopeOf(k))
      <4>1. quiet[shown] \in Nat /\ quiet[shown] < Throttle
        BY <1>4, <1>9, <2>2, TimesAre DEF EventsTyped, Throttled
      <4>2. since <= quiet[shown] => since # Off
        BY <4>1, TimesAre
      <4> QED BY <1>4, <1>9, <2>2, <3>1, <4>2 DEF ThrottleFit
    <3>3. ASSUME Rank(ScopeOf(k)) >= Rank(r) PROVE Coming(r)'
      <4>1. \A t \in Scopes : Rank(t) \in Nat
        BY RanksAre
      <4>2. ScopeOf(k) \in Scopes /\ scope \in Scopes
        BY RanksAre DEF EventsTyped
      <4>3. CASE since # Off /\ Rank(scope) >= Rank(ScopeOf(k))
        <5>1. Rank(scope) >= Rank(r)
          BY <3>3, <4>1, <4>2, <4>3
        <5> QED BY <1>1, <4>3, <5>1 DEF Coming
      <4>4. ASSUME NEW j \in DOMAIN wire, wire[j].path = shown,
                   Rank(ScopeOf(wire[j].kind)) >= Rank(ScopeOf(k))
            PROVE  Coming(r)'
        <5>1. PICK e \in Event : e = wire[j]
          <6>1. wire \in Seq(Event)
            BY DEF EventsTyped
          <6> QED BY <6>1, ElementOfSeq, LenProperties
        <5>2. ScopeOf(e.kind) \in Scopes
          BY RanksAre DEF Event
        <5>3. Rank(ScopeOf(e.kind)) >= Rank(r)
          BY <3>3, <4>1, <4>2, <4>4, <5>1, <5>2
        <5> QED BY <1>1, <2>2, <4>4, <5>1, <5>3 DEF Coming
      <4> QED BY <3>2, <4>3, <4>4
    <3>4. CASE Rank(ScopeOf(k)) >= Rank(r)
      BY <3>3, <3>4
    <3>5. CASE ~(Rank(ScopeOf(k)) >= Rank(r))
      <4>1. r = "all" /\ k # "graph"
        BY <3>5, RanksAre DEF Kinds
      <4>2. ~(n = "graph" \/ (n = "ambiguous" /\ ~seen[p]))
        BY <1>9, <2>0, <2>2, <3>1, <4>1
      <4> QED BY <2>1, <2>2, <4>1, <4>2
    <3> QED BY <3>4, <3>5
  <2>3. ASSUME NEW kind \in Kinds, wire' = Append(wire, [path |-> p, kind |-> kind]),
               \/ kind = "graph"
               \/ /\ seen'[p] = seen[p]
                  /\ i = "worktree" \/ (i = "ambiguous" /\ seen[p])
        PROVE  Coming(r)'
    <3>1. PICK e \in Event : e = [path |-> p, kind |-> kind] /\ e.path = p /\ e.kind = kind
      <4>1. [path |-> p, kind |-> kind] \in Event
        BY DEF Event
      <4> QED BY <4>1
    <3>2. \E k \in DOMAIN wire' : wire'[k].path = shown' /\ wire'[k].kind = kind
      <4>1. \E k \in DOMAIN wire' : wire'[k] = e
        BY <2>3, <3>1, WireGrows
      <4> QED BY <1>1, <1>9, <3>1, <4>1
    <3>3. CASE Rank(ScopeOf(kind)) >= Rank(r)
      BY <3>2, <3>3, ComingByWire
    <3>4. CASE ~(Rank(ScopeOf(kind)) >= Rank(r))
      <4>1. r = "all" /\ kind # "graph"
        BY <3>4, RanksAre DEF Kinds
      <4>2. ~(n = "graph" \/ (n = "ambiguous" /\ ~seen[p]))
        BY <2>0, <2>3, <4>1
      <4>3. seen'[p] = seen[p]
        BY <2>3, <4>1
      <4> QED BY <2>1, <4>1, <4>2, <4>3
    <3> QED BY <3>3, <3>4
  <2>4. \/ /\ Throttled(p) /\ UNCHANGED <<quiet, lastKind, wire>> /\ seen'[p] = seen[p]
           /\ \/ lastKind[p] = "graph"
              \/ i = "worktree"
              \/ i = "ambiguous" /\ seen[p]
        \/ \E kind \in Kinds :
             /\ wire' = Append(wire, [path |-> p, kind |-> kind])
             /\ \/ kind = "graph"
                \/ /\ seen'[p] = seen[p]
                   /\ i = "worktree" \/ (i = "ambiguous" /\ seen[p])
    BY HandlesIs
  <2> QED BY <2>2, <2>3, <2>4
<1> QED BY <1>8, <1>9

\* Nothing the watch could hear is swallowed when it changes: who reads the refs
\* hears of them.
LEMMA ChangeMisses ==
  ASSUME TypeOK, SharedIsExact, EventsTyped, EventsTyped', ArmedFit, NothingMissed, NEW p \in Paths,
         FileChanges(p) \/ RefsChange(p)
  PROVE  NothingMissed'
<1>1. UNCHANGED <<since, scope, shown, armed, wire>>
  BY DEF FileChanges, RefsChange, tabVars, hookVars
<1>2. /\ events \in [Paths -> SUBSET Impacts] /\ seen \in [Paths -> BOOLEAN]
      /\ scope \in Scopes /\ missed \in Scopes /\ missed' \in Scopes
  BY DEF EventsTyped
<1>3. armed => shown \in Paths
  BY DEF ArmedFit
<1>4. PICK r \in Scopes : r = missed
  BY <1>2
<1>5. r # "none" => Coming(r) /\ armed
  BY <1>4 DEF NothingMissed, Coming, ArmedFit
<1>6. Rank(scope) >= Rank(scope)
  BY <1>2, RanksAre
<1>7. PICK t \in Scopes : t = missed'
  BY <1>2
<1>8. ASSUME r # "none", events[shown] \subseteq events'[shown], seen'[shown] => seen[shown]
      PROVE  Coming(r)'
  BY <1>1, <1>5, <1>6, <1>8, ComingStill
<1>9. CASE FileChanges(p)
  <2>1. PICK i \in {"worktree", "ambiguous"} : events' = [events EXCEPT ![p] = @ \cup {i}]
    BY <1>9 DEF FileChanges
  <2>2. seen' = seen /\ (t = r \/ (p = shown /\ armed /\ t = Wider(r, "worktree")))
    BY <1>4, <1>7, <1>9 DEF FileChanges, Notes
  <2>3. armed => events[shown] \subseteq events'[shown]
    BY <1>2, <1>3, <2>1
  <2>4. t = r \/ (p = shown /\ t = "worktree")
    BY <2>2, RanksAre DEF Scopes
  <2>5. CASE t = r
    BY <1>5, <1>7, <1>8, <2>2, <2>3, <2>5, MissedBy
  <2>6. CASE p = shown /\ t = "worktree"
    <3>1. i \in events'[shown']
      BY <1>1, <1>2, <2>1, <2>6
    <3>2. Coming(t)'
      BY <2>6, <3>1 DEF Coming
    <3> QED BY <1>7, <3>2, MissedBy
  <2> QED BY <2>4, <2>5, <2>6
<1>10. CASE RefsChange(p)
  <2>1. PICK i \in {"graph", "ambiguous"} :
          events' = [q \in Paths |-> IF q \in Hearers(p) THEN events[q] \cup {i} ELSE events[q]]
    BY <1>10 DEF RefsChange
  <2>2. PICK same : same = {q \in Paths : q = p \/ (home[q] = home[p] /\ home[q] # Plain)}
    OBVIOUS
  <2>3. /\ seen' = [q \in Paths |-> IF q \in same THEN FALSE ELSE seen[q]]
        /\ IF shown \in same /\ tabs[shown] = home[shown]
             THEN Notes(shown, "all") ELSE UNCHANGED missed
        /\ Watched(p) /\ tabs[p] = home[p]
    BY <1>10, <2>2 DEF RefsChange
  <2>4. armed => events[shown] \subseteq events'[shown] /\ (seen'[shown] => seen[shown])
    BY <1>2, <1>3, <2>1, <2>3
  <2>5. CASE t = r
    BY <1>5, <1>7, <1>8, <2>4, <2>5, MissedBy
  <2>6. CASE t # r
    <3>1. armed /\ shown \in same /\ tabs[shown] = home[shown] /\ shown \in Paths
      BY <1>3, <1>4, <1>7, <2>3, <2>6 DEF Notes
    <3>2. shown \in Hearers(p)
      <4>1. CASE tabs[p] = Plain
        BY <2>2, <2>3, <3>1, <4>1 DEF Hearers
      <4>2. CASE tabs[p] # Plain
        <5>1. tabs[p] \in Commons /\ tabs[shown] = tabs[p]
          BY <2>2, <2>3, <3>1, <4>2 DEF TypeOK, Watched, Roots
        <5>2. shared[tabs[p]] = {q \in Paths : tabs[q] = tabs[p]} /\ tabs[p] \in live
          BY <5>1 DEF SharedIsExact
        <5> QED BY <3>1, <4>2, <5>1, <5>2 DEF Hearers
      <4> QED BY <4>1, <4>2
    <3>3. i \in events'[shown'] /\ ~seen'[shown']
      BY <1>1, <2>1, <2>3, <3>1, <3>2
    <3>4. Coming(t)'
      BY <3>3, Zenon DEF Coming
    <3> QED BY <1>7, <3>4, MissedBy
  <2> QED BY <2>5, <2>6
<1> QED BY <1>9, <1>10

\* Nor by anything else.
LEMMA MissedKeeps ==
  ASSUME TypeOK, SharedIsExact, EventsTyped, EventsTyped', ArmedFit, ThrottleFit, NothingMissed,
         [WatchNext]_vars
  PROVE  NothingMissed'
<1>1. /\ events \in [Paths -> SUBSET Impacts] /\ seen \in [Paths -> BOOLEAN]
      /\ scope \in Scopes /\ missed \in Scopes /\ since \in 0..Off
  BY DEF EventsTyped
<1>2. PICK r \in Scopes : r = missed
  BY <1>1
<1>3. r # "none" => Coming(r) /\ armed /\ shown \in Paths /\ queue[shown] = <<>>
  BY <1>2 DEF NothingMissed, Coming, ArmedFit
<1>4. Rank(scope) >= Rank(scope)
  BY <1>1, RanksAre
<1>5. ASSUME missed' = "none" PROVE NothingMissed'
  BY <1>5 DEF NothingMissed
<1>6. ASSUME missed' = missed, shown' = shown, UNCHANGED <<wire, scope>>, since # Off => since' # Off,
             r # "none" => events[shown] \subseteq events'[shown] /\ (seen'[shown] => seen[shown])
      PROVE  NothingMissed'
  <2>1. r # "none" => Coming(r)'
    BY <1>3, <1>4, <1>6, ComingStill
  <2> QED BY <1>2, <1>6, <2>1, MissedBy
<1>7. ASSUME NEW p \in Paths, Shows(p) PROVE NothingMissed'
  BY <1>5, <1>7 DEF Shows
<1>8. ASSUME NEW p \in Paths, Closes(p) PROVE NothingMissed'
  BY <1>5, <1>6, <1>8 DEF Closes, emitVars, hookVars
<1>9. ASSUME NEW p \in Paths, Called(p) PROVE NothingMissed'
  <2>1. queue[p] # <<>>
    BY <1>9, CallIs, SettlesIs
  <2>2. UNCHANGED <<wire, scope, since, shown, missed>>
    BY <1>9 DEF Called, hookVars
  <2>3. \/ events' = events
        \/ events' = [events EXCEPT ![p] = {}]
    BY <1>9 DEF Called, emitVars
  <2>4. \/ seen' = seen
        \/ seen' = [seen EXCEPT ![p] = builtSeen[p]]
    BY <1>9 DEF Called, emitVars
  <2>5. r # "none" => events'[shown] = events[shown] /\ seen'[shown] = seen[shown]
    BY <1>1, <1>3, <2>1, <2>3, <2>4
  <2> QED BY <1>6, <2>2, <2>5
<1>10. CASE Delivers
  <2>1. /\ wire # <<>> /\ wire' = Tail(wire) /\ UNCHANGED <<shown, missed, events, seen>>
        /\ \/ /\ Head(wire).path = shown
              /\ scope' = Wider(scope, ScopeOf(Head(wire).kind)) /\ since' = 0
           \/ Head(wire).path # shown /\ UNCHANGED <<scope, since>>
    BY <1>10 DEF Delivers, tabVars, emitVars
  <2>2. /\ Head(wire) \in Event
        /\ \A k \in DOMAIN wire :
             wire[k] = Head(wire) \/ \E j \in DOMAIN wire' : wire'[j] = wire[k]
    BY <2>1, WireShrinks
  <2>3. since # Off => since' # Off /\ Rank(scope') >= Rank(scope)
    <3>1. ScopeOf(Head(wire).kind) \in Scopes
      BY <2>2, RanksAre DEF Event
    <3> QED BY <1>1, <1>4, <2>1, <3>1, RanksAre, TimesAre
  <2>4. Head(wire).path = shown => since' # Off /\ Rank(scope') >= Rank(ScopeOf(Head(wire).kind))
    <3>1. ScopeOf(Head(wire).kind) \in Scopes
      BY <2>2, RanksAre DEF Event
    <3> QED BY <1>1, <2>1, <3>1, RanksAre, TimesAre
  <2>5. r # "none" => Coming(r)'
    BY <1>3, <2>1, <2>2, <2>3, <2>4, ComingStill
  <2> QED BY <1>2, <2>1, <2>5, MissedBy
<1>11. CASE Fires
  <2>1. UNCHANGED <<wire, shown, events, seen>> /\ missed' = Read(missed, scope)
    BY <1>11 DEF Fires, tabVars, emitVars
  <2>2. CASE Rank(scope) >= Rank(r)
    BY <1>2, <1>5, <2>1, <2>2 DEF Read
  <2>3. CASE ~(Rank(scope) >= Rank(r))
    <3>1. missed' = missed
      BY <1>2, <2>1, <2>3 DEF Read
    <3>2. r # "none" => Coming(r)'
      BY <1>3, <2>1, <2>3 DEF Coming
    <3> QED BY <1>2, <3>1, <3>2, MissedBy
  <2> QED BY <2>2, <2>3
<1>12. CASE Tick
  <2>1. UNCHANGED <<missed, shown, wire, scope, events, seen>>
    BY <1>12 DEF Tick, tabVars
  <2>2. since # Off => since' # Off
    BY <1>1, <1>12, TimesAre DEF Tick
  <2> QED BY <1>6, <2>1, <2>2
<1>13. ASSUME (\E p \in Paths : Relocates(p) \/ LabelProbed(p)) \/ UNCHANGED vars PROVE NothingMissed'
  <2>1. UNCHANGED <<missed, shown, wire, scope, since, events, seen>>
    BY <1>13 DEF Relocates, LabelProbed, vars, tabVars, emitVars, hookVars
  <2> QED BY <1>6, <2>1
<1>14. CASE Focus
  BY <1>5, <1>14 DEF Focus
<1> QED BY <1>7, <1>8, <1>9, <1>10, <1>11, <1>12, <1>13, <1>14, ChangeMisses, HandleMisses DEF WatchNext

\* The invariant holds before the first tab, and every step keeps it.
LEMMA WatchInvHolds ==
  /\ WatchInit => WatchInv
  /\ WatchInv /\ [WatchNext]_vars => WatchInv'
<1>1. ASSUME WatchInit PROVE WatchInv
  <2>1. TypeOK /\ SharedIsExact
    BY <1>1, InitHolds DEF WatchInit
  <2>2. CallsFit /\ ArmedFit /\ ThrottleFit /\ NothingMissed
    BY <1>1 DEF WatchInit, Init, CallsFit, ArmedFit, ThrottleFit, NothingMissed
  <2>3. EventsTyped
    <3>1. quiet \in [Paths -> 0..Throttle] /\ since \in 0..Off
      BY <1>1, TimesAre DEF WatchInit
    <3>2. scope \in Scopes /\ missed \in Scopes /\ lastKind \in [Paths -> Kinds]
      BY <1>1 DEF WatchInit, Scopes, Kinds
    <3> QED BY <1>1, <3>1, <3>2 DEF WatchInit, EventsTyped
  <2> QED BY <2>1, <2>2, <2>3 DEF WatchInv
<1>2. ASSUME WatchInv, [WatchNext]_vars PROVE WatchInv'
  <2> USE DEF WatchInv
  <2>1. TypeOK' /\ SharedIsExact'
    BY <1>2, WatchStepIsRegistryStep, NextKeeps
  <2>2. EventsTyped'
    BY <1>2, EventsTypedKeeps
  <2> QED BY <1>2, <2>1, <2>2, CallsFitKeeps, ArmedFitKeeps, ThrottleFitKeeps, MissedKeeps
<1> QED BY <1>1, <1>2

\* Once its calls have settled a path is watched just if it has a tab, however its
\* watches and unwatches were interleaved, but for a tab whose last watch failed.
THEOREM WatchesFollowTabs == WatchSpec => []WatchFollowsTab
<1>1. WatchInv => WatchFollowsTab
  BY DEF WatchInv, CallsFit, WatchFollowsTab
<1> QED BY <1>1, WatchInvHolds, PTL DEF WatchSpec

\* No change the watch could hear is swallowed, for any throttle no longer than
\* the debounce.
THEOREM NothingIsSwallowed == WatchSpec => []NothingMissed
<1>1. WatchInv => NothingMissed
  BY DEF WatchInv
<1> QED BY <1>1, WatchInvHolds, PTL DEF WatchSpec
=============================================================================
