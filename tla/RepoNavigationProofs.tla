----------------------- MODULE RepoNavigationProofs -----------------------
(***************************************************************************)
(* What RepoNavigation guarantees for every set of repositories, every      *)
(* stored session and every bound, proved: its typing; tabs, lifetimes and  *)
(* watches in agreement and one screen; stale requests that stay stale; and *)
(* RepoScreen, which it implements.                                         *)
(***************************************************************************)
EXTENDS RepoNavigation, FiniteSetTheorems, TLAPS

-----------------------------------------------------------------------------
(* Typing.                                                                   *)

Lifetimes == [of : Owners, next : Nat]
Markers == [intent : Nat, path : PathOrNone, tab : PathOrNone]

\* Registering, beginning and ending tab lifetimes (repoRequests.ts) keeps the map
\* of lifetimes a map of lifetimes.
LEMMA LifetimeTypes ==
  ASSUME NEW lt \in Lifetimes, NEW paths, NEW p \in Picks
  PROVE  /\ EnsureTabs(lt, paths) \in Lifetimes
         /\ BeginTab(lt, p) \in Lifetimes
         /\ EndTab(lt, p) \in Lifetimes
BY DEF EnsureTabs, BeginTab, EndTab, Lifetimes, Owners

\* loadRepo up to its first await leaves the intent, the lifetimes, the marker and
\* the opens in flight typed, whatever strip and lifetimes its caller hands it.
LEMMA LoadRepoType ==
  ASSUME openIntent \in Nat,
         NEW path \in Picks, NEW replace \in PathOrNone, NEW strip,
         NEW lt \in Lifetimes, NEW others \in SUBSET Open,
         LoadRepo(path, replace, strip, lt, others)
  PROVE  /\ openIntent' \in Nat
         /\ life' \in Lifetimes
         /\ pendingOpen' \in Markers
         /\ opens' \subseteq Open
<1>1. EnsureTabs(lt, strip) \in Lifetimes
  BY LifetimeTypes DEF EnsureTabs, Lifetimes, Owners
<1>2. openIntent' \in Nat /\ life' \in Lifetimes
  BY <1>1 DEF LoadRepo
<1> DEFINE open == [intent |-> openIntent + 1, path |-> path, replace |-> replace,
               owners |-> [p \in Picks |-> IF p \in strip
                              THEN EnsureTabs(lt, strip).of[p] ELSE 0],
               probing |-> FALSE]
<1>3. open \in Open
  BY <1>1 DEF Open, Lifetimes, Owners, PathOrNone
<1>4. pendingOpen' = Marker(open) /\ opens' = others \cup {open}
  BY DEF LoadRepo
<1>5. Marker(open) \in Markers
  BY <1>3 DEF Marker, Markers, Open, PathOrNone
<1> QED BY <1>2, <1>3, <1>4, <1>5

-----------------------------------------------------------------------------
(* Type correctness.                                                         *)

\* What LandOn and FallBackTo leave behind, whether they open a tab or not.
LEMMA CloseTypes ==
  ASSUME TypeOK, NEW p \in Picks, NEW next \in PathOrNone, NEW strip,
         NEW others \in SUBSET Open
  PROVE  /\ LandOn(next, p, strip) =>
              /\ lastPath' \in PathOrNone /\ openIntent' \in Nat
              /\ life' \in Lifetimes /\ pendingOpen' \in Markers
              /\ opens' \subseteq Open
         /\ \A marker \in Markers : FallBackTo(p, next, others, marker) =>
              /\ openPaths' \subseteq Picks /\ worktreeTabs' \subseteq Picks
              /\ watched' \subseteq Picks /\ publishedSession' \in Nat
              /\ summary' = None /\ missingRepo' = None
              /\ lastPath' \in PathOrNone /\ openIntent' \in Nat
              /\ life' \in Lifetimes /\ pendingOpen' \in Markers
              /\ opens' \subseteq Open
<1>1. /\ EndTab(life, p) \in Lifetimes
      /\ openIntent \in Nat /\ opens \in SUBSET Open
      /\ None \in PathOrNone /\ pendingOpen \in Markers /\ NoMarker \in Markers
  BY LifetimeTypes DEF TypeOK, Lifetimes, PathOrNone, Markers, NoMarker
<1>2. ASSUME next # None, NEW rest, NEW kept \in SUBSET Open,
             LoadRepo(next, None, rest, EndTab(life, p), kept)
      PROVE  /\ openIntent' \in Nat /\ life' \in Lifetimes
             /\ pendingOpen' \in Markers /\ opens' \subseteq Open
  BY <1>1, <1>2, LoadRepoType DEF PathOrNone
<1>3. ASSUME LandOn(next, p, strip)
      PROVE  /\ lastPath' \in PathOrNone /\ openIntent' \in Nat
             /\ life' \in Lifetimes /\ pendingOpen' \in Markers
             /\ opens' \subseteq Open
  <2>1. CASE next # None
    BY <1>1, <1>2, <1>3, <2>1 DEF LandOn
  <2>2. CASE next = None
    BY <1>1, <1>3, <2>2 DEF LandOn, PendingAfterClose
  <2> QED BY <2>1, <2>2
<1>4. ASSUME NEW marker \in Markers, FallBackTo(p, next, others, marker)
      PROVE  /\ openPaths' \subseteq Picks /\ worktreeTabs' \subseteq Picks
             /\ watched' \subseteq Picks /\ publishedSession' \in Nat
             /\ summary' = None /\ missingRepo' = None
             /\ lastPath' \in PathOrNone /\ openIntent' \in Nat
             /\ life' \in Lifetimes /\ pendingOpen' \in Markers
             /\ opens' \subseteq Open
  <2>1. /\ openPaths' \subseteq Picks /\ worktreeTabs' \subseteq Picks
        /\ watched' \subseteq Picks /\ publishedSession' \in Nat
        /\ summary' = None /\ missingRepo' = None /\ lastPath' \in PathOrNone
    BY <1>4 DEF FallBackTo, TypeOK
  <2>2. CASE next # None
    BY <1>2, <1>4, <2>1, <2>2 DEF FallBackTo
  <2>3. CASE next = None
    BY <1>1, <1>4, <2>1, <2>3 DEF FallBackTo
  <2> QED BY <2>2, <2>3
<1> QED BY <1>3, <1>4

\* The parts of the state an open in flight adds to or takes from.
LEMMA OpenTypes ==
  ASSUME TypeOK, NEW o \in opens
  PROVE  /\ o \in Open /\ Canon[o.path] \in Picks
         /\ opens \ {o} \in SUBSET Open
         /\ (opens \ {o}) \cup {[o EXCEPT !.probing = TRUE]} \in SUBSET Open
         /\ Released(o) \in Markers
BY PathsAssumption DEF TypeOK, Open, Released, NoMarker, Markers, PathOrNone

\* The fallback from a removed worktree lands on a path or on the welcome screen.
LEMMA TargetTypes ==
  ASSUME TypeOK, NEW p \in Picks, NEW exists \in BOOLEAN,
         NEW target \in FallbackTargets(p, exists)
  PROVE  target \in PathOrNone
BY PathsAssumption DEF FallbackTargets, TypeOK, PathOrNone

\* A launch starts from typed stores, whatever strip and last path were stored.
THEOREM InitTyped == Init => TypeOK
<1>1. SUFFICES ASSUME NEW launch \in Launches, Init,
                      openPaths = launch.strip, lastPath = launch.last,
                      worktreeTabs = launch.strip \cap Worktrees,
                      life = EnsureTabs([of |-> NoOwners, next |-> 0], launch.strip),
                      restore = [phase |-> "restoring", intent |-> 0,
                                 owners |-> life.of, last |-> launch.last,
                                 touched |-> {}]
               PROVE TypeOK
  BY DEF Init
<1>2. launch.strip \subseteq Picks /\ launch.last \in PathOrNone
  BY LaunchesAssumption, PathsAssumption DEF Repos, PathOrNone
<1>3. life \in Lifetimes
  <2>1. [of |-> NoOwners, next |-> 0] \in Lifetimes
    BY DEF Lifetimes, NoOwners, Owners
  <2> QED BY <2>1, <1>1, LifetimeTypes DEF EnsureTabs, Lifetimes, Owners
<1>4. restore \in [phase : {"restoring", "complete"}, intent : Nat, owners : Owners,
                   last : PathOrNone, touched : SUBSET Picks]
  BY <1>1, <1>2, <1>3 DEF Lifetimes
<1>5. pendingOpen \in Markers
  BY <1>1 DEF Init, NoMarker, Markers, PathOrNone
<1> QED BY <1>1, <1>2, <1>3, <1>4, <1>5
        DEF Init, TypeOK, Lifetimes, Markers, PathOrNone

\* A repository can be asked for by its own path.
LEMMA ReposArePicks == Repos \subseteq Picks
BY PathsAssumption DEF Repos

\* No action of the store takes a field out of its type.
THEOREM StepTyped == TypeOK /\ [Next]_vars => TypeOK'
<1> SUFFICES ASSUME TypeOK, [Next]_vars PROVE TypeOK'
  OBVIOUS
<1> USE DEF TypeOK, shownVars, asyncVars
<1>T. /\ openIntent \in Nat /\ life \in Lifetimes /\ pendingOpen \in Markers
      /\ opens \in SUBSET Open /\ NoMarker \in Markers /\ openPaths \in SUBSET Picks
  BY DEF Lifetimes, Markers, NoMarker, PathOrNone
<1>1. ASSUME NEW path \in Picks, NEW replace \in Repos \cup {None}, StartOpen(path, replace)
      PROVE TypeOK'
  <2>1. replace \in PathOrNone
    BY ReposArePicks DEF PathOrNone
  <2>2. /\ openIntent' \in Nat /\ life' \in Lifetimes
        /\ pendingOpen' \in Markers /\ opens' \subseteq Open
    BY <1>T, <1>1, <2>1, LoadRepoType DEF StartOpen
  <2> QED BY <1>1, <2>2 DEF StartOpen, Lifetimes, Markers
<1>2. ASSUME CancelPendingOpen PROVE TypeOK'
  BY <1>T, <1>2 DEF CancelPendingOpen, Markers
<1>3. ASSUME NEW p \in Picks, CloseMissing(p) PROVE TypeOK'
  <2>1. PICK next \in PathOrNone : LandOn(next, p, openPaths \ {p})
    BY <1>3 DEF CloseMissing, PathOrNone
  <2>2. /\ lastPath' \in PathOrNone /\ openIntent' \in Nat
        /\ life' \in Lifetimes /\ pendingOpen' \in Markers /\ opens' \subseteq Open
    BY <1>T, <2>1, CloseTypes
  <2> QED BY <1>3, <2>2 DEF CloseMissing, CloseTab, Lifetimes, Markers, PathOrNone
<1>4. ASSUME NEW p \in Picks, CloseBackground(p) PROVE TypeOK'
  <2>1. life' \in Lifetimes /\ pendingOpen' \in Markers
    BY <1>T, <1>4, LifetimeTypes DEF CloseBackground, PendingAfterClose
  <2> QED BY <1>4, <2>1 DEF CloseBackground, CloseTab, Lifetimes, Markers, PathOrNone
<1>5. ASSUME NEW p \in Picks, CloseActive(p) PROVE TypeOK'
  <2>1. PICK next \in PathOrNone : LandOn(next, p, openPaths \ {p})
    BY <1>5 DEF CloseActive, PathOrNone
  <2>2. /\ lastPath' \in PathOrNone /\ openIntent' \in Nat
        /\ life' \in Lifetimes /\ pendingOpen' \in Markers /\ opens' \subseteq Open
    BY <1>T, <2>1, CloseTypes
  <2> QED BY <1>5, <2>2 DEF CloseActive, CloseTab, Lifetimes, Markers, PathOrNone
<1>6. ASSUME StartWrite PROVE TypeOK'
  BY <1>6 DEF StartWrite, WriteOwner, PathOrNone
<1>7. ASSUME NEW stale \in Picks, NEW explicit \in BOOLEAN, StartLocate(stale, explicit)
      PROVE TypeOK'
  BY <1>7 DEF StartLocate
<1>8. ASSUME NEW o \in opens, PublishSwitch(o) PROVE TypeOK'
  <2> DEFINE dest == Canon[o.path]
             ended == life'
  <2>1. /\ dest \in Picks /\ opens \ {o} \subseteq Open /\ o \in Open
    BY OpenTypes
  <2>2. life' \in Lifetimes
    <3>1. EndTab(life, o.replace) \in Lifetimes
      BY <1>T DEF EndTab, Lifetimes, Owners
    <3>2. \A lt \in Lifetimes : /\ EnsureTabs(lt, {dest}) \in Lifetimes
                                /\ BeginTab(lt, dest) \in Lifetimes
      BY <2>1, LifetimeTypes
    <3> QED BY <1>T, <1>8, <3>1, <3>2 DEF PublishSwitch
  <2>3. restore' \in [phase : {"restoring", "complete"}, intent : Nat, owners : Owners,
                      last : PathOrNone, touched : SUBSET Picks]
    BY <1>8, <2>1 DEF PublishSwitch, Touch
  <2>4. openPaths' \subseteq Picks /\ worktreeTabs' \subseteq Picks /\ watched' \subseteq Picks
    BY <1>8, <2>1 DEF PublishSwitch, LabelTab
  <2> QED BY <1>T, <1>8, <2>1, <2>2, <2>3, <2>4
          DEF PublishSwitch, Lifetimes, Markers, PathOrNone
<1>9. ASSUME NEW o \in opens, OpenStandsDown(o) PROVE TypeOK'
  BY <1>9, OpenTypes DEF OpenStandsDown, Markers
<1>10. ASSUME NEW p \in Picks, EnterMissingState(p)
       PROVE /\ openPaths' \subseteq Picks /\ life' \in Lifetimes
             /\ lastPath' \in PathOrNone /\ publishedSession' \in Nat
             /\ summary' \in PathOrNone /\ missingRepo' \in PathOrNone
             /\ UNCHANGED <<worktreeTabs, watched, openIntent>>
  BY <1>T, <1>10, LifetimeTypes DEF EnterMissingState, PathOrNone
<1>11. ASSUME NEW o \in opens, OpenFindsMissing(o) PROVE TypeOK'
  <2>1. o.path \in Picks /\ opens \ {o} \subseteq Open /\ Released(o) \in Markers
        /\ (opens \ {o}) \cup {[o EXCEPT !.probing = TRUE]} \subseteq Open
    BY OpenTypes DEF Open
  <2>2. CASE EnterMissingState(o.path) /\ pendingOpen' = Released(o) /\ opens' = opens \ {o}
    BY <1>10, <1>11, <2>1, <2>2 DEF OpenFindsMissing, Lifetimes, Markers
  <2>3. CASE RetireDeadWorktreeTab(o.path) /\ pendingOpen' = Released(o) /\ opens' = opens \ {o}
    <3>1. life' \in Lifetimes
      BY <1>T, <2>1, <2>3, LifetimeTypes DEF RetireDeadWorktreeTab
    <3> QED BY <1>11, <2>1, <2>3, <3>1
            DEF OpenFindsMissing, RetireDeadWorktreeTab, Lifetimes, Markers
  <2>4. ASSUME NEW exists \in BOOLEAN, NEW target \in FallbackTargets(o.path, exists),
               FallBackTo(o.path, target, opens \ {o}, Released(o))
        PROVE  TypeOK'
    <3>1. target \in PathOrNone
      BY <2>1, TargetTypes
    <3>2. /\ openPaths' \subseteq Picks /\ worktreeTabs' \subseteq Picks
          /\ watched' \subseteq Picks /\ publishedSession' \in Nat
          /\ summary' = None /\ missingRepo' = None
          /\ lastPath' \in PathOrNone /\ openIntent' \in Nat
          /\ life' \in Lifetimes /\ pendingOpen' \in Markers
          /\ opens' \subseteq Open
      BY <2>1, <2>4, <3>1, CloseTypes
    <3> QED BY <1>11, <3>2 DEF OpenFindsMissing, Lifetimes, Markers, PathOrNone
  <2>5. CASE /\ watched' = watched \ {o.path}
             /\ opens' = (opens \ {o}) \cup {[o EXCEPT !.probing = TRUE]}
             /\ UNCHANGED <<openPaths, worktreeTabs, life, openIntent, pendingOpen,
                            shownVars>>
    BY <1>11, <2>1, <2>5 DEF OpenFindsMissing
  <2>6. HasParent(o.path) \in BOOLEAN
    BY DEF HasParent
  <2> QED BY <1>11, <2>2, <2>3, <2>4, <2>5, <2>6 DEF OpenFindsMissing
<1>12. ASSUME NEW o \in opens, OpenFallbackResumes(o) PROVE TypeOK'
  <2>1. o.path \in Picks /\ opens \ {o} \subseteq Open /\ Released(o) \in Markers
    BY OpenTypes DEF Open
  <2>2. ASSUME NEW exists \in BOOLEAN, NEW target \in FallbackTargets(o.path, exists),
               FallBackTo(o.path, target, opens \ {o}, Released(o))
        PROVE  TypeOK'
    <3>1. target \in PathOrNone
      BY <2>1, TargetTypes
    <3>2. /\ openPaths' \subseteq Picks /\ worktreeTabs' \subseteq Picks
          /\ watched' \subseteq Picks /\ publishedSession' \in Nat
          /\ summary' = None /\ missingRepo' = None
          /\ lastPath' \in PathOrNone /\ openIntent' \in Nat
          /\ life' \in Lifetimes /\ pendingOpen' \in Markers
          /\ opens' \subseteq Open
      BY <2>1, <2>2, <3>1, CloseTypes
    <3> QED BY <1>12, <3>2 DEF OpenFallbackResumes, Lifetimes, Markers, PathOrNone
  <2>3. CASE ~OpenOwnerIsCurrent(o)
    BY <1>12, <2>1, <2>3 DEF OpenFallbackResumes, Markers
  <2> QED BY <1>12, <2>2, <2>3 DEF OpenFallbackResumes
<1>13. ASSUME StartRead PROVE TypeOK'
  <2>1. reads' = reads \cup {[path |-> summary, session |-> publishedSession,
                              intent |-> openIntent, probing |-> FALSE]}
    BY <1>13 DEF StartRead
  <2>2. summary \in Picks
    BY <1>13 DEF StartRead, PathOrNone
  <2>3. [path |-> summary, session |-> publishedSession, intent |-> openIntent,
         probing |-> FALSE] \in ReadOwner
    BY <2>2 DEF ReadOwner
  <2>4. reads' \subseteq ReadOwner
    BY <2>1, <2>3
  <2> QED BY <1>13, <2>4 DEF StartRead
<1>14. ASSUME NEW r \in reads, ReadEnds(r) PROVE TypeOK'
  BY <1>14 DEF ReadEnds
<1>15. ASSUME NEW r \in reads, NEW exists \in BOOLEAN,
              NEW target \in FallbackTargets(r.path, exists),
              FallBackTo(r.path, target, opens, pendingOpen)
       PROVE  /\ openPaths' \subseteq Picks /\ worktreeTabs' \subseteq Picks
              /\ watched' \subseteq Picks /\ publishedSession' \in Nat
              /\ summary' = None /\ missingRepo' = None
              /\ lastPath' \in PathOrNone /\ openIntent' \in Nat
              /\ life' \in Lifetimes /\ pendingOpen' \in Markers
              /\ opens' \subseteq Open
  <2>1. r.path \in Picks
    BY DEF ReadOwner
  <2>2. target \in PathOrNone
    BY <2>1, TargetTypes
  <2> QED BY <1>T, <1>15, <2>1, <2>2, CloseTypes
<1>16. ASSUME NEW r \in reads, ReadFindsMissing(r) PROVE TypeOK'
  <2>1. r.path \in Picks /\ reads \ {r} \subseteq ReadOwner
        /\ (reads \ {r}) \cup {[r EXCEPT !.probing = TRUE]} \subseteq ReadOwner
    BY DEF ReadOwner
  <2>2. CASE EnterMissingState(r.path) /\ reads' = reads \ {r}
             /\ UNCHANGED <<pendingOpen, opens>>
    BY <1>10, <1>16, <2>1, <2>2 DEF ReadFindsMissing, Lifetimes
  <2>3. ASSUME NEW target \in FallbackTargets(r.path, HasParent(r.path)),
               FallBackTo(r.path, target, opens, pendingOpen), reads' = reads \ {r}
        PROVE TypeOK'
    <3>1. HasParent(r.path) \in BOOLEAN
      BY DEF HasParent
    <3> QED BY <1>15, <1>16, <2>1, <2>3, <3>1
            DEF ReadFindsMissing, Lifetimes, Markers, PathOrNone
  <2>4. CASE /\ watched' = watched \ {r.path}
             /\ reads' = (reads \ {r}) \cup {[r EXCEPT !.probing = TRUE]}
             /\ UNCHANGED <<openPaths, worktreeTabs, life, openIntent, pendingOpen,
                            shownVars, opens>>
    BY <1>16, <2>1, <2>4 DEF ReadFindsMissing
  <2> QED BY <1>16, <2>2, <2>3, <2>4 DEF ReadFindsMissing
<1>17. ASSUME NEW r \in reads, ReadFallbackResumes(r) PROVE TypeOK'
  BY <1>15, <1>17 DEF ReadFallbackResumes, Lifetimes, Markers, PathOrNone
<1>18. ASSUME NEW w \in writes, WriteEnds(w) PROVE TypeOK'
  BY <1>18 DEF WriteEnds
<1>19. ASSUME NEW w \in writes, NEW dest \in Repos, NEW replace \in {None, w.path},
              WriteNavigates(w, dest, replace)
       PROVE  TypeOK'
  <2>1. dest \in Picks /\ replace \in PathOrNone
    BY ReposArePicks DEF WriteOwner, PathOrNone
  <2>2. /\ openIntent' \in Nat /\ life' \in Lifetimes
        /\ pendingOpen' \in Markers /\ opens' \subseteq Open
    BY <1>T, <1>19, <2>1, LoadRepoType DEF WriteNavigates
  <2> QED BY <1>19, <2>2 DEF WriteNavigates, Lifetimes, Markers
<1>20. ASSUME NEW l \in locates, LocateEnds(l) PROVE TypeOK'
  BY <1>20 DEF LocateEnds
<1>21. ASSUME NEW l \in locates, NEW target \in Repos, LocateResumes(l, target)
       PROVE  TypeOK'
  <2>1. target \in Picks /\ l.stale \in Picks /\ None \in PathOrNone
    BY ReposArePicks DEF PathOrNone
  <2>2. ReKeyedLife(l.stale, target) \in Lifetimes
    <3>1. (IF l.stale \in openPaths THEN EndTab(life, l.stale) ELSE life) \in Lifetimes
      BY <1>T, <2>1, LifetimeTypes
    <3>2. \A lt \in Lifetimes : /\ EnsureTabs(lt, {target}) \in Lifetimes
                                /\ BeginTab(lt, target) \in Lifetimes
      BY <2>1, LifetimeTypes
    <3> QED BY <1>T, <3>1, <3>2 DEF ReKeyedLife
  <2>3. \E strip : \E lt \in Lifetimes : LoadRepo(target, None, strip, lt, opens)
    <3>1. CASE target # l.stale
      BY <1>21, <2>2, <3>1 DEF LocateResumes
    <3>2. CASE target = l.stale
      BY <1>T, <1>21, <3>2 DEF LocateResumes
    <3> QED BY <3>1, <3>2
  <2>4. /\ openIntent' \in Nat /\ life' \in Lifetimes
        /\ pendingOpen' \in Markers /\ opens' \subseteq Open
    BY <1>T, <2>1, <2>3, LoadRepoType
  <2> QED BY <1>21, <2>1, <2>4 DEF LocateResumes, Lifetimes, Markers, PathOrNone
<1>22. ASSUME NEW p \in Picks, StartLabel(p) PROVE TypeOK'
  <2>1. life' \in Lifetimes
    BY <1>T, <1>22, LifetimeTypes DEF StartLabel, EnsureTabs, Lifetimes, Owners
  <2>2. life'.of[p] \in Nat
    BY <2>1 DEF Lifetimes, Owners
  <2>3. [path |-> p, lifetime |-> life'.of[p]] \in [path : Picks, lifetime : Nat]
    BY <2>2
  <2>4. labels' \subseteq [path : Picks, lifetime : Nat]
    BY <1>22, <2>3 DEF StartLabel
  <2> QED BY <1>22, <2>1, <2>4 DEF StartLabel, Lifetimes
<1>23. ASSUME NEW b \in labels, LabelResumes(b) PROVE TypeOK'
  BY <1>23 DEF LabelResumes, LabelTab, Touch
<1>24. ASSUME NEW b \in labels, LabelEnds(b) PROVE TypeOK'
  BY <1>24 DEF LabelEnds
<1>25. ASSUME NEW failed \in BOOLEAN, NEW exists \in SUBSET Repos,
              RestoreResumes(failed, exists)
       PROVE  TypeOK'
  <2> DEFINE pruned == RestorePruned(failed, exists)
             ended == [life EXCEPT !.of = [p \in Picks |-> IF p \in pruned THEN 0 ELSE @[p]]]
  <2>1. ended \in Lifetimes
    BY <1>T DEF Lifetimes, Owners
  <2>2. pruned \subseteq Picks /\ RestoreOwned(failed) \subseteq Picks
    BY <1>T DEF RestorePruned, RestoreOwned
  <2>3. RestoreTargets(openPaths \ pruned, exists) \subseteq PathOrNone
    BY <1>T DEF RestoreTargets, PathOrNone
  <2>4. PICK target \in RestoreTargets(openPaths \ pruned, exists) :
          /\ lastPath' = IF RestoreOwnsNavigation THEN target ELSE lastPath
          /\ watched' = (watched \ pruned)
                          \cup ((RestoreOwned(failed) \cap exists) \ {target, summary})
          /\ \/ target # None /\ LoadRepo(target, None, openPaths \ pruned, ended, opens)
             \/ target = None /\ life' = ended
                /\ UNCHANGED <<openIntent, pendingOpen, opens>>
    BY <1>25 DEF RestoreResumes
  <2>5. /\ openIntent' \in Nat /\ life' \in Lifetimes
        /\ pendingOpen' \in Markers /\ opens' \subseteq Open
    <3>1. CASE target = None
      BY <1>T, <2>1, <2>4, <3>1
    <3>2. CASE target # None
      <4>1. target \in Picks /\ None \in PathOrNone
        BY <2>3, <3>2 DEF PathOrNone
      <4> HIDE DEF pruned, ended
      <4> QED BY <1>T, <2>1, <2>4, <3>2, <4>1, LoadRepoType
    <3> QED BY <3>1, <3>2
  <2>6. RestoreOver \in [phase : {"restoring", "complete"}, intent : Nat, owners : Owners,
                         last : PathOrNone, touched : SUBSET Picks]
    BY DEF RestoreOver, NoOwners, Owners, PathOrNone
  <2>7. openPaths' \subseteq Picks /\ worktreeTabs' \subseteq Picks
    BY <1>T, <1>25 DEF RestoreResumes
  <2>8. lastPath' \in PathOrNone /\ watched' \subseteq Picks
    BY <2>2, <2>3, <2>4
  <2> QED BY <1>25, <2>5, <2>6, <2>7, <2>8 DEF RestoreResumes, Lifetimes, Markers
<1> QED
  BY <1>1, <1>2, <1>3, <1>4, <1>5, <1>6, <1>7, <1>8, <1>9, <1>11, <1>12, <1>13,
     <1>14, <1>16, <1>17, <1>18, <1>19, <1>20, <1>21, <1>22, <1>23, <1>24, <1>25
  DEF Next, UserStep, SettleOpen, vars, asyncVars, shownVars

\* Every store field and every in-flight closure keeps its shape, whatever the
\* set of repositories, the stored session and the bounds.
THEOREM TypeCorrect == Spec => []TypeOK
BY InitTyped, StepTyped, PTL DEF Spec

-----------------------------------------------------------------------------
(* Tabs, lifetimes and watches agree, and one screen shows.                   *)

\* The two screens exclude each other in every step: whatever raises one takes
\* the other down in the same callback (publishRepoSwitch, enterMissingState).
THEOREM OneScreenStep == OneScreen /\ [Next]_vars => OneScreen'
<1> SUFFICES ASSUME OneScreen, [Next]_vars PROVE OneScreen'
  OBVIOUS
<1> DEFINE Cleared == summary' = None \/ missingRepo' = None
           Kept == UNCHANGED <<summary, missingRepo>>
<1>A. Cleared \/ Kept => OneScreen'
  BY DEF OneScreen
<1> USE DEF shownVars
<1>1. CASE UNCHANGED vars
  BY <1>A, <1>1 DEF vars
<1>2. CASE UserStep
  <2>1. ASSUME NEW path, NEW replace, StartOpen(path, replace) PROVE Kept
    BY <2>1 DEF StartOpen
  <2>2. ASSUME CancelPendingOpen PROVE Kept
    BY <2>2 DEF CancelPendingOpen
  <2>3. ASSUME NEW p, CloseMissing(p) PROVE Cleared
    BY <2>3 DEF CloseMissing
  <2>4. ASSUME NEW p, CloseBackground(p) PROVE Kept
    BY <2>4 DEF CloseBackground
  <2>5. ASSUME NEW p, CloseActive(p) PROVE Cleared
    BY <2>5 DEF CloseActive
  <2>6. ASSUME StartWrite PROVE Kept
    BY <2>6 DEF StartWrite
  <2>7. ASSUME NEW stale, NEW explicit, StartLocate(stale, explicit) PROVE Kept
    BY <2>7 DEF StartLocate
  <2> QED BY <1>2, <1>A, <2>1, <2>2, <2>3, <2>4, <2>5, <2>6, <2>7 DEF UserStep
<1>3. CASE SettleOpen
  <2>1. ASSUME NEW o, PublishSwitch(o) PROVE Cleared
    BY <2>1 DEF PublishSwitch
  <2>2. ASSUME NEW o, OpenStandsDown(o) PROVE Kept
    BY <2>2 DEF OpenStandsDown
  <2>3. ASSUME NEW o, OpenFindsMissing(o) PROVE Cleared \/ Kept
    BY <2>3 DEF OpenFindsMissing, EnterMissingState, RetireDeadWorktreeTab, FallBackTo
  <2>4. ASSUME NEW o, OpenFallbackResumes(o) PROVE Cleared \/ Kept
    BY <2>4 DEF OpenFallbackResumes, FallBackTo
  <2> QED BY <1>3, <1>A, <2>1, <2>2, <2>3, <2>4 DEF SettleOpen
<1>4. ASSUME NEW r, ReadEnds(r) \/ ReadFindsMissing(r) \/ ReadFallbackResumes(r)
      PROVE  Cleared \/ Kept
  BY <1>4 DEF ReadEnds, ReadFindsMissing, ReadFallbackResumes, EnterMissingState,
              FallBackTo
<1>5. CASE StartRead
  BY <1>A, <1>5 DEF StartRead
<1>6. ASSUME NEW w, NEW dest, NEW replace, WriteEnds(w) \/ WriteNavigates(w, dest, replace)
      PROVE  Kept
  BY <1>6 DEF WriteEnds, WriteNavigates
<1>7. ASSUME NEW l, NEW target, LocateEnds(l) \/ LocateResumes(l, target) PROVE Kept
  BY <1>7 DEF LocateEnds, LocateResumes
<1>8. ASSUME NEW p, StartLabel(p) PROVE Kept
  BY <1>8 DEF StartLabel
<1>9. ASSUME NEW b, LabelResumes(b) \/ LabelEnds(b) PROVE Kept
  BY <1>9 DEF LabelResumes, LabelEnds
<1>10. ASSUME NEW failed, NEW exists, RestoreResumes(failed, exists) PROVE Kept
  BY <1>10 DEF RestoreResumes
<1> HIDE DEF Cleared, Kept
<1> QED BY <1>A, <1>1, <1>2, <1>3, <1>4, <1>5, <1>6, <1>7, <1>8, <1>9, <1>10 DEF Next

\* A repository on screen and the missing-repository screen exclude each other,
\* however opens, closes, reads, fallbacks and Locate flows interleave.
THEOREM ScreensExclude == Spec => []OneScreen
<1>1. Init => OneScreen
  BY DEF Init, OneScreen
<1> QED BY <1>1, OneScreenStep, PTL DEF Spec

-----------------------------------------------------------------------------
(* Leases. A tab's lifetime is dropped wherever its path leaves the strip.    *)

Leased(lt) == {p \in Picks : lt.of[p] # 0}

\* What registering, beginning and ending a tab does to the set of leased paths.
LEMMA LeaseOperators ==
  ASSUME NEW lt \in Lifetimes, NEW paths, NEW p \in Picks
  PROVE  /\ Leased(EnsureTabs(lt, paths)) \subseteq Leased(lt) \cup paths
         /\ Leased(BeginTab(lt, p)) \subseteq Leased(lt) \cup {p}
         /\ Leased(EndTab(lt, p)) \subseteq Leased(lt) \ {p}
<1>1. Leased(EnsureTabs(lt, paths)) \subseteq Leased(lt) \cup paths
  BY DEF Leased, EnsureTabs, Lifetimes, Owners
<1>2. Leased(BeginTab(lt, p)) \subseteq Leased(lt) \cup {p}
  BY DEF Leased, BeginTab, Lifetimes, Owners
<1>3. Leased(EndTab(lt, p)) \subseteq Leased(lt) \ {p}
  BY DEF Leased, EndTab, Lifetimes, Owners
<1> QED BY <1>1, <1>2, <1>3

\* loadRepo registers nothing but the strip it is handed.
LEMMA LoadRepoLeases ==
  ASSUME NEW path, NEW replace, NEW strip, NEW lt \in Lifetimes, NEW others,
         Leased(lt) \subseteq strip, LoadRepo(path, replace, strip, lt, others)
  PROVE  Leased(life') \subseteq strip
<1>1. life' = EnsureTabs(lt, strip)
  BY DEF LoadRepo
<1>2. Leased(EnsureTabs(lt, strip)) \subseteq strip
  <2>1. Leased(EnsureTabs(lt, strip)) \subseteq Leased(lt) \cup strip
    BY DEF Leased, EnsureTabs, Lifetimes, Owners
  <2> QED BY <2>1
<1> QED BY <1>1, <1>2

TabsAgree == Leased(life) \subseteq openPaths /\ watched \subseteq openPaths

\* A close or a fallback takes the lease and the watch of the tab it removes along.
LEMMA RemovalLeases ==
  ASSUME TypeOK, TabsAgree, NEW p \in Picks
  PROVE  /\ Leased(EndTab(life, p)) \subseteq openPaths \ {p}
         /\ \A next : LandOn(next, p, openPaths \ {p}) =>
              Leased(life') \subseteq openPaths \ {p}
         /\ \A next, others, marker : FallBackTo(p, next, others, marker) => TabsAgree'
<1>1. life \in Lifetimes /\ EndTab(life, p) \in Lifetimes
  BY LifetimeTypes DEF TypeOK, Lifetimes
<1>2. Leased(EndTab(life, p)) \subseteq openPaths \ {p}
  BY <1>1, LeaseOperators DEF TabsAgree
<1>3. ASSUME NEW next, NEW others,
             \/ LoadRepo(next, None, openPaths \ {p}, EndTab(life, p), others)
             \/ life' = EndTab(life, p)
      PROVE  Leased(life') \subseteq openPaths \ {p}
  <2>1. CASE LoadRepo(next, None, openPaths \ {p}, EndTab(life, p), others)
    BY <1>1, <1>2, <2>1, LoadRepoLeases
  <2>2. CASE life' = EndTab(life, p)
    BY <1>2, <2>2
  <2> QED BY <1>3, <2>1, <2>2
<1>4. \A next : LandOn(next, p, openPaths \ {p}) => Leased(life') \subseteq openPaths \ {p}
  BY <1>3 DEF LandOn
<1>5. ASSUME NEW next, NEW others, NEW marker, FallBackTo(p, next, others, marker)
      PROVE  TabsAgree'
  <2>1. openPaths' = openPaths \ {p} /\ watched' = watched \ {p}
    BY <1>5 DEF FallBackTo
  <2>2. Leased(life') \subseteq openPaths \ {p}
    BY <1>3, <1>5 DEF FallBackTo
  <2>3. Leased(life)' = Leased(life')
    BY DEF Leased
  <2> QED BY <2>1, <2>2, <2>3 DEF TabsAgree
<1> QED BY <1>2, <1>4, <1>5

\* Landing in a tab, old or new, leases that tab and no other.
LEMMA ArrivalLeases ==
  ASSUME TypeOK, NEW lt \in Lifetimes, NEW p \in Picks, NEW strip,
         Leased(lt) \subseteq strip, p \in strip
  PROVE  /\ Leased(EnsureTabs(lt, {p})) \subseteq strip
         /\ Leased(BeginTab(lt, p)) \subseteq strip
BY LeaseOperators

\* Phase 2 of loadRepo: the tab it opens or reuses is leased, the one it replaces
\* loses lease and watch together.
LEMMA PublishAgrees ==
  ASSUME TypeOK, TabsAgree, NEW o \in opens, PublishSwitch(o)
  PROVE  TabsAgree'
<1> DEFINE dest == Canon[o.path]
           inPlace == /\ dest \notin openPaths
                      /\ o.replace \in openPaths
                      /\ o.owners[o.replace] # 0
           strip == (IF inPlace THEN openPaths \ {o.replace} ELSE openPaths) \cup {dest}
           ended == IF inPlace THEN EndTab(life, o.replace) ELSE life
<1>1. dest \in Picks /\ life \in Lifetimes
  BY OpenTypes DEF TypeOK, Lifetimes
<1>2. /\ openPaths' = strip
      /\ life' = IF dest \in openPaths THEN EnsureTabs(ended, {dest})
                 ELSE BeginTab(ended, dest)
      /\ watched' = (watched \ (openPaths \ strip)) \cup {dest}
  BY DEF PublishSwitch
<1>3. ended \in Lifetimes /\ Leased(ended) \subseteq strip
  <2>1. CASE inPlace
    <3>1. o.replace \in Picks
      BY <2>1 DEF TypeOK
    <3>2. /\ EndTab(life, o.replace) \in Lifetimes
          /\ Leased(EndTab(life, o.replace)) \subseteq openPaths \ {o.replace}
      BY <1>1, <3>1, LifetimeTypes, RemovalLeases
    <3> QED BY <2>1, <3>2
  <2>2. CASE ~inPlace
    BY <1>1, <2>2 DEF TabsAgree
  <2> QED BY <2>1, <2>2
<1>4. dest \in strip
  OBVIOUS
<1>5. watched' \subseteq strip
  BY <1>2 DEF TabsAgree
<1> HIDE DEF dest, strip, ended
<1>6. Leased(life') \subseteq strip
  BY <1>1, <1>2, <1>3, <1>4, ArrivalLeases
<1> QED BY <1>2, <1>5, <1>6 DEF TabsAgree, Leased

\* Locate... gives the re-keyed tab a lease of its own and drops the stale path's.
LEMMA LocateAgrees ==
  ASSUME TypeOK, TabsAgree, NEW l \in locates, NEW target \in Repos,
         LocateResumes(l, target)
  PROVE  TabsAgree'
<1> DEFINE strip == IF l.stale \in openPaths
                    THEN (openPaths \ {l.stale}) \cup {target} ELSE openPaths
           ended == IF l.stale \in openPaths THEN EndTab(life, l.stale) ELSE life
<1>1. /\ target \in Picks /\ l.stale \in Picks /\ life \in Lifetimes
      /\ Leased(life) \subseteq openPaths /\ watched \subseteq openPaths
  BY ReposArePicks DEF TypeOK, Lifetimes, TabsAgree
<1>2. CASE target = l.stale
  <2>1. /\ LoadRepo(target, None, openPaths, life, opens)
        /\ UNCHANGED <<openPaths, watched>>
    BY <1>2 DEF LocateResumes
  <2>2. Leased(life') \subseteq openPaths
    BY <1>1, <2>1, LoadRepoLeases
  <2> QED BY <1>1, <2>1, <2>2 DEF TabsAgree, Leased
<1>3. CASE target # l.stale
  <2>1. /\ openPaths' = strip
        /\ watched' = watched \ {l.stale}
        /\ LoadRepo(target, None, strip, ReKeyedLife(l.stale, target), opens)
    BY <1>3 DEF LocateResumes
  <2>2. /\ ended \in Lifetimes
        /\ Leased(ended) \subseteq openPaths
        /\ l.stale \in openPaths => Leased(ended) \subseteq openPaths \ {l.stale}
    BY <1>1, LifetimeTypes, RemovalLeases
  <2>3. /\ ReKeyedLife(l.stale, target) \in Lifetimes
        /\ Leased(ReKeyedLife(l.stale, target)) \subseteq strip
    <3>1. ReKeyedLife(l.stale, target) =
            IF target \in openPaths THEN EnsureTabs(ended, {target})
            ELSE IF l.stale \in openPaths THEN BeginTab(ended, target) ELSE life
      BY DEF ReKeyedLife
    <3>2. /\ EnsureTabs(ended, {target}) \in Lifetimes
          /\ BeginTab(ended, target) \in Lifetimes
          /\ Leased(EnsureTabs(ended, {target})) \subseteq Leased(ended) \cup {target}
          /\ Leased(BeginTab(ended, target)) \subseteq Leased(ended) \cup {target}
      <4> HIDE DEF ended
      <4> QED BY <1>1, <2>2, LifetimeTypes, LeaseOperators
    <3>3. (Leased(ended) \cup {target} \subseteq strip)
            \/ (l.stale \notin openPaths /\ target \notin openPaths)
      BY <1>3, <2>2
    <3> HIDE DEF ended
    <3>4. CASE l.stale \notin openPaths /\ target \notin openPaths
      BY <1>1, <3>1, <3>4
    <3>5. CASE Leased(ended) \cup {target} \subseteq strip
      <4>1. CASE target \in openPaths \/ l.stale \in openPaths
        <5> HIDE DEF strip
        <5> QED BY <3>1, <3>2, <3>5, <4>1
      <4> QED BY <3>4, <4>1
    <3> QED BY <3>3, <3>4, <3>5
  <2>4. watched' \subseteq strip
    BY <1>1, <2>1
  <2> HIDE DEF strip
  <2>5. Leased(life') \subseteq strip
    BY <2>1, <2>3, LoadRepoLeases
  <2> QED BY <2>1, <2>4, <2>5 DEF TabsAgree, Leased
<1> QED BY <1>2, <1>3

\* The startup restore drops the lease and the watch of every tab it prunes, and
\* watches only tabs it found on disk, which are none of those.
LEMMA RestoreAgrees ==
  ASSUME TypeOK, TabsAgree, NEW failed \in BOOLEAN, NEW exists \in SUBSET Repos,
         RestoreResumes(failed, exists)
  PROVE  TabsAgree'
<1> DEFINE pruned == RestorePruned(failed, exists)
           found == RestoreOwned(failed) \cap exists
           strip == openPaths \ pruned
           ended == [life EXCEPT !.of = [p \in Picks |-> IF p \in pruned THEN 0 ELSE @[p]]]
<1>1. openPaths' = strip
  BY DEF RestoreResumes
<1>2. PICK target \in RestoreTargets(strip, exists) :
        /\ watched' = (watched \ pruned) \cup (found \ {target, summary})
        /\ LoadRepo(target, None, strip, ended, opens) \/ life' = ended
  BY DEF RestoreResumes
<1>3. found \subseteq strip
  BY DEF RestorePruned, RestoreOwned
<1>4. watched' \subseteq strip
  BY <1>2, <1>3 DEF TabsAgree
<1>5. life \in Lifetimes
  BY DEF TypeOK, Lifetimes
<1>6. ended \in Lifetimes /\ Leased(ended) \subseteq strip
  <2> HIDE DEF pruned
  <2>1. ended.of = [p \in Picks |-> IF p \in pruned THEN 0 ELSE life.of[p]]
        /\ ended \in Lifetimes
    BY <1>5 DEF Lifetimes, Owners
  <2> HIDE DEF ended
  <2> QED BY <2>1 DEF Leased, TabsAgree
<1> HIDE DEF strip, ended
<1>7. Leased(life') \subseteq strip
  BY <1>2, <1>6, LoadRepoLeases
<1> QED BY <1>1, <1>4, <1>7 DEF TabsAgree, Leased

\* A path found gone is given a tab of its own, with its lease, for the recovery
\* screen, or loses its tab with lease and watch.
LEMMA MissingAgrees ==
  ASSUME TypeOK, TabsAgree, NEW p \in Picks
  PROVE  /\ EnterMissingState(p) => TabsAgree'
         /\ RetireDeadWorktreeTab(p) => TabsAgree'
<1>1. life \in Lifetimes /\ Leased(life) \subseteq openPaths \cup {p}
  BY DEF TypeOK, Lifetimes, TabsAgree
<1>2. ASSUME EnterMissingState(p) PROVE TabsAgree'
  <2>1. /\ openPaths' = openPaths \cup {p} /\ watched' = watched
        /\ life' = IF p \in openPaths THEN EnsureTabs(life, {p}) ELSE BeginTab(life, p)
    BY <1>2 DEF EnterMissingState
  <2>2. /\ Leased(EnsureTabs(life, {p})) \subseteq openPaths \cup {p}
        /\ Leased(BeginTab(life, p)) \subseteq openPaths \cup {p}
    BY <1>1, ArrivalLeases
  <2> QED BY <2>1, <2>2 DEF TabsAgree, Leased
<1>3. ASSUME RetireDeadWorktreeTab(p) PROVE TabsAgree'
  <2>1. Leased(EndTab(life, p)) \subseteq openPaths \ {p}
    BY RemovalLeases
  <2>2. CASE openPaths' = openPaths \ {p} /\ life' = EndTab(life, p)
    BY <1>3, <2>1, <2>2 DEF RetireDeadWorktreeTab, TabsAgree, Leased
  <2>3. CASE UNCHANGED <<openPaths, life>>
    BY <1>3, <2>3 DEF RetireDeadWorktreeTab, TabsAgree, Leased
  <2> QED BY <1>3, <2>2, <2>3 DEF RetireDeadWorktreeTab
<1> QED BY <1>2, <1>3

\* Every step keeps the agreement, one case per action.
THEOREM TabsStep == TypeOK /\ TabsAgree /\ [Next]_vars => TabsAgree'
<1> SUFFICES ASSUME TypeOK, TabsAgree, [Next]_vars PROVE TabsAgree'
  OBVIOUS
<1> USE DEF asyncVars
<1>T. life \in Lifetimes /\ Leased(life) \subseteq openPaths /\ watched \subseteq openPaths
  BY DEF TypeOK, Lifetimes, TabsAgree
<1>S. ASSUME openPaths' = openPaths, watched' \subseteq watched,
             \/ life' = life
             \/ \E path, replace, others : LoadRepo(path, replace, openPaths, life, others)
      PROVE  TabsAgree'
  <2>1. Leased(life') \subseteq openPaths
    BY <1>T, <1>S, LoadRepoLeases
  <2> QED BY <1>T, <1>S, <2>1 DEF TabsAgree, Leased
<1>1. CASE UNCHANGED vars
  BY <1>1, <1>S DEF vars
<1>2. ASSUME NEW path, NEW replace, StartOpen(path, replace) PROVE TabsAgree'
  BY <1>2, <1>S DEF StartOpen
<1>3. ASSUME CancelPendingOpen PROVE TabsAgree'
  BY <1>3, <1>S DEF CancelPendingOpen
<1>4. ASSUME NEW p \in Picks, CloseMissing(p) \/ CloseBackground(p) \/ CloseActive(p)
      PROVE  TabsAgree'
  <2>1. openPaths' = openPaths \ {p} /\ watched' = watched \ {p}
    BY <1>4 DEF CloseMissing, CloseBackground, CloseActive, CloseTab
  <2>2. \/ \E next : LandOn(next, p, openPaths \ {p})
        \/ life' = EndTab(life, p)
    BY <1>4 DEF CloseMissing, CloseBackground, CloseActive
  <2>3. Leased(life') \subseteq openPaths \ {p}
    BY <2>2, RemovalLeases
  <2> QED BY <1>T, <2>1, <2>3 DEF TabsAgree, Leased
<1>5. ASSUME StartWrite PROVE TabsAgree'
  BY <1>5, <1>S DEF StartWrite
<1>6. ASSUME NEW stale, NEW explicit, StartLocate(stale, explicit) PROVE TabsAgree'
  BY <1>6, <1>S DEF StartLocate
<1>7. ASSUME NEW o \in opens, PublishSwitch(o) PROVE TabsAgree'
  BY <1>7, PublishAgrees
<1>8. ASSUME NEW o \in opens, OpenStandsDown(o) PROVE TabsAgree'
  BY <1>8, <1>S DEF OpenStandsDown
<1>9. ASSUME NEW o \in opens, OpenFindsMissing(o) PROVE TabsAgree'
  <2>1. o.path \in Picks
    BY DEF TypeOK, Open
  <2>2. ASSUME NEW target, NEW others, NEW marker, FallBackTo(o.path, target, others, marker)
        PROVE  TabsAgree'
    BY <2>1, <2>2, RemovalLeases
  <2>3. CASE watched' = watched \ {o.path} /\ UNCHANGED <<openPaths, life>>
    BY <1>S, <2>3
  <2> QED BY <1>9, <2>1, <2>2, <2>3, MissingAgrees DEF OpenFindsMissing
<1>10. ASSUME NEW o \in opens, OpenFallbackResumes(o) PROVE TabsAgree'
  <2>1. o.path \in Picks
    BY DEF TypeOK, Open
  <2>2. ASSUME NEW target, NEW others, NEW marker, FallBackTo(o.path, target, others, marker)
        PROVE  TabsAgree'
    BY <2>1, <2>2, RemovalLeases
  <2>3. CASE UNCHANGED <<openPaths, life, watched>>
    BY <1>S, <2>3
  <2> QED BY <1>10, <2>2, <2>3 DEF OpenFallbackResumes
<1>11. ASSUME StartRead PROVE TabsAgree'
  BY <1>11, <1>S DEF StartRead
<1>12. ASSUME NEW r \in reads, ReadEnds(r) PROVE TabsAgree'
  BY <1>12, <1>S DEF ReadEnds
<1>13. ASSUME NEW r \in reads, ReadFindsMissing(r) \/ ReadFallbackResumes(r)
       PROVE  TabsAgree'
  <2>1. r.path \in Picks
    BY DEF TypeOK, ReadOwner
  <2>2. ASSUME NEW target, FallBackTo(r.path, target, opens, pendingOpen)
        PROVE  TabsAgree'
    BY <2>1, <2>2, RemovalLeases
  <2>3. CASE watched' = watched \ {r.path} /\ UNCHANGED <<openPaths, life>>
    BY <1>S, <2>3
  <2> QED BY <1>13, <2>1, <2>2, <2>3, MissingAgrees
          DEF ReadFindsMissing, ReadFallbackResumes
<1>14. ASSUME NEW w, WriteEnds(w) PROVE TabsAgree'
  BY <1>14, <1>S DEF WriteEnds
<1>15. ASSUME NEW w, NEW dest, NEW replace, WriteNavigates(w, dest, replace)
       PROVE  TabsAgree'
  BY <1>15, <1>S DEF WriteNavigates
<1>16. ASSUME NEW l \in locates, LocateEnds(l) PROVE TabsAgree'
  BY <1>16, <1>S DEF LocateEnds
<1>17. ASSUME NEW l \in locates, NEW target \in Repos, LocateResumes(l, target)
       PROVE  TabsAgree'
  BY <1>17, LocateAgrees
<1>18. ASSUME NEW p \in Picks, StartLabel(p) PROVE TabsAgree'
  <2>1. p \in openPaths /\ life' = EnsureTabs(life, {p}) /\ UNCHANGED <<openPaths, watched>>
    BY <1>18 DEF StartLabel
  <2>2. Leased(life') \subseteq openPaths
    BY <1>T, <2>1, ArrivalLeases
  <2> QED BY <1>T, <2>1, <2>2 DEF TabsAgree, Leased
<1>19. ASSUME NEW b \in labels, LabelResumes(b) \/ LabelEnds(b) PROVE TabsAgree'
  BY <1>19, <1>S DEF LabelResumes, LabelEnds
<1>20. ASSUME NEW failed \in BOOLEAN, NEW exists \in SUBSET Repos,
              RestoreResumes(failed, exists)
       PROVE  TabsAgree'
  BY <1>20, RestoreAgrees
<1> QED
  BY <1>1, <1>2, <1>3, <1>4, <1>5, <1>6, <1>7, <1>8, <1>9, <1>10, <1>11, <1>12,
     <1>13, <1>14, <1>15, <1>16, <1>17, <1>18, <1>19, <1>20
  DEF Next, UserStep, SettleOpen

\* A launch leases exactly the stored strip and watches nothing.
LEMMA InitAgrees == Init => TabsAgree
<1> SUFFICES ASSUME Init PROVE TabsAgree
  OBVIOUS
<1>1. PICK launch \in Launches :
        /\ openPaths = launch.strip /\ watched = {}
        /\ life = EnsureTabs([of |-> NoOwners, next |-> 0], launch.strip)
  BY DEF Init
<1>2. /\ [of |-> NoOwners, next |-> 0] \in Lifetimes
      /\ Leased([of |-> NoOwners, next |-> 0]) = {}
  BY DEF Lifetimes, Owners, NoOwners, Leased
<1>3. \A lt \in Lifetimes : \A paths :
        Leased(EnsureTabs(lt, paths)) \subseteq Leased(lt) \cup paths
  BY DEF Leased, EnsureTabs, Lifetimes, Owners
<1> QED BY <1>1, <1>2, <1>3 DEF TabsAgree

\* A path without a tab has no live lease and is not watched, in every behaviour:
\* the agreement is inductive once the variables are typed.
THEOREM TabsAgreeAlways == Spec => []TabsOwnLeasesAndWatches
<1>1. TabsAgree => TabsOwnLeasesAndWatches
  BY DEF TabsAgree, Leased, TabsOwnLeasesAndWatches
<1> QED BY <1>1, InitAgrees, TypeCorrect, TabsStep, PTL DEF Spec

-----------------------------------------------------------------------------
(* The marker of the newest open.                                            *)

\* loadRepo puts its own marker up, and opens the request it belongs to.
LEMMA LoadRepoMarks ==
  ASSUME NEW path, NEW replace, NEW strip, NEW lt, NEW others,
         LoadRepo(path, replace, strip, lt, others)
  PROVE  PendingIsLatestOpen'
<1> DEFINE owned == EnsureTabs(lt, strip)
           open == [intent |-> openIntent + 1, path |-> path, replace |-> replace,
                    owners |-> [p \in Picks |-> IF p \in strip THEN owned.of[p] ELSE 0],
                    probing |-> FALSE]
<1>1. /\ openIntent' = openIntent + 1
      /\ pendingOpen' = Marker(open) /\ opens' = others \cup {open}
  BY DEF LoadRepo
<1>2. Marker(open).intent = openIntent + 1
  BY DEF Marker
<1> HIDE DEF open
<1>3. open \in opens' /\ pendingOpen'.intent = openIntent'
  BY <1>1, <1>2
<1>4. Marker(open) = pendingOpen'
  BY <1>1
<1> QED BY <1>3, <1>4 DEF PendingIsLatestOpen, Marker

\* A step that opens nothing leaves the marker to the newest open or takes it down.
LEMMA MarkerIsKept ==
  ASSUME PendingIsLatestOpen, openIntent' = openIntent,
         \/ pendingOpen' = NoMarker
         \/ pendingOpen' = pendingOpen /\ opens \subseteq opens'
         \/ \E o : pendingOpen' = Released(o) /\ opens' = opens \ {o}
  PROVE  PendingIsLatestOpen'
<1>1. CASE pendingOpen' = NoMarker
  BY <1>1 DEF PendingIsLatestOpen, NoMarker
<1>2. CASE pendingOpen' = pendingOpen /\ opens \subseteq opens'
  BY <1>2 DEF PendingIsLatestOpen, NoMarker, Marker
<1>3. ASSUME NEW o, pendingOpen' = Released(o), opens' = opens \ {o},
             pendingOpen' # NoMarker
      PROVE  PendingIsLatestOpen'
  <2>1. pendingOpen' = pendingOpen /\ pendingOpen.intent # o.intent
    BY <1>3 DEF Released
  <2>2. PICK q \in opens : Marker(q) = pendingOpen
    BY <1>3, <2>1 DEF PendingIsLatestOpen, NoMarker
  <2>3. q # o
    BY <2>1, <2>2 DEF Marker
  <2> QED BY <1>3, <2>1, <2>2, <2>3 DEF PendingIsLatestOpen, NoMarker, Marker
<1> QED BY <1>1, <1>2, <1>3

\* Every step leaves the marker with the newest open or takes it down.
THEOREM PendingStep == TypeOK /\ PendingIsLatestOpen /\ [Next]_vars => PendingIsLatestOpen'
<1> SUFFICES ASSUME TypeOK, PendingIsLatestOpen, [Next]_vars PROVE PendingIsLatestOpen'
  OBVIOUS
<1> DEFINE Fresh == \E path, replace, strip, lt, others :
                      LoadRepo(path, replace, strip, lt, others)
           Taken == openIntent' = openIntent /\ pendingOpen' = NoMarker
           Still == UNCHANGED <<openIntent, pendingOpen>> /\ opens \subseteq opens'
           Settled == /\ openIntent' = openIntent
                      /\ \E o : pendingOpen' = Released(o) /\ opens' = opens \ {o}
<1>A. Fresh \/ Taken \/ Still \/ Settled => PendingIsLatestOpen'
  BY LoadRepoMarks, MarkerIsKept
<1>1. CASE UNCHANGED vars
  BY <1>A, <1>1 DEF vars
<1>2. ASSUME NEW path, NEW replace, StartOpen(path, replace) PROVE Fresh
  BY <1>2 DEF StartOpen
<1>3. ASSUME CancelPendingOpen PROVE Taken
  BY <1>3 DEF CancelPendingOpen
<1>4. ASSUME NEW p, CloseMissing(p) \/ CloseBackground(p) \/ CloseActive(p)
      PROVE  Fresh \/ Taken \/ Still
  BY <1>4 DEF CloseMissing, CloseBackground, CloseActive, LandOn, PendingAfterClose
<1>5. ASSUME NEW stale, NEW explicit,
             StartWrite \/ StartRead \/ StartLocate(stale, explicit)
      PROVE  Still
  BY <1>5 DEF StartWrite, StartRead, StartLocate
<1>6. ASSUME NEW o \in opens, PublishSwitch(o) \/ OpenStandsDown(o)
      PROVE  Taken \/ Settled
  BY <1>6 DEF PublishSwitch, OpenStandsDown
<1>7. ASSUME NEW o \in opens, OpenFindsMissing(o) PROVE PendingIsLatestOpen'
  <2>1. ASSUME NEW target, FallBackTo(o.path, target, opens \ {o}, Released(o))
        PROVE  Fresh \/ Settled
    BY <2>1 DEF FallBackTo
  <2>2. CASE /\ opens' = (opens \ {o}) \cup {[o EXCEPT !.probing = TRUE]}
             /\ UNCHANGED <<openIntent, pendingOpen>>
    <3>1. Marker([o EXCEPT !.probing = TRUE]) = Marker(o)
      BY DEF Marker, TypeOK, Open
    <3>2. \A q \in opens : \E r \in opens' : Marker(r) = Marker(q)
      BY <2>2, <3>1
    <3> QED BY <2>2, <3>2 DEF PendingIsLatestOpen, NoMarker, Marker
  <2>3. CASE /\ EnterMissingState(o.path) \/ RetireDeadWorktreeTab(o.path)
             /\ pendingOpen' = Released(o) /\ opens' = opens \ {o}
    BY <1>A, <2>3 DEF EnterMissingState, RetireDeadWorktreeTab
  <2> HIDE DEF Fresh, Settled, Taken, Still
  <2> QED BY <1>7, <1>A, <2>1, <2>2, <2>3 DEF OpenFindsMissing
<1>8. ASSUME NEW o \in opens, OpenFallbackResumes(o) PROVE Fresh \/ Settled
  BY <1>8 DEF OpenFallbackResumes, FallBackTo
<1>9. ASSUME NEW r, ReadEnds(r) \/ ReadFindsMissing(r) \/ ReadFallbackResumes(r)
      PROVE  Fresh \/ Still
  BY <1>9 DEF ReadEnds, ReadFindsMissing, ReadFallbackResumes, EnterMissingState,
              FallBackTo
<1>10. ASSUME NEW w, NEW dest, NEW replace, WriteEnds(w) \/ WriteNavigates(w, dest, replace)
       PROVE  Fresh \/ Still
  BY <1>10 DEF WriteEnds, WriteNavigates
<1>11. ASSUME NEW l, NEW target, LocateEnds(l) \/ LocateResumes(l, target)
       PROVE  Fresh \/ Still
  BY <1>11 DEF LocateEnds, LocateResumes
<1>12. ASSUME NEW p, StartLabel(p) PROVE Still
  BY <1>12 DEF StartLabel
<1>13. ASSUME NEW b, LabelResumes(b) \/ LabelEnds(b) PROVE Still
  BY <1>13 DEF LabelResumes, LabelEnds
<1>14. ASSUME NEW failed, NEW exists, RestoreResumes(failed, exists) PROVE Fresh \/ Still
  BY <1>14 DEF RestoreResumes
<1> HIDE DEF Fresh, Taken, Still, Settled
<1> QED
  BY <1>A, <1>1, <1>2, <1>3, <1>4, <1>5, <1>6, <1>7, <1>8, <1>9, <1>10, <1>11,
     <1>12, <1>13, <1>14
  DEF Next, UserStep, SettleOpen

\* The spinner on a tab is never stranded on an open that has already returned, nor
\* on one that a newer pick has superseded.
THEOREM SpinnerHasAnOpen == Spec => []PendingIsLatestOpen
<1>1. Init => PendingIsLatestOpen
  BY DEF Init, PendingIsLatestOpen
<1> QED BY <1>1, TypeCorrect, PendingStep, PTL DEF Spec

-----------------------------------------------------------------------------
(* A stale request stays stale: every owner a request carries was minted      *)
(* before now, and what a step puts in the place of an owner is nothing or     *)
(* newer than all of them.                                                     *)

OpenMinted(o, intent, next) ==
  o.intent <= intent /\ \A p \in Picks : o.owners[p] <= next

OwnerMinted(w, session, intent) == w.session <= session /\ w.intent <= intent

\* Every owner in flight comes from a counter's past.
Minted ==
  /\ \A p \in Picks : life.of[p] <= life.next
  /\ \A o \in opens : OpenMinted(o, openIntent, life.next)
  /\ \A w \in reads \cup writes : OwnerMinted(w, publishedSession, openIntent)
  /\ \A b \in labels : b.lifetime \in 1 .. life.next

\* These lifetimes differ from the current ones by ended tabs and new IDs only.
Descends(lt) ==
  /\ lt \in Lifetimes
  /\ life.next <= lt.next
  /\ \A p \in Picks : /\ lt.of[p] <= lt.next
                      /\ lt.of[p] \in {life.of[p], 0} \/ life.next < lt.of[p]

\* What every step does to the owners: it keeps them, clears them, or moves past
\* all that were handed out.
Onward ==
  /\ openIntent <= openIntent' /\ publishedSession <= publishedSession'
  /\ Descends(life')
  /\ \A o \in opens' : OpenMinted(o, openIntent', life'.next)
  /\ pendingOpen' \in {pendingOpen, NoMarker} \/ openIntent < pendingOpen'.intent
  /\ summary' \in {summary, None} \/ publishedSession < publishedSession'

\* The requests a step starts carry owners that are already handed out.
Entries ==
  /\ \A w \in reads' \cup writes' : OwnerMinted(w, publishedSession, openIntent)
  /\ \A b \in labels' : b.lifetime \in 1 .. life'.next

-----------------------------------------------------------------------------
\* Lifetimes that descend from the current ones still do after another tab is
\* registered, begun or ended.
LEMMA DescentIsKept ==
  ASSUME TypeOK, NEW lt, Descends(lt), NEW paths, NEW p \in Picks
  PROVE  /\ Descends(EnsureTabs(lt, paths))
         /\ Descends(BeginTab(lt, p))
         /\ Descends(EndTab(lt, p))
<1>1. lt \in Lifetimes /\ life \in Lifetimes
  BY DEF Descends, TypeOK, Lifetimes
<1>2. Descends(EnsureTabs(lt, paths))
  <2>1. EnsureTabs(lt, paths) \in Lifetimes
    BY <1>1, LifetimeTypes
  <2> QED BY <1>1, <2>1 DEF Descends, EnsureTabs, Lifetimes, Owners
<1>3. Descends(BeginTab(lt, p))
  <2>1. BeginTab(lt, p) \in Lifetimes
    BY <1>1, LifetimeTypes
  <2> QED BY <1>1, <2>1 DEF Descends, BeginTab, Lifetimes, Owners
<1>4. Descends(EndTab(lt, p))
  <2>1. EndTab(lt, p) \in Lifetimes
    BY <1>1, LifetimeTypes
  <2> QED BY <1>1, <2>1 DEF Descends, EndTab, Lifetimes, Owners
<1> QED BY <1>2, <1>3, <1>4

\* The current lifetimes, and those with one tab ended, descend from themselves.
LEMMA DescentBegins ==
  ASSUME TypeOK, Minted
  PROVE  Descends(life) /\ \A p \in Picks : Descends(EndTab(life, p))
<1>1. Descends(life)
  BY DEF Descends, Minted, TypeOK, Lifetimes, Owners
<1> QED BY <1>1, DescentIsKept

\* loadRepo moves the intent, its marker and its leases past all that were handed out.
LEMMA LoadRepoMints ==
  ASSUME TypeOK, Minted, NEW path, NEW replace, NEW strip, NEW lt, Descends(lt),
         NEW others \in SUBSET opens, LoadRepo(path, replace, strip, lt, others),
         publishedSession <= publishedSession',
         summary' \in {summary, None} \/ publishedSession < publishedSession'
  PROVE  Onward
<1> DEFINE owned == EnsureTabs(lt, strip)
           open == [intent |-> openIntent + 1, path |-> path, replace |-> replace,
                    owners |-> [p \in Picks |-> IF p \in strip THEN owned.of[p] ELSE 0],
                    probing |-> FALSE]
<1>1. /\ openIntent' = openIntent + 1 /\ life' = owned
      /\ pendingOpen' = Marker(open) /\ opens' = others \cup {open}
  BY DEF LoadRepo
<1>2. Descends(owned)
  <2>1. lt \in Lifetimes /\ life \in Lifetimes /\ owned \in Lifetimes
    BY LifetimeTypes DEF Descends, TypeOK, Lifetimes, Owners, EnsureTabs
  <2> QED BY <2>1 DEF Descends, EnsureTabs, Lifetimes, Owners
<1>3. openIntent \in Nat /\ life.next \in Nat /\ opens \subseteq Open
  BY DEF TypeOK
<1> HIDE DEF owned
<1>4. OpenMinted(open, openIntent', owned.next)
  BY <1>1, <1>2, <1>3 DEF OpenMinted, Descends, Lifetimes, Owners
<1>5. ASSUME NEW o \in others PROVE OpenMinted(o, openIntent', owned.next)
  <2>1. /\ o.intent \in Nat /\ o.owners \in Owners /\ owned.next \in Nat
        /\ life.next <= owned.next
    BY <1>2, <1>3 DEF Open, Descends, Lifetimes
  <2>2. OpenMinted(o, openIntent, life.next)
    BY DEF Minted
  <2> QED BY <1>1, <1>3, <2>1, <2>2 DEF OpenMinted, Owners
<1>6. openIntent < pendingOpen'.intent
  BY <1>1, <1>3 DEF Marker
<1> HIDE DEF open
<1> QED BY <1>1, <1>2, <1>3, <1>4, <1>5, <1>6 DEF Onward

\* A step that opens nothing: some opens may leave, the marker may go.
LEMMA QuietStep ==
  ASSUME TypeOK, Minted, openIntent' = openIntent, Descends(life'),
         \A o \in opens' : \E q \in opens : o.intent = q.intent /\ o.owners = q.owners,
         pendingOpen' \in {pendingOpen, NoMarker},
         publishedSession <= publishedSession',
         summary' \in {summary, None} \/ publishedSession < publishedSession'
  PROVE  Onward
<1>1. openIntent \in Nat /\ life.next \in Nat /\ opens \subseteq Open
  BY DEF TypeOK
<1>2. ASSUME NEW o \in opens' PROVE OpenMinted(o, openIntent', life'.next)
  <2>1. PICK q \in opens : o.intent = q.intent /\ o.owners = q.owners
    OBVIOUS
  <2>2. q.owners \in Owners /\ life'.next \in Nat /\ life.next <= life'.next
    BY <1>1 DEF Open, Descends, Lifetimes
  <2>3. OpenMinted(q, openIntent, life.next)
    BY DEF Minted
  <2> QED BY <1>1, <2>1, <2>2, <2>3 DEF OpenMinted, Owners
<1> QED BY <1>1, <1>2 DEF Onward

\* A removed tab's neighbour or a dead worktree's fallback is opened, or nothing is.
LEMMA RemovalMints ==
  ASSUME TypeOK, Minted, NEW p \in Picks,
         publishedSession <= publishedSession',
         summary' \in {summary, None}
  PROVE  /\ \A next, strip : LandOn(next, p, strip) => Onward
         /\ \A next : \A others \in SUBSET opens, marker \in {pendingOpen, NoMarker} :
              FallBackTo(p, next, others, marker) => Onward
<1>1. Descends(EndTab(life, p))
  BY DescentBegins
<1>2. ASSUME NEW next, NEW strip, LandOn(next, p, strip) PROVE Onward
  <2>1. CASE LoadRepo(next, None, strip, EndTab(life, p), opens)
    BY <1>1, <2>1, LoadRepoMints
  <2>2. CASE /\ life' = EndTab(life, p) /\ pendingOpen' = PendingAfterClose(p)
             /\ UNCHANGED <<openIntent, opens>>
    <3>1. pendingOpen' \in {pendingOpen, NoMarker}
      BY <2>2 DEF PendingAfterClose
    <3> QED BY <1>1, <2>2, <3>1, QuietStep
  <2> QED BY <1>2, <2>1, <2>2 DEF LandOn
<1>3. ASSUME NEW next, NEW others \in SUBSET opens,
             NEW marker \in {pendingOpen, NoMarker},
             FallBackTo(p, next, others, marker)
      PROVE  Onward
  <2>1. CASE LoadRepo(next, None, openPaths \ {p}, EndTab(life, p), others)
    BY <1>1, <2>1, LoadRepoMints
  <2>2. CASE /\ life' = EndTab(life, p) /\ pendingOpen' = marker
             /\ opens' = others /\ UNCHANGED openIntent
    BY <1>1, <2>2, QuietStep
  <2> QED BY <1>3, <2>1, <2>2 DEF FallBackTo
<1> QED BY <1>2, <1>3

\* Phase 2 of loadRepo leases the tab it lands in with a new ID and publishes a new
\* session.
LEMMA PublishMints ==
  ASSUME TypeOK, Minted, NEW o \in opens, PublishSwitch(o)
  PROVE  Onward
<1> DEFINE dest == Canon[o.path]
           ended == IF /\ dest \notin openPaths
                       /\ o.replace \in openPaths
                       /\ o.owners[o.replace] # 0
                    THEN EndTab(life, o.replace) ELSE life
<1>1. life' = IF dest \in openPaths THEN EnsureTabs(ended, {dest})
              ELSE BeginTab(ended, dest)
  BY DEF PublishSwitch
<1>2. dest \in Picks /\ (o.replace \in openPaths => o.replace \in Picks)
  BY OpenTypes DEF TypeOK
<1>3. Descends(ended)
  BY <1>2, DescentBegins
<1> HIDE DEF ended, dest
<1>4. Descends(life')
  BY <1>1, <1>2, <1>3, DescentIsKept
<1>5. /\ openIntent' = openIntent /\ pendingOpen' = NoMarker /\ opens' = opens \ {o}
      /\ publishedSession' = publishedSession + 1 /\ publishedSession \in Nat
  BY DEF PublishSwitch, TypeOK
<1> QED BY <1>4, <1>5, QuietStep

\* The recovery screen of a gone path has a tab with a new lease or an old one; a
\* gone worktree's tab takes its lease along.
LEMMA MissingMints ==
  ASSUME TypeOK, Minted, NEW p \in Picks,
         EnterMissingState(p) \/ RetireDeadWorktreeTab(p)
  PROVE  /\ Descends(life') /\ openIntent' = openIntent
         /\ publishedSession <= publishedSession'
         /\ summary' \in {summary, None}
<1>1. publishedSession \in Nat
  BY DEF TypeOK
<1>2. CASE EnterMissingState(p)
  <2>1. Descends(EnsureTabs(life, {p})) /\ Descends(BeginTab(life, p))
    BY DescentBegins, DescentIsKept
  <2> QED BY <1>1, <1>2, <2>1 DEF EnterMissingState
<1>3. CASE RetireDeadWorktreeTab(p)
  <2>1. Descends(EndTab(life, p)) /\ Descends(life)
    BY DescentBegins
  <2> QED BY <1>1, <1>3, <2>1 DEF RetireDeadWorktreeTab
<1> QED BY <1>2, <1>3

\* Locate... gives the re-keyed tab a new ID.
LEMMA LocateMints ==
  ASSUME TypeOK, Minted, NEW l \in locates, NEW target \in Repos,
         LocateResumes(l, target)
  PROVE  Onward
<1>1. target \in Picks /\ l.stale \in Picks /\ publishedSession \in Nat
  BY ReposArePicks DEF TypeOK
<1>2. Descends(life) /\ Descends(ReKeyedLife(l.stale, target))
  <2>1. Descends(life) /\ Descends(EndTab(life, l.stale))
    BY <1>1, DescentBegins
  <2> QED BY <1>1, <2>1, DescentIsKept DEF ReKeyedLife
<1>3. \E strip : \/ LoadRepo(target, None, strip, ReKeyedLife(l.stale, target), opens)
                 \/ LoadRepo(target, None, strip, life, opens)
  BY DEF LocateResumes
<1>4. summary' = summary /\ publishedSession' = publishedSession
  BY DEF LocateResumes
<1> QED BY <1>1, <1>2, <1>3, <1>4, LoadRepoMints

\* The startup restore clears the leases of the tabs it prunes.
LEMMA RestoreMints ==
  ASSUME TypeOK, Minted, NEW failed \in BOOLEAN, NEW exists \in SUBSET Repos,
         RestoreResumes(failed, exists)
  PROVE  Onward
<1> DEFINE pruned == RestorePruned(failed, exists)
           ended == [life EXCEPT !.of = [p \in Picks |-> IF p \in pruned THEN 0 ELSE @[p]]]
<1>1. \E target : \/ LoadRepo(target, None, openPaths \ pruned, ended, opens)
                  \/ life' = ended /\ UNCHANGED <<openIntent, pendingOpen, opens>>
  BY DEF RestoreResumes
<1>2. /\ summary' = summary /\ publishedSession' = publishedSession
      /\ publishedSession \in Nat
  BY DEF RestoreResumes, TypeOK
<1> HIDE DEF pruned
<1>3. Descends(ended)
  <2>1. life \in Lifetimes
    BY DEF TypeOK, Lifetimes
  <2>2. ended.of = [p \in Picks |-> IF p \in pruned THEN 0 ELSE life.of[p]]
        /\ ended.next = life.next /\ ended \in Lifetimes
    BY <2>1 DEF Lifetimes, Owners
  <2> HIDE DEF ended
  <2>3. Descends(life)
    BY DescentBegins
  <2> QED BY <2>1, <2>2, <2>3 DEF Descends, Lifetimes, Owners
<1> HIDE DEF ended
<1> QED BY <1>1, <1>2, <1>3, LoadRepoMints, QuietStep

-----------------------------------------------------------------------------
\* One case per action: what it leaves, and what it starts.
LEMMA OnwardStep ==
  ASSUME TypeOK, Minted, [Next]_vars
  PROVE  Onward /\ Entries
<1> USE DEF shownVars
<1>T. /\ publishedSession \in Nat /\ openIntent \in Nat /\ life.next \in Nat
      /\ \A b \in labels : b.lifetime \in Nat
      /\ Descends(life)
  BY DescentBegins DEF TypeOK
<1>E. ASSUME Onward, reads' \subseteq reads, writes' \subseteq writes,
             labels' \subseteq labels
      PROVE  Onward /\ Entries
  <2>1. life'.next \in Nat /\ life.next <= life'.next
    BY <1>E DEF Onward, Descends, Lifetimes
  <2>2. \A b \in labels : b.lifetime \in 1 .. life'.next
    BY <1>T, <2>1 DEF Minted
  <2> QED BY <1>E, <2>2 DEF Entries, Minted
<1>S. ASSUME UNCHANGED <<life, openIntent>>, opens' \subseteq opens,
             pendingOpen' \in {pendingOpen, NoMarker},
             UNCHANGED <<summary, publishedSession>>
      PROVE  Onward
  <2>1. Descends(life')
    BY <1>T, <1>S
  <2>2. \A o \in opens' : \E q \in opens : o.intent = q.intent /\ o.owners = q.owners
    BY <1>S
  <2>3. publishedSession <= publishedSession' /\ summary' \in {summary, None}
    BY <1>T, <1>S
  <2> QED BY <1>S, <2>1, <2>2, <2>3, QuietStep
<1>L. ASSUME NEW path, NEW replace, LoadRepo(path, replace, openPaths, life, opens),
             UNCHANGED <<summary, publishedSession>>
      PROVE  Onward
  <2>1. publishedSession <= publishedSession' /\ summary' \in {summary, None}
    BY <1>T, <1>L
  <2> QED BY <1>L, <1>T, <2>1, LoadRepoMints
<1>1. CASE UNCHANGED vars
  BY <1>1, <1>E, <1>S DEF vars
<1>2. ASSUME NEW path, NEW replace, StartOpen(path, replace) PROVE Onward /\ Entries
  <2>1. Onward
    BY <1>2, <1>L DEF StartOpen
  <2> QED BY <1>2, <1>E, <2>1 DEF StartOpen, asyncVars
<1>3. ASSUME CancelPendingOpen PROVE Onward /\ Entries
  BY <1>3, <1>E, <1>S DEF CancelPendingOpen, asyncVars
<1>4. ASSUME NEW p \in Picks, CloseMissing(p) \/ CloseActive(p) PROVE Onward /\ Entries
  <2>1. /\ \E next, strip : LandOn(next, p, strip)
        /\ publishedSession <= publishedSession' /\ summary' \in {summary, None}
    BY <1>4, <1>T DEF CloseMissing, CloseActive
  <2>2. Onward
    BY <2>1, RemovalMints
  <2> QED BY <1>4, <1>E, <2>2 DEF CloseMissing, CloseActive, CloseTab, asyncVars
<1>5. ASSUME NEW p \in Picks, CloseBackground(p) PROVE Onward /\ Entries
  <2>1. /\ Descends(life') /\ pendingOpen' \in {pendingOpen, NoMarker}
        /\ UNCHANGED <<openIntent, opens, summary, publishedSession>>
    BY <1>5, DescentBegins DEF CloseBackground, PendingAfterClose
  <2>2. Onward
    BY <1>T, <2>1, QuietStep
  <2> QED BY <1>5, <1>E, <2>2 DEF CloseBackground, CloseTab, asyncVars
<1>6. ASSUME StartWrite PROVE Onward /\ Entries
  <2>1. /\ reads' = reads /\ labels' = labels
        /\ writes' = writes \cup {[path |-> summary, session |-> publishedSession,
                                   intent |-> openIntent]}
    BY <1>6 DEF StartWrite
  <2>2. Onward
    BY <1>6, <1>S DEF StartWrite
  <2> QED BY <1>6, <1>T, <2>1, <2>2 DEF StartWrite, Entries, Minted, OwnerMinted
<1>7. ASSUME NEW stale, NEW explicit, StartLocate(stale, explicit)
      PROVE  Onward /\ Entries
  BY <1>7, <1>E, <1>S DEF StartLocate
<1>8. ASSUME NEW o \in opens, PublishSwitch(o) PROVE Onward /\ Entries
  <2>1. Onward
    BY <1>8, PublishMints
  <2> QED BY <1>8, <1>E, <2>1 DEF PublishSwitch
<1>9. ASSUME NEW o \in opens, OpenStandsDown(o) PROVE Onward /\ Entries
  BY <1>9, <1>E, <1>S DEF OpenStandsDown, Released, asyncVars
<1>10. ASSUME NEW o \in opens, OpenFindsMissing(o) PROVE Onward /\ Entries
  <2>1. o.path \in Picks /\ Released(o) \in {pendingOpen, NoMarker}
    BY DEF TypeOK, Open, Released
  <2>2. ASSUME /\ EnterMissingState(o.path) \/ RetireDeadWorktreeTab(o.path)
               /\ pendingOpen' = Released(o) /\ opens' = opens \ {o}
       PROVE  Onward
    BY <2>1, <2>2, MissingMints, QuietStep
  <2>3. ASSUME NEW target, FallBackTo(o.path, target, opens \ {o}, Released(o))
       PROVE  Onward
    <3>1. publishedSession <= publishedSession' /\ summary' \in {summary, None}
      BY <1>T, <2>3 DEF FallBackTo
    <3>2. opens \ {o} \in SUBSET opens /\ Released(o) \in {pendingOpen, NoMarker}
      BY <2>1
    <3>3. \A next : \A others \in SUBSET opens, marker \in {pendingOpen, NoMarker} :
            FallBackTo(o.path, next, others, marker) => Onward
      BY <2>1, <3>1, RemovalMints
    <3> QED BY <2>3, <3>2, <3>3
  <2>4. ASSUME /\ opens' = (opens \ {o}) \cup {[o EXCEPT !.probing = TRUE]}
               /\ UNCHANGED <<openPaths, worktreeTabs, life, openIntent, pendingOpen,
                              shownVars>>
       PROVE  Onward
    <3>1. o \in Open
      BY DEF TypeOK
    <3>2. [o EXCEPT !.probing = TRUE].intent = o.intent
          /\ [o EXCEPT !.probing = TRUE].owners = o.owners
      BY <3>1 DEF Open
    <3>3. \A q \in opens' : \E q0 \in opens : q.intent = q0.intent /\ q.owners = q0.owners
      BY <2>4, <3>2
    <3>4. /\ Descends(life') /\ openIntent' = openIntent
          /\ pendingOpen' \in {pendingOpen, NoMarker}
          /\ publishedSession <= publishedSession' /\ summary' \in {summary, None}
      BY <1>T, <2>4
    <3> QED BY <3>3, <3>4, QuietStep
  <2>5. Onward
    BY <1>10, <2>2, <2>3, <2>4 DEF OpenFindsMissing
  <2> QED BY <1>10, <1>E, <2>5 DEF OpenFindsMissing, asyncVars
<1>11. ASSUME NEW o \in opens, OpenFallbackResumes(o) PROVE Onward /\ Entries
  <2>1. o.path \in Picks /\ Released(o) \in {pendingOpen, NoMarker}
    BY DEF TypeOK, Open, Released
  <2>2. ASSUME NEW target, FallBackTo(o.path, target, opens \ {o}, Released(o))
       PROVE  Onward
    <3>1. publishedSession <= publishedSession' /\ summary' \in {summary, None}
      BY <1>T, <2>2 DEF FallBackTo
    <3>2. opens \ {o} \in SUBSET opens /\ Released(o) \in {pendingOpen, NoMarker}
      BY <2>1
    <3>3. \A next : \A others \in SUBSET opens, marker \in {pendingOpen, NoMarker} :
            FallBackTo(o.path, next, others, marker) => Onward
      BY <2>1, <3>1, RemovalMints
    <3> QED BY <2>2, <3>2, <3>3
  <2>3. ASSUME /\ pendingOpen' = Released(o) /\ opens' = opens \ {o}
               /\ UNCHANGED <<openPaths, worktreeTabs, life, openIntent, shownVars>>
       PROVE  Onward
    BY <1>S, <2>1, <2>3
  <2>4. Onward
    BY <1>11, <2>2, <2>3 DEF OpenFallbackResumes
  <2> QED BY <1>11, <1>E, <2>4 DEF OpenFallbackResumes, asyncVars
<1>12. ASSUME StartRead PROVE Onward /\ Entries
  <2>1. /\ writes' = writes /\ labels' = labels
        /\ reads' = reads \cup {[path |-> summary, session |-> publishedSession,
                                 intent |-> openIntent, probing |-> FALSE]}
    BY <1>12 DEF StartRead
  <2>2. Onward
    BY <1>12, <1>S DEF StartRead
  <2> QED BY <1>12, <1>T, <2>1, <2>2 DEF StartRead, Entries, Minted, OwnerMinted
<1>13. ASSUME NEW r \in reads, ReadEnds(r) PROVE Onward /\ Entries
  BY <1>13, <1>E, <1>S DEF ReadEnds
<1>14. ASSUME NEW r \in reads, ReadFindsMissing(r) \/ ReadFallbackResumes(r)
       PROVE  Onward /\ Entries
  <2>1. r.path \in Picks /\ r \in ReadOwner
    BY DEF TypeOK, ReadOwner
  <2>2. ASSUME EnterMissingState(r.path) /\ UNCHANGED <<pendingOpen, opens>>
       PROVE  Onward
    BY <2>1, <2>2, MissingMints, QuietStep
  <2>3. ASSUME NEW target, FallBackTo(r.path, target, opens, pendingOpen)
       PROVE  Onward
    <3>1. publishedSession <= publishedSession' /\ summary' \in {summary, None}
      BY <1>T, <2>3 DEF FallBackTo
    <3>2. opens \in SUBSET opens /\ pendingOpen \in {pendingOpen, NoMarker}
      BY <2>1
    <3>3. \A next : \A others \in SUBSET opens, marker \in {pendingOpen, NoMarker} :
            FallBackTo(r.path, next, others, marker) => Onward
      BY <2>1, <3>1, RemovalMints
    <3> QED BY <2>3, <3>2, <3>3
  <2>4. ASSUME UNCHANGED <<openPaths, worktreeTabs, life, openIntent, pendingOpen,
                           shownVars, opens>>
       PROVE  Onward
    BY <1>S, <2>4
  <2>5. Onward
    BY <1>14, <2>2, <2>3, <2>4 DEF ReadFindsMissing, ReadFallbackResumes
  <2>6. /\ writes' = writes /\ labels' = labels
        /\ \/ reads' = reads \ {r}
           \/ reads' = (reads \ {r}) \cup {[r EXCEPT !.probing = TRUE]}
    BY <1>14 DEF ReadFindsMissing, ReadFallbackResumes
  <2>7. CASE reads' = reads \ {r}
    BY <1>E, <2>5, <2>6, <2>7
  <2>8. CASE reads' = (reads \ {r}) \cup {[r EXCEPT !.probing = TRUE]}
    <3>1. OwnerMinted([r EXCEPT !.probing = TRUE], publishedSession, openIntent)
      BY <2>1 DEF Minted, OwnerMinted, ReadOwner
    <3>2. life'.next \in Nat /\ life.next <= life'.next
      BY <2>5 DEF Onward, Descends, Lifetimes
    <3>3. \A b \in labels' : b.lifetime \in 1 .. life'.next
      BY <1>T, <2>6, <3>2 DEF Minted
    <3> QED BY <2>5, <2>6, <2>8, <3>1, <3>3 DEF Entries, Minted
  <2> QED BY <2>6, <2>7, <2>8
<1>15. ASSUME NEW w, WriteEnds(w) PROVE Onward /\ Entries
  BY <1>15, <1>E, <1>S DEF WriteEnds
<1>16. ASSUME NEW w, NEW dest, NEW replace, WriteNavigates(w, dest, replace)
       PROVE  Onward /\ Entries
  <2>1. Onward
    BY <1>16, <1>L DEF WriteNavigates
  <2> QED BY <1>16, <1>E, <2>1 DEF WriteNavigates
<1>17. ASSUME NEW l \in locates, LocateEnds(l) PROVE Onward /\ Entries
  BY <1>17, <1>E, <1>S DEF LocateEnds
<1>18. ASSUME NEW l \in locates, NEW target \in Repos, LocateResumes(l, target)
       PROVE  Onward /\ Entries
  <2>1. Onward
    BY <1>18, LocateMints
  <2> QED BY <1>18, <1>E, <2>1 DEF LocateResumes
<1>19. ASSUME NEW p \in Picks, StartLabel(p) PROVE Onward /\ Entries
  <2>1. /\ life' = EnsureTabs(life, {p}) /\ reads' = reads /\ writes' = writes
        /\ labels' = labels \cup {[path |-> p, lifetime |-> life'.of[p]]}
    BY <1>19 DEF StartLabel
  <2>2. Descends(life')
    BY <1>T, <2>1, DescentIsKept
  <2>3. Onward
    BY <1>19, <1>T, <2>2, QuietStep DEF StartLabel
  <2>4. life'.of[p] \in 1 .. life'.next
    <3>1. life'.of[p] # 0
      BY <1>T, <2>1 DEF EnsureTabs, TypeOK, Owners
    <3> QED BY <2>2, <3>1 DEF Descends, Lifetimes, Owners
  <2>5. \A b \in labels : b.lifetime \in 1 .. life'.next
    <3>1. life'.next \in Nat /\ life.next <= life'.next
      BY <2>2 DEF Descends, Lifetimes
    <3> QED BY <1>T, <3>1 DEF Minted
  <2>6. \A b \in labels' : b.lifetime \in 1 .. life'.next
    <3>1. [path |-> p, lifetime |-> life'.of[p]].lifetime = life'.of[p]
      OBVIOUS
    <3> QED BY <2>1, <2>4, <2>5, <3>1
  <2>7. \A w \in reads' \cup writes' : OwnerMinted(w, publishedSession, openIntent)
    BY <2>1 DEF Minted
  <2> QED BY <2>3, <2>6, <2>7 DEF Entries
<1>20. ASSUME NEW b \in labels, LabelResumes(b) \/ LabelEnds(b) PROVE Onward /\ Entries
  BY <1>20, <1>E, <1>S DEF LabelResumes, LabelEnds
<1>21. ASSUME NEW failed \in BOOLEAN, NEW exists \in SUBSET Repos,
              RestoreResumes(failed, exists)
       PROVE  Onward /\ Entries
  <2>1. Onward
    BY <1>21, RestoreMints
  <2> QED BY <1>21, <1>E, <2>1 DEF RestoreResumes
<1> QED
  BY <1>1, <1>2, <1>3, <1>4, <1>5, <1>6, <1>7, <1>8, <1>9, <1>10, <1>11, <1>12,
     <1>13, <1>14, <1>15, <1>16, <1>17, <1>18, <1>19, <1>20, <1>21
  DEF Next, UserStep, SettleOpen

-----------------------------------------------------------------------------
(* From the steps to the behaviours.                                         *)

\* Keeping, clearing or moving past the owners leaves every request in flight with
\* owners from a counter's past.
LEMMA MintedStep ==
  ASSUME TypeOK, TypeOK', Minted, [Next]_vars
  PROVE  Minted'
<1>1. Onward /\ Entries
  BY OnwardStep
<1>2. \A p \in Picks : life'.of[p] <= life'.next
  BY <1>1 DEF Onward, Descends
<1>3. \A o \in opens' : OpenMinted(o, openIntent', life'.next)
  BY <1>1 DEF Onward
<1>4. ASSUME NEW w \in reads' \cup writes'
      PROVE  OwnerMinted(w, publishedSession', openIntent')
  <2>1. /\ w.session \in Nat /\ w.intent \in Nat
        /\ {openIntent, openIntent', publishedSession, publishedSession'} \subseteq Nat
    BY DEF TypeOK, ReadOwner, WriteOwner
  <2>2. OwnerMinted(w, publishedSession, openIntent)
    BY <1>1 DEF Entries
  <2> QED BY <1>1, <2>1, <2>2 DEF Onward, OwnerMinted
<1>5. \A b \in labels' : b.lifetime \in 1 .. life'.next
  BY <1>1 DEF Entries
<1> QED BY <1>2, <1>3, <1>4, <1>5 DEF Minted, OpenMinted, OwnerMinted

\* What the ownership theorems rest on holds in every behaviour.
OwnersInv == TypeOK /\ TabsAgree /\ Minted

\* At launch every stored tab has its first lease and nothing is in flight.
LEMMA InitOwned == Init => OwnersInv
<1> SUFFICES ASSUME Init PROVE OwnersInv
  OBVIOUS
<1>1. TypeOK /\ TabsAgree
  BY InitTyped, InitAgrees
<1>2. PICK launch \in Launches :
        life = EnsureTabs([of |-> NoOwners, next |-> 0], launch.strip)
  BY DEF Init
<1>3. \A p \in Picks : life.of[p] <= life.next
  BY <1>2 DEF EnsureTabs, NoOwners
<1>4. opens = {} /\ reads = {} /\ writes = {} /\ labels = {}
  BY DEF Init
<1> QED BY <1>1, <1>3, <1>4 DEF OwnersInv, Minted

\* The variables are typed, strip, leases and watches agree, and every owner in
\* flight was minted, in every behaviour.
THEOREM OwnersAlways == Spec => []OwnersInv
<1>1. Init => OwnersInv
  BY InitOwned
<1>2. OwnersInv /\ [Next]_vars => OwnersInv'
  BY StepTyped, TabsStep, MintedStep DEF OwnersInv
<1> QED BY <1>1, <1>2, PTL DEF Spec

\* A captured tab owner that no longer names the live tab never does again: the
\* tab is gone, or its lease is another and later ones are newer still.
LEMMA LostTabStaysLost ==
  ASSUME OwnersInv, OwnersInv', Onward, NEW p \in Picks, NEW lease \in Nat, lease # 0,
         lease <= life.next, ~(life.of[p] = lease /\ p \in openPaths)
  PROVE  ~(life'.of[p] = lease /\ p \in openPaths')
<1>1. life.of[p] # lease
  BY DEF OwnersInv, TabsAgree, Leased
<1>2. life \in Lifetimes /\ Descends(life')
  BY DEF OwnersInv, TypeOK, Lifetimes, Onward
<1> QED BY <1>1, <1>2 DEF Descends, Lifetimes, Owners

\* An open that has lost its claim, its marker, its tab, the tab it replaces or the
\* tab it would land in publishes nothing from then on.
THEOREM OpensStandDownForGood == Spec => StandDownIsFinal
<1>1. ASSUME OwnersInv, OwnersInv', [Next]_vars, NEW o \in opens, o \in opens',
             ~Landable(o)
      PROVE  ~Landable(o)'
  <2>1. Onward
    BY <1>1, OnwardStep DEF OwnersInv
  <2>2. /\ o \in Open /\ o.intent \in Nat \ {0} /\ o.path \in Picks
        /\ o.owners \in Owners /\ Canon[o.path] \in Picks
        /\ o.replace # None => o.replace \in Picks
        /\ openIntent \in Nat /\ openIntent' \in Nat
        /\ pendingOpen.intent \in Nat /\ life.next \in Nat
        /\ pendingOpen'.intent \in Nat
    BY <1>1, PathsAssumption DEF OwnersInv, TypeOK, Open, PathOrNone
  <2>3. o.intent <= openIntent /\ \A p \in Picks : o.owners[p] <= life.next
    BY <1>1 DEF OwnersInv, Minted, OpenMinted
  <2>4. ASSUME NEW p \in Picks, ~TabOwnerIsCurrent(o.owners, p)
        PROVE  ~TabOwnerIsCurrent(o.owners, p)'
    <3>1. o.owners[p] \in Nat /\ o.owners[p] # 0
          /\ ~(life.of[p] = o.owners[p] /\ p \in openPaths)
      BY <2>2, <2>4 DEF TabOwnerIsCurrent, Owners
    <3>2. ~(life'.of[p] = o.owners[p] /\ p \in openPaths')
      BY <1>1, <2>1, <2>3, <3>1, LostTabStaysLost
    <3> QED BY <3>1, <3>2 DEF TabOwnerIsCurrent
  <2>5. CASE o.intent # openIntent
    <3>1. o.intent # openIntent'
      BY <2>1, <2>2, <2>3, <2>5 DEF Onward
    <3> QED BY <3>1 DEF Landable, OpenOwnerIsCurrent
  <2>6. CASE pendingOpen.intent # o.intent
    <3>1. pendingOpen'.intent # o.intent
      BY <2>1, <2>2, <2>3, <2>6 DEF Onward, NoMarker
    <3> QED BY <3>1 DEF Landable, OpenOwnerIsCurrent
  <2>7. CASE o.replace # None /\ ~TabOwnerIsCurrent(o.owners, o.replace)
    BY <2>2, <2>4, <2>7 DEF Landable, OpenOwnerIsCurrent
  <2>8. CASE ~TabOwnerIsCurrent(o.owners, o.path)
             \/ ~TabOwnerIsCurrent(o.owners, Canon[o.path])
    BY <2>2, <2>4, <2>8 DEF Landable, OpenOwnerIsCurrent
  <2> QED BY <1>1, <2>5, <2>6, <2>7, <2>8 DEF Landable, OpenOwnerIsCurrent
<1>2. OwnersInv /\ OwnersInv' /\ [Next]_vars =>
        [\A o \in opens : o \in opens' /\ ~Landable(o) => ~Landable(o)']_vars
  BY <1>1
<1> QED BY <1>2, OwnersAlways, PTL DEF Spec, StandDownIsFinal

\* A read, a write or a label probe whose repository was closed, or left and opened
\* again under the same path, never regains the right to move the screen.
THEOREM StaleForGood == Spec => StaleOwnersStayStale
<1>1. ASSUME OwnersInv, OwnersInv', [Next]_vars, NEW w \in reads \cup writes,
             ~OwnerMayNavigate(w)
      PROVE  ~OwnerMayNavigate(w)'
  <2>1. Onward
    BY <1>1, OnwardStep DEF OwnersInv
  <2>2. /\ w.path \in Picks /\ w.session \in Nat /\ w.intent \in Nat
        /\ {openIntent, openIntent', publishedSession, publishedSession'} \subseteq Nat
        /\ None \notin Picks
    BY <1>1, PathsAssumption DEF OwnersInv, TypeOK, ReadOwner, WriteOwner
  <2>3. w.session <= publishedSession /\ w.intent <= openIntent
    BY <1>1 DEF OwnersInv, Minted, OwnerMinted
  <2>4. CASE w.intent # openIntent \/ w.session # publishedSession
    <3>1. w.intent # openIntent' \/ w.session # publishedSession'
      BY <2>1, <2>2, <2>3, <2>4 DEF Onward
    <3> QED BY <3>1 DEF OwnerMayNavigate, OwnerIsCurrent
  <2>5. CASE w.session = publishedSession /\ summary # w.path
    <3>1. summary' # w.path \/ w.session # publishedSession'
      BY <2>1, <2>2, <2>5 DEF Onward
    <3> QED BY <3>1 DEF OwnerMayNavigate, OwnerIsCurrent
  <2> QED BY <1>1, <2>4, <2>5 DEF OwnerMayNavigate, OwnerIsCurrent
<1>2. ASSUME OwnersInv, OwnersInv', [Next]_vars, NEW b \in labels, ~LabelIsCurrent(b)
      PROVE  ~LabelIsCurrent(b)'
  <2>1. Onward
    BY <1>2, OnwardStep DEF OwnersInv
  <2>2. b.path \in Picks /\ b.lifetime \in Nat /\ life.next \in Nat
    BY <1>2 DEF OwnersInv, TypeOK
  <2>3. b.lifetime # 0 /\ b.lifetime <= life.next
    BY <1>2, <2>2 DEF OwnersInv, Minted
  <2>4. ~(life.of[b.path] = b.lifetime /\ b.path \in openPaths)
    BY <1>2 DEF LabelIsCurrent
  <2>5. ~(life'.of[b.path] = b.lifetime /\ b.path \in openPaths')
    BY <1>2, <2>1, <2>2, <2>3, <2>4, LostTabStaysLost
  <2> QED BY <2>5 DEF LabelIsCurrent
<1>3. OwnersInv /\ OwnersInv' /\ [Next]_vars =>
        [/\ \A r \in reads : ~OwnerMayNavigate(r) => ~OwnerMayNavigate(r)'
         /\ \A w \in writes : ~OwnerMayNavigate(w) => ~OwnerMayNavigate(w)'
         /\ \A b \in labels : ~LabelIsCurrent(b) => ~LabelIsCurrent(b)']_vars
  BY <1>1, <1>2
<1> QED BY <1>3, OwnersAlways, PTL DEF Spec, StaleOwnersStayStale

\* A step that puts a tab into the strip and ends an open ends one that never held a
\* lease on that tab: its landing check asked for the lease of a tab not yet closed.
LEMMA NewTabStep ==
  ASSUME [Next]_vars, NEW p \in openPaths' \ openPaths, NEW o \in opens \ opens'
  PROVE  o.owners[p] = 0
<1> USE DEF asyncVars
<1> DEFINE NoNewTab == openPaths' \subseteq openPaths
           NoneEnds == opens \subseteq opens'
<1>A. ~NoNewTab /\ ~NoneEnds
  OBVIOUS
<1>1. CASE UNCHANGED vars
  BY <1>1, <1>A DEF vars
<1>2. ASSUME NEW q \in opens, PublishSwitch(q) PROVE o.owners[p] = 0
  <2>1. o = q /\ p = Canon[q.path]
    BY <1>2 DEF PublishSwitch
  <2>2. TabOwnerIsCurrent(q.owners, Canon[q.path])
    BY <1>2 DEF PublishSwitch, Landable
  <2> QED BY <2>1, <2>2 DEF TabOwnerIsCurrent
<1>3. ASSUME NEW q \in opens, OpenStandsDown(q) \/ OpenFallbackResumes(q) PROVE NoNewTab
  BY <1>3 DEF OpenStandsDown, OpenFallbackResumes, FallBackTo
<1>4. ASSUME NEW q \in opens, OpenFindsMissing(q) PROVE o.owners[p] = 0
  <2>1. CASE EnterMissingState(q.path) /\ opens' = opens \ {q}
    <3>1. o = q /\ p = q.path
      BY <2>1 DEF EnterMissingState
    <3>2. TabOwnerIsCurrent(q.owners, q.path)
      BY <1>4 DEF OpenFindsMissing, OpenOwnerIsCurrent
    <3> QED BY <3>1, <3>2 DEF TabOwnerIsCurrent
  <2>2. CASE NoNewTab
    BY <1>A, <2>2
  <2> QED BY <1>4, <2>1, <2>2 DEF OpenFindsMissing, RetireDeadWorktreeTab, FallBackTo
<1>5. ASSUME NEW path, NEW replace, NEW stale, NEW explicit,
             \/ StartOpen(path, replace) \/ CancelPendingOpen \/ StartWrite \/ StartRead
             \/ StartLocate(stale, explicit)
      PROVE  NoNewTab
  BY <1>5 DEF StartOpen, CancelPendingOpen, StartWrite, StartRead, StartLocate
<1>6. ASSUME NEW q, CloseMissing(q) \/ CloseBackground(q) \/ CloseActive(q)
      PROVE  NoNewTab
  BY <1>6 DEF CloseMissing, CloseBackground, CloseActive, CloseTab
<1>7. ASSUME NEW r, ReadEnds(r) \/ ReadFindsMissing(r) \/ ReadFallbackResumes(r)
      PROVE  NoNewTab \/ NoneEnds
  BY <1>7 DEF ReadEnds, ReadFindsMissing, ReadFallbackResumes, FallBackTo
<1>8. ASSUME NEW w, NEW dest, NEW replace, WriteEnds(w) \/ WriteNavigates(w, dest, replace)
      PROVE  NoNewTab
  BY <1>8 DEF WriteEnds, WriteNavigates
<1>9. ASSUME NEW l, NEW target, LocateEnds(l) \/ LocateResumes(l, target)
      PROVE  NoneEnds
  BY <1>9 DEF LocateEnds, LocateResumes, LoadRepo
<1>10. ASSUME NEW q, NEW b, StartLabel(q) \/ LabelResumes(b) \/ LabelEnds(b)
       PROVE  NoNewTab
  BY <1>10 DEF StartLabel, LabelResumes, LabelEnds
<1>11. ASSUME NEW failed, NEW exists, RestoreResumes(failed, exists) PROVE NoNewTab
  BY <1>11 DEF RestoreResumes
<1> HIDE DEF NoNewTab, NoneEnds
<1> QED BY <1>A, <1>1, <1>2, <1>3, <1>4, <1>5, <1>6, <1>7, <1>8, <1>9, <1>10, <1>11
        DEF Next, UserStep, SettleOpen

\* A tab the user closed comes back only through an open begun after the close.
THEOREM ClosedForGood == Spec => ClosedTabStaysClosed
<1>1. [Next]_vars =>
        [\A p \in openPaths' \ openPaths, o \in opens \ opens' : o.owners[p] = 0]_vars
  BY NewTabStep
<1> QED BY <1>1, PTL DEF Spec, ClosedTabStaysClosed

\* Only the restore's own answer ends it; what that answer removes had kept its
\* launch lease and label, and after a newer claim it removes and moves nothing.
LEMMA RestoreStep ==
  ASSUME TypeOK, [Next]_vars, restore.phase = "restoring", restore'.phase = "complete"
  PROVE  /\ \A p \in openPaths \ openPaths' :
              RestoreLeaseIsLive(p) /\ p \notin restore.touched
         /\ openIntent # restore.intent =>
              UNCHANGED <<openPaths, openIntent, opens, pendingOpen, lastPath>>
<1> USE DEF asyncVars
<1>1. \A p : Touch(p).phase = restore.phase
  BY DEF Touch, TypeOK
<1>2. PICK failed \in BOOLEAN, exists \in SUBSET Repos : RestoreResumes(failed, exists)
  <2>1. restore' # restore /\ \A p : restore' # Touch(p)
    BY <1>1
  <2> QED BY <2>1
     DEF Next, UserStep, SettleOpen, vars, StartOpen, CancelPendingOpen, CloseMissing,
         CloseBackground, CloseActive, CloseTab, StartWrite, StartLocate, PublishSwitch,
         OpenStandsDown, OpenFindsMissing, OpenFallbackResumes, StartRead, ReadEnds,
         ReadFindsMissing, ReadFallbackResumes, WriteEnds, WriteNavigates, LocateEnds,
         LocateResumes, StartLabel, LabelResumes, LabelEnds
<1>3. openPaths' = openPaths \ RestorePruned(failed, exists)
  BY <1>2 DEF RestoreResumes
<1>4. ASSUME NEW p \in openPaths \ openPaths'
      PROVE  RestoreLeaseIsLive(p) /\ p \notin restore.touched
  BY <1>3, <1>4 DEF RestorePruned, RestoreOwned
<1>5. ASSUME openIntent # restore.intent
      PROVE  UNCHANGED <<openPaths, openIntent, opens, pendingOpen, lastPath>>
  <2>1. /\ ~RestoreOwnsNavigation
        /\ RestorePruned(failed, exists) = {}
        /\ \A strip : RestoreTargets(strip, exists) = {None}
    BY <1>5 DEF RestoreOwnsNavigation, RestorePruned, RestoreTargets,
                RestoreIntentIsCurrent
  <2>2. openPaths' = openPaths
    BY <1>3, <2>1
  <2>3. UNCHANGED <<openIntent, opens, pendingOpen, lastPath>>
    BY <1>2, <2>1 DEF RestoreResumes
  <2> QED BY <2>2, <2>3
<1> QED BY <1>4, <1>5

\* The startup restore never undoes what the user did while the disk was probed.
THEOREM RestoreYieldsAlways == Spec => RestoreYields
<1>1. TypeOK /\ [Next]_vars =>
        [restore.phase = "restoring" /\ restore'.phase = "complete" =>
           /\ \A p \in openPaths \ openPaths' :
                RestoreLeaseIsLive(p) /\ p \notin restore.touched
           /\ openIntent # restore.intent =>
                UNCHANGED <<openPaths, openIntent, opens, pendingOpen, lastPath>>]_vars
  BY RestoreStep
<1> QED BY <1>1, TypeCorrect, PTL DEF Spec, RestoreYields

-----------------------------------------------------------------------------
(* Every behaviour is one RepoScreen allows.                                  *)

\* An intent is claimed once: the opens that carry it are one open.
OneMarker == \A o, q \in opens : o.intent = q.intent => Marker(o) = Marker(q)

\* loadRepo's claim is newer than every open in flight.
LEMMA LoadRepoIsAlone ==
  ASSUME TypeOK, Minted, OneMarker, NEW path, NEW replace, NEW strip, NEW lt,
         NEW others \in SUBSET opens, LoadRepo(path, replace, strip, lt, others)
  PROVE  OneMarker'
<1> DEFINE owned == EnsureTabs(lt, strip)
           open == [intent |-> openIntent + 1, path |-> path, replace |-> replace,
                    owners |-> [p \in Picks |-> IF p \in strip THEN owned.of[p] ELSE 0],
                    probing |-> FALSE]
<1>1. opens' = others \cup {open} /\ open.intent = openIntent + 1
  BY DEF LoadRepo
<1>2. \A o \in others : o.intent # openIntent + 1
  <2>1. \A o \in opens : o.intent \in Nat /\ o.intent <= openIntent
    BY DEF TypeOK, Open, Minted, OpenMinted
  <2>2. openIntent \in Nat
    BY DEF TypeOK
  <2> QED BY <2>1, <2>2
<1> HIDE DEF open
<1> QED BY <1>1, <1>2 DEF OneMarker, Marker

\* A step that opens nothing starts no second open under an intent.
LEMMA OneMarkerIsKept ==
  ASSUME OneMarker,
         \A o \in opens' : \E q \in opens : o.intent = q.intent /\ Marker(o) = Marker(q)
  PROVE  OneMarker'
<1>1. ASSUME NEW o \in opens', NEW q \in opens', o.intent = q.intent
      PROVE  Marker(o) = Marker(q)
  BY <1>1 DEF OneMarker
<1> QED BY <1>1 DEF OneMarker, Marker

\* Two opens in flight never carry the same intent, one case per action.
LEMMA OneMarkerStep ==
  ASSUME OwnersInv, OneMarker, [Next]_vars
  PROVE  OneMarker'
<1> USE DEF OwnersInv
<1> DEFINE Fresh == \E path, replace, strip, lt : \E others \in SUBSET opens :
                      LoadRepo(path, replace, strip, lt, others)
           Fewer == opens' \subseteq opens
<1>A. Fresh \/ Fewer => OneMarker'
  <2>1. Fresh => OneMarker'
    BY LoadRepoIsAlone
  <2>2. Fewer => OneMarker'
    BY OneMarkerIsKept
  <2> QED BY <2>1, <2>2
<1>1. CASE UNCHANGED vars
  BY <1>A, <1>1 DEF vars
<1>2. ASSUME NEW path, NEW replace, StartOpen(path, replace) PROVE Fresh
  BY <1>2 DEF StartOpen
<1>3. ASSUME CancelPendingOpen PROVE Fewer
  BY <1>3 DEF CancelPendingOpen
<1>4. ASSUME NEW p, CloseMissing(p) \/ CloseBackground(p) \/ CloseActive(p)
      PROVE  Fresh \/ Fewer
  <2>1. ASSUME NEW next, NEW strip, LandOn(next, p, strip) PROVE Fresh \/ Fewer
    BY <2>1 DEF LandOn
  <2> HIDE DEF Fresh
  <2> QED BY <1>4, <2>1 DEF CloseMissing, CloseBackground, CloseActive
<1>5. ASSUME NEW stale, NEW explicit,
             StartWrite \/ StartRead \/ StartLocate(stale, explicit)
      PROVE  Fewer
  BY <1>5 DEF StartWrite, StartRead, StartLocate
<1>6. ASSUME NEW o \in opens, PublishSwitch(o) \/ OpenStandsDown(o) PROVE Fewer
  BY <1>6 DEF PublishSwitch, OpenStandsDown
<1>7. ASSUME NEW p, NEW next, NEW marker, NEW others \in SUBSET opens,
             FallBackTo(p, next, others, marker)
      PROVE  Fresh \/ Fewer
  BY <1>7 DEF FallBackTo
<1>8. ASSUME NEW o \in opens, OpenFindsMissing(o) PROVE OneMarker'
  <2>1. ASSUME opens' = (opens \ {o}) \cup {[o EXCEPT !.probing = TRUE]}
        PROVE  OneMarker'
    <3>1. /\ [o EXCEPT !.probing = TRUE].intent = o.intent
          /\ Marker([o EXCEPT !.probing = TRUE]) = Marker(o)
      BY DEF Marker, TypeOK, Open
    <3> QED BY <2>1, <3>1, OneMarkerIsKept
  <2> HIDE DEF Fresh
  <2>2. opens \ {o} \in SUBSET opens
    OBVIOUS
  <2> QED BY <1>8, <1>A, <1>7, <2>1, <2>2 DEF OpenFindsMissing
<1>9. ASSUME NEW o \in opens, OpenFallbackResumes(o) PROVE Fresh \/ Fewer
  <2> HIDE DEF Fresh
  <2>1. opens \ {o} \in SUBSET opens
    OBVIOUS
  <2> QED BY <1>9, <1>7, <2>1 DEF OpenFallbackResumes
<1>10. ASSUME NEW r, ReadEnds(r) \/ ReadFindsMissing(r) \/ ReadFallbackResumes(r)
       PROVE  Fresh \/ Fewer
  <2> HIDE DEF Fresh
  <2> QED BY <1>10, <1>7 DEF ReadEnds, ReadFindsMissing, ReadFallbackResumes
<1>11. ASSUME NEW w, NEW dest, NEW replace, WriteEnds(w) \/ WriteNavigates(w, dest, replace)
       PROVE  Fresh \/ Fewer
  BY <1>11 DEF WriteEnds, WriteNavigates
<1>12. ASSUME NEW l, NEW target, LocateEnds(l) \/ LocateResumes(l, target)
       PROVE  Fresh \/ Fewer
  BY <1>12 DEF LocateEnds, LocateResumes
<1>13. ASSUME NEW p, NEW b, StartLabel(p) \/ LabelResumes(b) \/ LabelEnds(b) PROVE Fewer
  BY <1>13 DEF StartLabel, LabelResumes, LabelEnds
<1>14. ASSUME NEW failed, NEW exists, RestoreResumes(failed, exists) PROVE Fresh \/ Fewer
  BY <1>14 DEF RestoreResumes
<1> HIDE DEF Fresh, Fewer
<1> QED
  BY <1>A, <1>1, <1>2, <1>3, <1>4, <1>5, <1>6, <1>8, <1>9, <1>10, <1>11, <1>12,
     <1>13, <1>14
  DEF Next, UserStep, SettleOpen

\* What the refinement rests on.
ScreenInv == OwnersInv /\ OneMarker /\ PendingIsLatestOpen /\ OneScreen

\* It holds in every behaviour.
LEMMA ScreenAlways == Spec => []ScreenInv
<1>1. Init => OneMarker /\ PendingIsLatestOpen /\ OneScreen
  BY DEF Init, OneMarker, PendingIsLatestOpen, OneScreen
<1>2. Spec => []OwnersInv
  BY OwnersAlways
<1>3. OwnersInv => TypeOK
  BY DEF OwnersInv
<1> QED BY <1>1, <1>2, <1>3, OneMarkerStep, PendingStep, OneScreenStep, PTL
        DEF Spec, ScreenInv

\* An open that may still publish is the one the spinner stands for.
LEMMA OwnerIsPending ==
  ASSUME ScreenInv, NEW o \in opens, OpenOwnerIsCurrent(o)
  PROVE  pendingOpen.path = o.path /\ o.path \in Picks
<1>1. o.intent # 0 /\ o.path \in Picks
  BY DEF ScreenInv, OwnersInv, TypeOK, Open
<1>2. pendingOpen.intent = o.intent /\ pendingOpen # NoMarker
  BY <1>1 DEF OpenOwnerIsCurrent, NoMarker
<1>3. PICK q \in opens : Marker(q) = pendingOpen
  BY <1>2 DEF ScreenInv, PendingIsLatestOpen
<1>4. Marker(o) = pendingOpen
  BY <1>2, <1>3 DEF ScreenInv, OneMarker, Marker
<1> QED BY <1>1, <1>4 DEF Marker

-----------------------------------------------------------------------------
(* The step simulation.                                                      *)

Simulated == [Screen!Next]_(Screen!screenVars)

\* loadRepo is a pick asked for, on whatever screen its caller left.
LEMMA LoadRepoClaims ==
  ASSUME NEW path, NEW replace, NEW strip, NEW lt, NEW others,
         LoadRepo(path, replace, strip, lt, others)
  PROVE  pendingOpen'.path = path /\ openIntent' = openIntent + 1
BY DEF LoadRepo, Marker

\* A pick on an unchanged screen is RepoScreen's Ask; a released or cancelled marker
\* is its Forget, and anything else that leaves the screen alone is a stutter.
LEMMA QuietIsAllowed ==
  ASSUME UNCHANGED <<summary, missingRepo, publishedSession>>,
         \/ \E path \in Picks : \E replace, strip, lt, others :
              LoadRepo(path, replace, strip, lt, others)
         \/ openIntent' = openIntent /\ pendingOpen' \in {pendingOpen, NoMarker}
  PROVE  Simulated
<1>1. ASSUME NEW path \in Picks, NEW replace, NEW strip, NEW lt, NEW others,
             LoadRepo(path, replace, strip, lt, others)
      PROVE  Screen!Ask(path)
  BY <1>1, LoadRepoClaims DEF Screen!Ask, Screen!Claim
<1>2. ASSUME openIntent' = openIntent, pendingOpen' \in {pendingOpen, NoMarker}
      PROVE  Screen!Forget \/ UNCHANGED Screen!screenVars
  BY <1>2 DEF Screen!Forget, Screen!screenVars, NoMarker
<1> QED BY <1>1, <1>2 DEF Simulated, Screen!Next

\* Leaving the screen, for another pick or for none, is RepoScreen's Leave.
LEMMA LeavingIsAllowed ==
  ASSUME summary' = None, missingRepo' = None,
         publishedSession' \in {publishedSession, publishedSession + 1},
         summary # None => publishedSession' = publishedSession + 1,
         \/ \E path \in Picks : \E replace, strip, lt, others :
              LoadRepo(path, replace, strip, lt, others)
         \/ openIntent' = openIntent /\ pendingOpen' \in {pendingOpen, NoMarker}
  PROVE  Simulated
<1>1. \/ \E path \in Picks : Screen!Claim(path)
      \/ Screen!Keep
  BY LoadRepoClaims DEF Screen!Claim, Screen!Keep, NoMarker
<1> QED BY <1>1 DEF Simulated, Screen!Next, Screen!Leave

\* A path found missing was shown or pending: RepoScreen's GoMissing.
LEMMA MissingIsAllowed ==
  ASSUME NEW p \in Picks, None \notin Picks, p \in {summary, pendingOpen.path},
         EnterMissingState(p), pendingOpen' \in {pendingOpen, NoMarker}
  PROVE  Simulated
<1>1. Screen!GoMissing(p)
  BY DEF Screen!GoMissing, Screen!Keep, EnterMissingState, NoMarker
<1> QED BY <1>1 DEF Simulated, Screen!Next

\* The fallback of a removed worktree leaves the screen for its parent, another tab or
\* the welcome screen.
LEMMA FallbackIsAllowed ==
  ASSUME TypeOK, NEW p, NEW others, NEW marker \in {pendingOpen, NoMarker},
         NEW next, next # None => next \in Picks, FallBackTo(p, next, others, marker)
  PROVE  Simulated
<1>1. /\ summary' = None /\ missingRepo' = None
      /\ publishedSession' = publishedSession + 1
  BY DEF FallBackTo
<1>2. \/ /\ next # None
         /\ LoadRepo(next, None, openPaths \ {p}, EndTab(life, p), others)
      \/ openIntent' = openIntent /\ pendingOpen' = marker
  BY DEF FallBackTo
<1>3. CASE next # None /\ LoadRepo(next, None, openPaths \ {p}, EndTab(life, p), others)
  BY <1>1, <1>3, LeavingIsAllowed
<1>4. CASE openIntent' = openIntent /\ pendingOpen' = marker
  BY <1>1, <1>4, LeavingIsAllowed
<1> QED BY <1>2, <1>3, <1>4

\* Every step is one RepoScreen allows, or one it does not see.
THEOREM StepSimulates ==
  ASSUME ScreenInv, [Next]_vars
  PROVE  Simulated
<1> USE DEF shownVars
<1>T. /\ TypeOK /\ OneScreen /\ None \notin Picks
      /\ \A p \in openPaths : p \in Picks
  BY PathsAssumption DEF ScreenInv, OwnersInv, TypeOK
<1> DEFINE Quiet == /\ UNCHANGED <<summary, missingRepo, publishedSession>>
                    /\ openIntent' = openIntent /\ pendingOpen' \in {pendingOpen, NoMarker}
           Asked == /\ UNCHANGED <<summary, missingRepo, publishedSession>>
                    /\ \E path \in Picks : \E replace, strip, lt, others :
                         LoadRepo(path, replace, strip, lt, others)
<1>A. Quiet \/ Asked => Simulated
  BY QuietIsAllowed
<1>1. CASE UNCHANGED vars
  BY <1>A, <1>1 DEF vars
<1>2. ASSUME NEW path \in Picks, NEW replace, StartOpen(path, replace) PROVE Asked
  BY <1>2 DEF StartOpen
<1>3. ASSUME CancelPendingOpen PROVE Quiet
  BY <1>3 DEF CancelPendingOpen
<1>4. ASSUME NEW p \in Picks, CloseMissing(p) \/ CloseActive(p) PROVE Simulated
  <2>1. /\ summary' = None /\ missingRepo' = None
        /\ publishedSession' \in {publishedSession, publishedSession + 1}
        /\ summary # None => publishedSession' = publishedSession + 1
    <3>1. CASE CloseMissing(p)
      BY <1>T, <3>1 DEF CloseMissing, OneScreen
    <3>2. CASE CloseActive(p)
      BY <3>2 DEF CloseActive
    <3> QED BY <1>4, <3>1, <3>2
  <2>2. PICK next \in openPaths \cup {None} : LandOn(next, p, openPaths \ {p})
    BY <1>4 DEF CloseMissing, CloseActive
  <2>3. \/ next \in Picks /\ LoadRepo(next, None, openPaths \ {p}, EndTab(life, p), opens)
        \/ openIntent' = openIntent /\ pendingOpen' \in {pendingOpen, NoMarker}
    BY <1>T, <2>2 DEF LandOn, PendingAfterClose
  <2> QED BY <2>1, <2>3, LeavingIsAllowed
<1>5. ASSUME NEW p, CloseBackground(p) PROVE Quiet
  BY <1>5 DEF CloseBackground, PendingAfterClose
<1>6. ASSUME NEW stale, NEW explicit,
             StartWrite \/ StartRead \/ StartLocate(stale, explicit)
      PROVE  Quiet
  BY <1>6 DEF StartWrite, StartRead, StartLocate
<1>7. ASSUME NEW o \in opens, PublishSwitch(o) PROVE Simulated
  <2>1. pendingOpen.path = o.path /\ o.path \in Picks
    BY <1>7, OwnerIsPending DEF PublishSwitch, Landable
  <2>2. Screen!Land
    BY <1>7, <1>T, <2>1 DEF PublishSwitch, Screen!Land, NoMarker
  <2> QED BY <2>2 DEF Simulated, Screen!Next
<1>8. ASSUME NEW o \in opens, OpenStandsDown(o) PROVE Quiet
  BY <1>8 DEF OpenStandsDown, Released
<1>9. ASSUME NEW p \in Picks, NEW exists \in BOOLEAN,
             NEW next \in FallbackTargets(p, exists), NEW others,
             NEW marker \in {pendingOpen, NoMarker}, FallBackTo(p, next, others, marker)
      PROVE  Simulated
  <2>1. next # None => next \in Picks
    BY <1>T, TargetTypes DEF PathOrNone
  <2> QED BY <1>9, <1>T, <2>1, FallbackIsAllowed
<1>10. ASSUME NEW o \in opens, OpenFindsMissing(o) PROVE Simulated
  <2>1. /\ pendingOpen.path = o.path /\ o.path \in Picks
        /\ Released(o) \in {pendingOpen, NoMarker} /\ HasParent(o.path) \in BOOLEAN
    BY <1>10, OwnerIsPending DEF OpenFindsMissing, Released, HasParent
  <2>2. CASE EnterMissingState(o.path) /\ pendingOpen' = Released(o)
    BY <1>T, <2>1, <2>2, MissingIsAllowed
  <2>3. CASE RetireDeadWorktreeTab(o.path) /\ pendingOpen' = Released(o)
    BY <1>A, <2>1, <2>3 DEF RetireDeadWorktreeTab
  <2>4. CASE \E next \in FallbackTargets(o.path, HasParent(o.path)) :
               FallBackTo(o.path, next, opens \ {o}, Released(o))
    BY <1>9, <2>1, <2>4
  <2>5. CASE UNCHANGED <<openIntent, pendingOpen, shownVars>>
    BY <1>A, <2>5
  <2> QED BY <1>10, <2>2, <2>3, <2>4, <2>5 DEF OpenFindsMissing
<1>11. ASSUME NEW o \in opens, OpenFallbackResumes(o) PROVE Simulated
  <2>1. o.path \in Picks /\ Released(o) \in {pendingOpen, NoMarker}
    BY <1>T DEF TypeOK, Open, Released
  <2>2. CASE \E exists \in BOOLEAN : \E next \in FallbackTargets(o.path, exists) :
               FallBackTo(o.path, next, opens \ {o}, Released(o))
    BY <1>9, <2>1, <2>2
  <2>3. CASE pendingOpen' = Released(o) /\ UNCHANGED <<openIntent, shownVars>>
    BY <1>A, <2>1, <2>3
  <2> QED BY <1>11, <2>2, <2>3 DEF OpenFallbackResumes
<1>12. ASSUME NEW r \in reads, ReadEnds(r) PROVE Quiet
  BY <1>12 DEF ReadEnds
<1>13. ASSUME NEW r \in reads, ReadFindsMissing(r) \/ ReadFallbackResumes(r)
       PROVE  Simulated
  <2>1. /\ r.path = summary /\ r.path \in Picks /\ HasParent(r.path) \in BOOLEAN
    BY <1>13, <1>T DEF ReadFindsMissing, ReadFallbackResumes, OwnerMayNavigate,
                       OwnerIsCurrent, TypeOK, ReadOwner, HasParent
  <2>2. CASE EnterMissingState(r.path) /\ UNCHANGED pendingOpen
    BY <1>T, <2>1, <2>2, MissingIsAllowed
  <2>3. CASE \E exists \in BOOLEAN : \E next \in FallbackTargets(r.path, exists) :
               FallBackTo(r.path, next, opens, pendingOpen)
    BY <1>9, <2>1, <2>3
  <2>4. CASE UNCHANGED <<openIntent, pendingOpen, shownVars>>
    BY <1>A, <2>4
  <2> QED BY <1>13, <2>1, <2>2, <2>3, <2>4 DEF ReadFindsMissing, ReadFallbackResumes
<1>14. ASSUME NEW w, WriteEnds(w) PROVE Quiet
  BY <1>14 DEF WriteEnds
<1>15. ASSUME NEW w, NEW dest \in Repos, NEW replace, WriteNavigates(w, dest, replace)
       PROVE  Asked
  <2>1. dest \in Picks
    BY ReposArePicks
  <2> QED BY <1>15, <2>1 DEF WriteNavigates
<1>16. ASSUME NEW l \in locates, LocateEnds(l) PROVE Quiet
  BY <1>16 DEF LocateEnds
<1>17. ASSUME NEW l \in locates, NEW target \in Repos, LocateResumes(l, target)
       PROVE  Asked
  <2>1. target \in Picks
    BY ReposArePicks
  <2> QED BY <1>17, <2>1 DEF LocateResumes
<1>18. ASSUME NEW p, NEW b, StartLabel(p) \/ LabelResumes(b) \/ LabelEnds(b) PROVE Quiet
  BY <1>18 DEF StartLabel, LabelResumes, LabelEnds
<1>19. ASSUME NEW failed \in BOOLEAN, NEW exists \in SUBSET Repos,
              RestoreResumes(failed, exists)
       PROVE  Simulated
  <2>1. RestoreTargets(openPaths \ RestorePruned(failed, exists), exists)
          \subseteq Picks \cup {None}
    BY <1>T DEF RestoreTargets, TypeOK, PathOrNone
  <2>2. Quiet \/ Asked
    BY <1>19, <2>1 DEF RestoreResumes
  <2> QED BY <1>A, <2>2
<1> HIDE DEF Quiet, Asked
<1> QED
  BY <1>A, <1>1, <1>2, <1>3, <1>4, <1>5, <1>6, <1>7, <1>8, <1>10, <1>11, <1>12, <1>13,
     <1>14, <1>15, <1>16, <1>17, <1>18, <1>19
  DEF Next, UserStep, SettleOpen

\* Opening, closing and losing repositories does no more than RepoScreen allows: a
\* repository comes on screen only as the landing of the one pending pick.
THEOREM NavigationImplementsScreen == Spec => ImplementsScreen
<1>1. Init => Screen!Init
  BY DEF Init, Screen!Init, NoMarker
<1>2. ScreenInv /\ [Next]_vars => [Screen!Next]_(Screen!screenVars)
  BY StepSimulates DEF Simulated
<1> QED BY <1>1, <1>2, ScreenAlways, PTL DEF Spec, ImplementsScreen, Screen!Spec

-----------------------------------------------------------------------------
(* What is on screen has a tab, but for what a Locate... does to it.          *)

\* The label of p says what p is, if p is a worktree.
Known(p) == p \in Worktrees => p \in worktreeTabs

\* Whatever may still relabel a tab speaks of one that is labelled as it should be,
\* and no tab labelled a worktree is on the missing screen.
LabelsFit ==
  /\ \A p \in watched : Known(p)
  /\ \A b \in labels : LabelIsCurrent(b) => Known(b.path)
  /\ restore.phase = "restoring" => \A p \in Picks : RestoreLeaseIsLive(p) => Known(p)
  /\ missingRepo \notin worktreeTabs

\* The restore holds launch leases, and until something was opened the screen is empty.
LaunchFit ==
  /\ restore.phase = "restoring" =>
       restore.intent = 0 /\ \A p \in Picks : restore.owners[p] <= life.next
  /\ openIntent = 0 => summary = None

TabbedInv == OwnersInv /\ OneScreen /\ LabelsFit /\ LaunchFit

\* What every step does to the labels: it keeps those of the tabs that stay, and
\* starts no watch and no probe of a worktree that is not labelled one.
Told ==
  /\ \A p \in openPaths' : Known(p) => Known(p)'
  /\ \A p \in watched' \ watched : Known(p)'
  /\ \A b \in labels' \ labels : b.path \in watched
  /\ restore'.phase = "restoring" =>
       /\ restore.phase = "restoring"
       /\ restore'.owners = restore.owners /\ restore'.intent = restore.intent
  /\ missingRepo' \notin worktreeTabs'
  /\ summary' \in {summary, None} \/ openIntent' # 0

\* Tabs that leave the strip, or none, lose their labels, and nothing else does.
LabelsStay == \/ worktreeTabs' = worktreeTabs
              \/ worktreeTabs' = worktreeTabs \cap openPaths'

\* A step that only drops labels and watches, and puts no other path on the missing
\* screen, keeps what is told.
LEMMA QuietTells ==
  ASSUME LabelsFit, None \notin worktreeTabs, LabelsStay, watched' \subseteq watched,
         labels' \subseteq labels, restore' = restore \/ restore'.phase = "complete",
         missingRepo' \in {missingRepo, None} \cup (Picks \ worktreeTabs), summary' \in {summary, None}
  PROVE  Told
BY DEF LabelsFit, LabelsStay, Told, Known

\* The labels are told by every step, one case per action.
LEMMA LabelStep ==
  ASSUME TabbedInv, [Next]_vars
  PROVE  Told
<1> USE DEF shownVars, asyncVars
<1>T. /\ LabelsFit /\ None \notin Picks /\ None \notin worktreeTabs
      /\ worktreeTabs \subseteq Picks
      /\ watched \subseteq openPaths /\ Leased(life) \subseteq openPaths
      /\ \A o \in opens : o.path \in Picks /\ Canon[o.path] \in Picks
      /\ \A r \in reads : r.path \in Picks
      /\ TypeOK
  BY PathsAssumption DEF TabbedInv, OwnersInv, TabsAgree, TypeOK, Open, ReadOwner
<1>1. CASE UNCHANGED vars
  BY <1>T, <1>1, QuietTells DEF vars, LabelsStay
<1>2. ASSUME NEW path, NEW replace, StartOpen(path, replace) PROVE Told
  BY <1>T, <1>2, QuietTells DEF StartOpen, LabelsStay
<1>3. ASSUME CancelPendingOpen PROVE Told
  BY <1>T, <1>3, QuietTells DEF CancelPendingOpen, LabelsStay
<1>4. ASSUME NEW p, CloseMissing(p) \/ CloseBackground(p) \/ CloseActive(p)
      PROVE  Told
  BY <1>T, <1>4, QuietTells DEF CloseMissing, CloseBackground, CloseActive, CloseTab, LabelsStay
<1>5. ASSUME NEW stale, NEW explicit,
             StartWrite \/ StartRead \/ StartLocate(stale, explicit)
      PROVE  Told
  BY <1>T, <1>5, QuietTells DEF StartWrite, StartRead, StartLocate, LabelsStay
<1>6. ASSUME NEW o \in opens, PublishSwitch(o) PROVE Told
  <2> DEFINE dest == Canon[o.path]
  <2>1. /\ worktreeTabs' = LabelTab(dest) \cap openPaths'
        /\ watched' \subseteq (watched \cap openPaths') \cup {dest} /\ dest \in openPaths'
        /\ missingRepo' = None /\ labels' = labels /\ restore' = Touch(dest)
        /\ openIntent' = openIntent /\ openIntent = o.intent
    BY <1>6, <1>T DEF PublishSwitch, Landable, OpenOwnerIsCurrent
  <2>2. /\ Touch(dest).phase = restore.phase /\ Touch(dest).owners = restore.owners
        /\ Touch(dest).intent = restore.intent
    BY <1>T DEF Touch, TypeOK
  <2>3. o.intent # 0
    BY <1>T, <1>6 DEF TypeOK, Open
  <2>4. \A p \in openPaths' : Known(p) => Known(p)'
    BY <2>1 DEF Known, LabelTab
  <2>5. \A p \in watched' \ watched : Known(p)'
    BY <2>1 DEF Known, LabelTab
  <2>6. missingRepo' \notin worktreeTabs'
    BY <1>T, <2>1 DEF LabelTab
  <2> QED BY <2>1, <2>2, <2>3, <2>4, <2>5, <2>6 DEF Told
<1>7. ASSUME NEW o \in opens, OpenStandsDown(o) PROVE Told
  BY <1>T, <1>7, QuietTells DEF OpenStandsDown, LabelsStay
<1>E. ASSUME NEW p \in Picks, ~IsGoneWorktree(p), EnterMissingState(p), UNCHANGED <<labels, restore>>
      PROVE  Told
  BY <1>T, <1>E, QuietTells DEF IsGoneWorktree, EnterMissingState, LabelsStay
<1>F. ASSUME NEW p, NEW target, NEW others, NEW marker,
             FallBackTo(p, target, others, marker), UNCHANGED <<labels, restore>>
      PROVE  Told
  BY <1>T, <1>F, QuietTells DEF FallBackTo, LabelsStay
<1>8. ASSUME NEW o \in opens, OpenFindsMissing(o) \/ OpenFallbackResumes(o) PROVE Told
  <2>1. ASSUME RetireDeadWorktreeTab(o.path), UNCHANGED <<labels, restore>> PROVE Told
    BY <1>T, <2>1, QuietTells DEF RetireDeadWorktreeTab, LabelsStay
  <2>2. ASSUME UNCHANGED <<openPaths, worktreeTabs, summary, missingRepo, labels, restore>>,
               watched' \subseteq watched
        PROVE  Told
    BY <1>T, <2>2, QuietTells DEF LabelsStay
  <2>3. UNCHANGED <<labels, restore>> /\ o.path \in Picks
    BY <1>8, <1>T DEF OpenFindsMissing, OpenFallbackResumes
  <2>4. CASE OpenFindsMissing(o)
    BY <2>1, <2>2, <2>3, <2>4, <1>E, <1>F DEF OpenFindsMissing
  <2>5. CASE OpenFallbackResumes(o)
    BY <2>2, <2>3, <2>5, <1>F DEF OpenFallbackResumes
  <2> QED BY <1>8, <2>4, <2>5
<1>9. ASSUME NEW r \in reads, ReadEnds(r) \/ ReadFindsMissing(r) \/ ReadFallbackResumes(r)
      PROVE  Told
  <2>1. UNCHANGED <<labels, restore>> /\ r.path \in Picks
    BY <1>9, <1>T DEF ReadEnds, ReadFindsMissing, ReadFallbackResumes
  <2>2. ASSUME UNCHANGED <<openPaths, worktreeTabs, summary, missingRepo, labels, restore>>,
               watched' \subseteq watched
        PROVE  Told
    BY <1>T, <2>2, QuietTells DEF LabelsStay
  <2>3. CASE ReadEnds(r)
    BY <2>1, <2>2, <2>3 DEF ReadEnds
  <2>4. CASE ReadFindsMissing(r)
    BY <2>1, <2>2, <2>4, <1>E, <1>F DEF ReadFindsMissing
  <2>5. CASE ReadFallbackResumes(r)
    BY <2>1, <2>5, <1>F DEF ReadFallbackResumes
  <2> QED BY <1>9, <2>3, <2>4, <2>5
<1>10. ASSUME NEW w \in writes, NEW dest, NEW replace, WriteEnds(w) \/ WriteNavigates(w, dest, replace)
       PROVE  Told
  BY <1>T, <1>10, QuietTells DEF WriteEnds, WriteNavigates, LabelsStay
<1>11. ASSUME NEW l \in locates, NEW target, LocateEnds(l) \/ LocateResumes(l, target)
       PROVE  Told
  BY <1>T, <1>11, QuietTells DEF LocateEnds, LocateResumes, LabelsStay
<1>12. ASSUME NEW p \in Picks, StartLabel(p) PROVE Told
  <2>1. /\ labels' = labels \cup {[path |-> p, lifetime |-> life'.of[p]]} /\ p \in watched
        /\ UNCHANGED <<openPaths, worktreeTabs, watched, summary, missingRepo, restore>>
    BY <1>12 DEF StartLabel
  <2>2. \A b \in labels' \ labels : b.path \in watched
    BY <2>1
  <2> QED BY <1>T, <2>1, <2>2 DEF Told, Known, LabelsFit
<1>13. ASSUME NEW b \in labels, LabelResumes(b) \/ LabelEnds(b) PROVE Told
  <2>1. CASE LabelResumes(b)
    <3>1. /\ worktreeTabs' = LabelTab(b.path) /\ restore' = Touch(b.path) /\ labels' \subseteq labels
          /\ UNCHANGED <<openPaths, watched, summary, missingRepo>> /\ Known(b.path)
      BY <1>T, <2>1 DEF LabelResumes, LabelsFit
    <3>2. /\ Touch(b.path).phase = restore.phase /\ Touch(b.path).owners = restore.owners
          /\ Touch(b.path).intent = restore.intent
      BY <1>T DEF Touch, TypeOK
    <3>3. worktreeTabs' \subseteq worktreeTabs /\ \A p : Known(p) => Known(p)'
      BY <3>1 DEF Known, LabelTab
    <3> QED BY <1>T, <3>1, <3>2, <3>3 DEF Told, LabelsFit
  <2>2. CASE LabelEnds(b)
    BY <1>T, <2>2, QuietTells DEF LabelEnds, LabelsStay
  <2> QED BY <1>13, <2>1, <2>2
<1>14. ASSUME NEW failed \in BOOLEAN, NEW exists \in SUBSET Repos,
              RestoreResumes(failed, exists)
       PROVE  Told
  <2> DEFINE found == RestoreOwned(failed) \cap exists
  <2>1. /\ openPaths' = openPaths \ RestorePruned(failed, exists)
        /\ worktreeTabs' = ((worktreeTabs \ found) \cup (found \cap Worktrees)) \cap openPaths'
        /\ watched' \subseteq (watched \ RestorePruned(failed, exists)) \cup found
        /\ restore.phase = "restoring" /\ restore'.phase = "complete"
        /\ UNCHANGED <<summary, missingRepo, labels>>
    BY <1>14 DEF RestoreResumes, RestoreOver
  <2>2. found \subseteq openPaths' /\ \A p \in found : RestoreLeaseIsLive(p) /\ p \in Picks
    BY <1>T, <2>1 DEF RestoreOwned, RestorePruned, TypeOK
  <2>3. \A p \in found : Known(p)
    BY <1>T, <2>1, <2>2 DEF LabelsFit
  <2>4. worktreeTabs' \subseteq worktreeTabs
    BY <2>1, <2>3 DEF Known
  <2>5. \A p \in openPaths' : Known(p) => Known(p)'
    BY <2>1 DEF Known
  <2>6. \A p \in watched' \ watched : Known(p)'
    BY <2>1, <2>2 DEF Known
  <2> QED BY <1>T, <2>1, <2>4, <2>5, <2>6 DEF Told, LabelsFit
<1> QED
  BY <1>1, <1>2, <1>3, <1>4, <1>5, <1>6, <1>7, <1>8, <1>9, <1>10, <1>11, <1>12, <1>13, <1>14
  DEF Next, UserStep, SettleOpen

\* The labels are told because the leases they hang on are never given out again.
LEMMA LabelsFitStep ==
  ASSUME TabbedInv, OwnersInv', [Next]_vars
  PROVE  LabelsFit' /\ LaunchFit'
<1>1. Told /\ Onward
  BY LabelStep, OnwardStep DEF TabbedInv, OwnersInv
<1>T. /\ LabelsFit /\ LaunchFit /\ OwnersInv
      /\ watched' \subseteq openPaths' /\ Leased(life') \subseteq openPaths'
      /\ openIntent \in Nat /\ openIntent' \in Nat /\ life.next \in Nat /\ life'.next \in Nat
      /\ \A p \in Picks : restore.owners[p] \in Nat
      /\ \A b \in labels : b.path \in Picks /\ b.lifetime \in Nat /\ b.lifetime # 0
                           /\ b.lifetime <= life.next
      /\ watched \subseteq Picks
  BY DEF TabbedInv, OwnersInv, TabsAgree, TypeOK, Minted, Owners
<1>2. ASSUME NEW p \in watched' PROVE Known(p)'
  BY <1>1, <1>2, <1>T DEF Told, LabelsFit
<1>3. ASSUME NEW b \in labels', LabelIsCurrent(b)' PROVE Known(b.path)'
  <2>1. b.path \in openPaths' /\ life'.of[b.path] = b.lifetime
    BY <1>3 DEF LabelIsCurrent
  <2>2. CASE b \in labels
    <3>1. LabelIsCurrent(b)
      BY <1>1, <1>T, <2>1, <2>2, LostTabStaysLost DEF LabelIsCurrent
    <3> QED BY <1>1, <1>T, <2>1, <2>2, <3>1 DEF Told, LabelsFit
  <2>3. CASE b \notin labels
    BY <1>1, <1>3, <1>T, <2>1, <2>3 DEF Told, LabelsFit
  <2> QED BY <2>2, <2>3
<1>4. ASSUME restore'.phase = "restoring", NEW p \in Picks
      PROVE  /\ RestoreLeaseIsLive(p)' => Known(p)'
             /\ restore'.owners[p] <= life'.next
             /\ restore'.intent = 0
  <2>1. /\ restore.phase = "restoring" /\ restore'.owners = restore.owners
        /\ restore'.intent = restore.intent
    BY <1>1, <1>4 DEF Told
  <2>2. life.next <= life'.next
    BY <1>1 DEF Onward, Descends
  <2>3. restore.owners[p] <= life.next /\ restore.intent = 0
    BY <1>T, <2>1 DEF LaunchFit
  <2>4. ASSUME RestoreLeaseIsLive(p)' PROVE Known(p)'
    <3>1. restore.owners[p] # 0 /\ life'.of[p] = restore.owners[p] /\ p \in openPaths'
      BY <1>T, <2>1, <2>4 DEF RestoreLeaseIsLive, Leased
    <3>2. life.of[p] = restore.owners[p]
      BY <1>1, <1>T, <2>3, <3>1, LostTabStaysLost
    <3>3. RestoreLeaseIsLive(p)
      BY <3>1, <3>2 DEF RestoreLeaseIsLive
    <3> QED BY <1>1, <1>T, <2>1, <3>1, <3>3 DEF Told, LabelsFit
  <2> QED BY <1>T, <2>1, <2>2, <2>3, <2>4
<1>5. missingRepo' \notin worktreeTabs'
  BY <1>1 DEF Told
<1>6. restore'.phase = "restoring" => restore'.intent = 0
  BY <1>1, <1>T DEF Told, LaunchFit
<1>7. openIntent' = 0 => summary' = None
  BY <1>1, <1>T DEF Told, Onward, LaunchFit
<1> QED BY <1>2, <1>3, <1>4, <1>5, <1>6, <1>7 DEF LabelsFit, LaunchFit

\* At launch the stored tabs are labelled and nothing is on screen.
LEMMA InitTells == Init => LabelsFit /\ LaunchFit
<1> SUFFICES ASSUME Init PROVE LabelsFit /\ LaunchFit
  OBVIOUS
<1>1. OwnersInv
  BY InitOwned
<1>2. PICK launch \in Launches :
        /\ openPaths = launch.strip /\ worktreeTabs = launch.strip \cap Worktrees
        /\ watched = {} /\ labels = {} /\ missingRepo = None /\ summary = None
        /\ restore.owners = life.of /\ restore.intent = 0
  BY DEF Init
<1>3. None \notin worktreeTabs
  BY <1>1, PathsAssumption DEF OwnersInv, TypeOK
<1>4. ASSUME NEW p \in Picks, RestoreLeaseIsLive(p) PROVE Known(p)
  <2>1. p \in openPaths
    BY <1>1, <1>2, <1>4 DEF RestoreLeaseIsLive, OwnersInv, TabsAgree, Leased
  <2> QED BY <1>2, <2>1 DEF Known
<1>5. \A p \in Picks : restore.owners[p] <= life.next
  BY <1>1, <1>2 DEF OwnersInv, Minted
<1> QED BY <1>2, <1>3, <1>4, <1>5 DEF LabelsFit, LaunchFit

\* Labels, leases and screen agree in every behaviour.
LEMMA TabbedAlways == Spec => []TabbedInv
<1>1. Init => LabelsFit /\ LaunchFit
  BY InitTells
<1>2. TabbedInv /\ OwnersInv' /\ [Next]_vars => LabelsFit' /\ LaunchFit'
  BY LabelsFitStep
<1> QED BY <1>1, <1>2, OwnersAlways, ScreensExclude, PTL DEF Spec, TabbedInv

\* A worktree that is not on screen but known to be gone is not on the missing screen
\* either, and what the restore prunes was never opened: the one step that takes the
\* tab of what is on screen is that of a Locate... which gives it to another path.
LEMMA TabbedStep ==
  ASSUME TabbedInv, DisplayedHasTab, [Next]_vars
  PROVE  DisplayedHasTab' \/ \E l \in locates, target \in Repos : LocateResumes(l, target)
<1> USE DEF shownVars, asyncVars
<1>T. /\ None \notin Picks /\ OneScreen /\ LabelsFit /\ TypeOK
      /\ summary \in openPaths \cup {None} /\ missingRepo \in openPaths \cup {None}
  BY PathsAssumption DEF TabbedInv, OwnersInv, DisplayedHasTab
<1>K. ASSUME openPaths \subseteq openPaths', summary' \in {summary, None}, missingRepo' \in {missingRepo, None}
      PROVE  DisplayedHasTab'
  BY <1>K, <1>T DEF DisplayedHasTab
<1>1. CASE UNCHANGED vars
  BY <1>K, <1>1 DEF vars
<1>2. ASSUME NEW path, NEW replace, StartOpen(path, replace) \/ CancelPendingOpen
      PROVE  DisplayedHasTab'
  BY <1>K, <1>2 DEF StartOpen, CancelPendingOpen
<1>4. ASSUME NEW p, CloseMissing(p) \/ CloseBackground(p) \/ CloseActive(p)
      PROVE  DisplayedHasTab'
  <2>1. openPaths' = openPaths \ {p}
    BY <1>4 DEF CloseMissing, CloseBackground, CloseActive, CloseTab
  <2>2. CASE CloseMissing(p)
    BY <1>T, <2>1, <2>2 DEF CloseMissing, DisplayedHasTab, OneScreen
  <2>3. CASE CloseBackground(p)
    BY <1>T, <2>1, <2>3 DEF CloseBackground, DisplayedHasTab, IsActive
  <2>4. CASE CloseActive(p)
    BY <2>4 DEF CloseActive, DisplayedHasTab
  <2> QED BY <1>4, <2>2, <2>3, <2>4
<1>5. ASSUME NEW stale, NEW explicit,
             StartWrite \/ StartRead \/ StartLocate(stale, explicit)
      PROVE  DisplayedHasTab'
  BY <1>K, <1>5 DEF StartWrite, StartRead, StartLocate
<1>6. ASSUME NEW o \in opens, PublishSwitch(o) PROVE DisplayedHasTab'
  BY <1>6 DEF PublishSwitch, DisplayedHasTab
<1>7. ASSUME NEW o \in opens, OpenStandsDown(o) PROVE DisplayedHasTab'
  BY <1>K, <1>7 DEF OpenStandsDown
<1>E. ASSUME NEW p, EnterMissingState(p) PROVE DisplayedHasTab'
  BY <1>E DEF EnterMissingState, DisplayedHasTab
<1>F. ASSUME NEW p, NEW target, NEW others, NEW marker, FallBackTo(p, target, others, marker)
      PROVE  DisplayedHasTab'
  BY <1>F DEF FallBackTo, DisplayedHasTab
<1>8. ASSUME NEW o \in opens, OpenFindsMissing(o) \/ OpenFallbackResumes(o)
      PROVE  DisplayedHasTab'
  <2>1. ASSUME IsGoneWorktree(o.path), summary # o.path, RetireDeadWorktreeTab(o.path)
        PROVE  DisplayedHasTab'
    <3>1. missingRepo # o.path
      BY <1>T, <2>1 DEF IsGoneWorktree, LabelsFit
    <3> QED BY <1>T, <2>1, <3>1 DEF RetireDeadWorktreeTab, DisplayedHasTab
  <2>2. CASE OpenFindsMissing(o)
    BY <2>1, <2>2, <1>E, <1>F, <1>K DEF OpenFindsMissing
  <2>3. CASE OpenFallbackResumes(o)
    BY <2>3, <1>F, <1>K DEF OpenFallbackResumes
  <2> QED BY <1>8, <2>2, <2>3
<1>9. ASSUME NEW r \in reads, ReadEnds(r) \/ ReadFindsMissing(r) \/ ReadFallbackResumes(r)
      PROVE  DisplayedHasTab'
  <2>1. CASE ReadEnds(r)
    BY <1>K, <2>1 DEF ReadEnds
  <2>2. CASE ReadFindsMissing(r)
    BY <1>E, <1>F, <1>K, <2>2 DEF ReadFindsMissing
  <2>3. CASE ReadFallbackResumes(r)
    BY <1>F, <2>3 DEF ReadFallbackResumes
  <2> QED BY <1>9, <2>1, <2>2, <2>3
<1>10. ASSUME NEW w \in writes, NEW dest, NEW replace, WriteEnds(w) \/ WriteNavigates(w, dest, replace)
       PROVE  DisplayedHasTab'
  BY <1>K, <1>10 DEF WriteEnds, WriteNavigates
<1>11. ASSUME NEW l \in locates, LocateEnds(l) PROVE DisplayedHasTab'
  BY <1>K, <1>11 DEF LocateEnds
<1>12. ASSUME NEW p \in Picks, StartLabel(p) PROVE DisplayedHasTab'
  BY <1>K, <1>12 DEF StartLabel
<1>13. ASSUME NEW b \in labels, LabelResumes(b) \/ LabelEnds(b) PROVE DisplayedHasTab'
  BY <1>K, <1>13 DEF LabelResumes, LabelEnds
<1>14. ASSUME NEW failed \in BOOLEAN, NEW exists \in SUBSET Repos,
              RestoreResumes(failed, exists)
       PROVE  DisplayedHasTab'
  <2>1. /\ openPaths' = openPaths \ RestorePruned(failed, exists)
        /\ restore.phase = "restoring" /\ UNCHANGED <<summary, missingRepo>>
    BY <1>14 DEF RestoreResumes
  <2>2. ASSUME NEW p \in RestorePruned(failed, exists) PROVE p # summary /\ p # missingRepo
    <3>1. p \in worktreeTabs /\ openIntent = restore.intent /\ p # None
      BY <1>T, <2>2 DEF RestorePruned, RestoreOwned, RestoreIntentIsCurrent, TypeOK
    <3>2. summary = None
      BY <2>1, <3>1 DEF TabbedInv, LaunchFit
    <3> QED BY <1>T, <3>1, <3>2 DEF LabelsFit
  <2> QED BY <1>T, <2>1, <2>2 DEF DisplayedHasTab
<1> QED
  BY <1>1, <1>2, <1>4, <1>5, <1>6, <1>7, <1>8, <1>9, <1>10, <1>11, <1>12, <1>13, <1>14
  DEF Next, UserStep, SettleOpen

\* What is on screen keeps its tab through every step but one: a Locate... that gives
\* the tab of what is on screen, the missing repository or one opened while its dialog
\* was up, to another path before that path is shown.
THEOREM OnlyLocateTakesTheTab ==
  Spec => [][DisplayedHasTab =>
               \/ DisplayedHasTab'
               \/ \E l \in locates, target \in Repos : LocateResumes(l, target)]_vars
<1>1. TabbedInv /\ [Next]_vars =>
        [DisplayedHasTab =>
           \/ DisplayedHasTab'
           \/ \E l \in locates, target \in Repos : LocateResumes(l, target)]_vars
  BY TabbedStep
<1> QED BY <1>1, TabbedAlways, PTL DEF Spec

\* Where no repository is located, what is on screen always has a tab.
THEOREM ScreenHasATab ==
  ASSUME MaxLocates = 0
  PROVE  Spec => []DisplayedHasTab
<1>1. Init => DisplayedHasTab /\ locates = {}
  BY DEF Init, DisplayedHasTab
<1>2. locates = {} /\ [Next]_vars => (locates = {})'
  <2> SUFFICES ASSUME locates = {}, [Next]_vars PROVE locates' = {}
    OBVIOUS
  <2> USE DEF asyncVars
  <2>1. ~(Cardinality(locates) < MaxLocates)
    BY FS_EmptySet
  <2> QED BY <2>1
     DEF Next, UserStep, SettleOpen, vars, StartOpen, CancelPendingOpen, CloseMissing,
         CloseBackground, CloseActive, CloseTab, StartWrite, StartLocate, PublishSwitch,
         OpenStandsDown, OpenFindsMissing, OpenFallbackResumes, StartRead, ReadEnds,
         ReadFindsMissing, ReadFallbackResumes, WriteEnds, WriteNavigates, LocateEnds,
         LocateResumes, StartLabel, LabelResumes, LabelEnds, RestoreResumes
<1>3. TabbedInv /\ DisplayedHasTab /\ locates = {} /\ [Next]_vars => DisplayedHasTab'
  BY TabbedStep
<1> QED BY <1>1, <1>2, <1>3, TabbedAlways, PTL DEF Spec
=============================================================================
