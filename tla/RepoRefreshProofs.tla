------------------------- MODULE RepoRefreshProofs -------------------------
(***************************************************************************)
(* What RepoRefresh guarantees for every set of repositories, every choice  *)
(* of writes and every bound, proved. The argument of the invariants: the   *)
(* lanes are followed through what a step can do to the reads in flight,    *)
(* which is to drop some, claim lanes from all and add one that holds them. *)
(***************************************************************************)
EXTENDS RepoRefresh, FiniteSetTheorems, TLAPS

Callers == {"nobody", "merge", "waiters"}
Scopes == {"worktree", "all"}

\* These reads are typed; only a load has parts to wait for, only a re-sync a
\* caller; what was begun in a deleted folder is of a deleted folder.
ReadsFit(rs, deleted) ==
  /\ rs \subseteq Read
  /\ IsFiniteSet(rs)
  /\ \A r \in rs : /\ r.kind # "load" => r.waiting = {}
                   /\ r.caller # "nobody" => r.kind \in Scopes
                   /\ r.doomed => r.path \in deleted

\* Some of these reads, or at most one of them, was asked for by a write that waits.
Asked(rs) == \E r \in rs : r.caller # "nobody"
OneAsks(rs) == \A r, s \in rs : r.caller # "nobody" /\ s.caller # "nobody" => r = s

\* Whoever still holds a lane of the repository on screen belongs to its session.
LanesFit(rs, screen, current) ==
  screen # None => \A r \in rs : r.owns # {} => r.session = current

WritesFit ==
  /\ writes \subseteq Write
  /\ \A w \in writes : /\ w.kind \in WriteKinds
                       /\ w.phase = "landing" => w.kind = "move"

MergeFits ==
  /\ merge \in Merge
  /\ merge.phase = "running" => merge.path \in Repos

PanesFit ==
  /\ {shown, missing, pending} \subseteq RepoOrNone
  /\ session \in Nat /\ intent \in Nat
  /\ gone \subseteq Repos /\ conflicted \subseteq Repos
  /\ {loading, paging, operation} \subseteq BOOLEAN
  /\ graph \in {"absent", "skeleton", "present"}
  /\ stashes \in {"blank", "settled"}
  /\ deferred \in {"none", "worktree", "all"}

RefreshInv ==
  /\ PanesFit
  /\ ReadsFit(reads, gone) /\ OneAsks(reads) /\ WritesFit /\ MergeFits
  /\ LanesFit(reads, shown, session)
  /\ SpinnersHaveOwners
  /\ WaiterHasReplay

-----------------------------------------------------------------------------
(* What a step does to the reads in flight.                                  *)

\* There is an id no read in flight has.
LEMMA FreshIdIsAnId ==
  ASSUME NEW rs, IsFiniteSet(rs)
  PROVE  FreshId(rs) \in Nat \ {0}
<1> DEFINE n == Cardinality(rs)
           ids == {r.id : r \in rs}
           name == [r \in rs |-> r.id]
<1>1. n \in Nat
  BY FS_CardinalityType
<1>2. name \in Surjection(rs, ids)
  BY DEF Surjection
<1>3. IsFiniteSet(ids) /\ Cardinality(ids) <= n
  BY <1>2, FS_Surjection
<1>4. Cardinality(1..(n + 1)) = n + 1
  BY <1>1, FS_Interval
<1>5. ~(1..(n + 1) \subseteq ids)
  <2>1. SUFFICES ASSUME 1..(n + 1) \in SUBSET ids PROVE FALSE
    OBVIOUS
  <2>2. Cardinality(1..(n + 1)) <= Cardinality(ids)
    BY <1>3, <2>1, FS_Subset
  <2>3. Cardinality(ids) \in Nat
    BY <1>3, FS_CardinalityType
  <2> HIDE DEF n, ids
  <2> QED BY <1>1, <1>3, <1>4, <2>2, <2>3
<1>6. \E i \in 1..(n + 1) : \A r \in rs : r.id # i
  BY <1>5
<1>7. FreshId(rs) \in 1..(n + 1)
  BY <1>6 DEF FreshId
<1> HIDE DEF n
<1> QED BY <1>1, <1>7

\* s is r, or what is left of r once other lanes than the graph were claimed.
SameOwner(r, s) ==
  /\ s.kind = r.kind /\ s.quiet = r.quiet /\ s.path = r.path
  /\ "graph" \in r.waiting <=> "graph" \in s.waiting
  /\ "graph" \in r.owns <=> "graph" \in s.owns

\* Claiming lanes keeps the reads and takes the lanes.
LEMMA ClaimedFit ==
  ASSUME NEW rs, NEW d, ReadsFit(rs, d), NEW lanes, NEW screen, NEW current
  PROVE  /\ ReadsFit(Claimed(lanes, rs), d)
         /\ OneAsks(rs) => OneAsks(Claimed(lanes, rs))
         /\ Asked(Claimed(lanes, rs)) <=> Asked(rs)
         /\ LanesFit(rs, screen, current) => LanesFit(Claimed(lanes, rs), screen, current)
         /\ \A s \in Claimed(lanes, rs) : s.owns \cap lanes = {}
         /\ "graph" \notin lanes =>
              \A r \in rs : \E s \in Claimed(lanes, rs) : SameOwner(r, s)
<1> DEFINE rest(r) == [r EXCEPT !.owns = r.owns \ lanes]
           f == [r \in rs |-> rest(r)]
           left == Claimed(lanes, rs)
<1>1. left = {rest(r) : r \in rs}
  BY DEF Claimed
<1>2. f \in Surjection(rs, left)
  BY <1>1 DEF Surjection
<1>3. IsFiniteSet(left)
  BY <1>2, FS_Surjection DEF ReadsFit
<1>4. \A r \in rs : /\ rest(r) \in Read
                    /\ rest(r).owns = r.owns \ lanes
                    /\ rest(r).kind = r.kind /\ rest(r).quiet = r.quiet
                    /\ rest(r).path = r.path /\ rest(r).waiting = r.waiting
                    /\ rest(r).caller = r.caller /\ rest(r).doomed = r.doomed
                    /\ rest(r).session = r.session
  BY DEF ReadsFit, Read
<1> HIDE DEF rest, left
<1>5. ReadsFit(left, d)
  BY <1>1, <1>3, <1>4 DEF ReadsFit
<1>6. OneAsks(rs) => OneAsks(left)
  BY <1>1, <1>4 DEF OneAsks
<1>7. Asked(left) <=> Asked(rs)
  BY <1>1, <1>4 DEF Asked
<1>8. LanesFit(rs, screen, current) => LanesFit(left, screen, current)
  BY <1>1, <1>4 DEF LanesFit
<1>9. \A s \in left : s.owns \cap lanes = {}
  BY <1>1, <1>4
<1>10. "graph" \notin lanes => \A r \in rs : \E s \in left : SameOwner(r, s)
  BY <1>1, <1>4 DEF SameOwner
<1> QED BY <1>5, <1>6, <1>7, <1>8, <1>9, <1>10 DEF left

\* What an answer leaves of the reads.
LEMMA AnsweredFit ==
  ASSUME ReadsFit(reads, gone), NEW r \in reads, r.kind = "load", NEW part
  PROVE  /\ ReadsFit(Answered(r, part), gone)
         /\ OneAsks(reads) => OneAsks(Answered(r, part))
         /\ Asked(Answered(r, part)) <=> Asked(reads)
         /\ \A screen, current : LanesFit(reads, screen, current) =>
              LanesFit(Answered(r, part), screen, current)
         /\ \A q \in reads : q = r \/ q \in Answered(r, part)
         /\ part # "graph" /\ "graph" \in r.waiting =>
              \E s \in Answered(r, part) : SameOwner(r, s)
<1> DEFINE s == [r EXCEPT !.waiting = r.waiting \ {part}]
           left == Answered(r, part)
<1>1. r \in Read /\ r.caller = "nobody"
  BY DEF ReadsFit, Scopes
<1>2. /\ s \in Read /\ s.waiting = r.waiting \ {part}
      /\ s.kind = r.kind /\ s.quiet = r.quiet /\ s.path = r.path /\ s.owns = r.owns
      /\ s.caller = r.caller /\ s.doomed = r.doomed /\ s.session = r.session
  BY <1>1 DEF Read
<1>3. /\ left = IF r.waiting = {part} THEN reads \ {r} ELSE (reads \ {r}) \cup {s}
  BY DEF Answered
<1>4. IsFiniteSet(reads \ {r}) /\ IsFiniteSet((reads \ {r}) \cup {s})
  BY FS_RemoveElement, FS_AddElement DEF ReadsFit
<1> HIDE DEF s, left
<1>5. ReadsFit(left, gone)
  BY <1>1, <1>2, <1>3, <1>4 DEF ReadsFit
<1>6. OneAsks(reads) => OneAsks(left)
  BY <1>1, <1>2, <1>3 DEF OneAsks
<1>7. Asked(left) <=> Asked(reads)
  BY <1>1, <1>2, <1>3 DEF Asked
<1>8. \A screen, current : LanesFit(reads, screen, current) => LanesFit(left, screen, current)
  BY <1>2, <1>3 DEF LanesFit
<1>9. \A q \in reads : q = r \/ q \in left
  BY <1>3
<1>10. part # "graph" /\ "graph" \in r.waiting => \E q \in left : SameOwner(r, q)
  BY <1>2, <1>3 DEF SameOwner
<1> QED BY <1>5, <1>6, <1>7, <1>8, <1>9, <1>10 DEF left

\* Some of the reads, dropped.
LEMMA DroppedFit ==
  ASSUME NEW rs, NEW d, ReadsFit(rs, d), NEW r \in rs
  PROVE  /\ ReadsFit(rs \ {r}, d)
         /\ OneAsks(rs) => OneAsks(rs \ {r})
         /\ OneAsks(rs) /\ r.caller # "nobody" => ~Asked(rs \ {r})
         /\ r.caller = "nobody" => (Asked(rs \ {r}) <=> Asked(rs))
         /\ \A screen, current :
              LanesFit(rs, screen, current) => LanesFit(rs \ {r}, screen, current)
<1>1. IsFiniteSet(rs \ {r})
  BY FS_RemoveElement DEF ReadsFit
<1> QED BY <1>1 DEF ReadsFit, OneAsks, Asked, LanesFit

\* One read more, which holds its lanes alone.
LEMMA JoinedFit ==
  ASSUME NEW rs, NEW d, ReadsFit(rs, d), NEW lanes, NEW screen, NEW current,
         NEW s \in Read, s.path = screen, s.session = current,
         s.kind # "load" => s.waiting = {},
         s.caller # "nobody" => s.kind \in Scopes /\ ~Asked(rs),
         s.doomed => s.path \in d,
         NEW joined, joined = Claimed(lanes, rs) \cup {s}
  PROVE  /\ ReadsFit(joined, d)
         /\ OneAsks(rs) => OneAsks(joined)
         /\ Asked(joined) <=> Asked(rs) \/ s.caller # "nobody"
         /\ LanesFit(rs, screen, current) => LanesFit(joined, screen, current)
         /\ s \in joined
         /\ "graph" \notin lanes => \A r \in rs : \E q \in joined : SameOwner(r, q)
<1> DEFINE left == Claimed(lanes, rs)
<1>1. /\ ReadsFit(left, d)
      /\ OneAsks(rs) => OneAsks(left)
      /\ Asked(left) <=> Asked(rs)
      /\ LanesFit(rs, screen, current) => LanesFit(left, screen, current)
      /\ "graph" \notin lanes => \A r \in rs : \E q \in left : SameOwner(r, q)
  <2>1. ReadsFit(left, d)
    BY ClaimedFit
  <2>2. OneAsks(rs) => OneAsks(left)
    BY ClaimedFit
  <2>3. Asked(left) <=> Asked(rs)
    BY ClaimedFit
  <2>4. LanesFit(rs, screen, current) => LanesFit(left, screen, current)
    BY ClaimedFit
  <2>5. ASSUME "graph" \notin lanes, NEW r \in rs
        PROVE  \E q \in left : SameOwner(r, q)
    <3>1. \A o \in rs : \E q \in left : SameOwner(o, q)
      BY <2>5, ClaimedFit
    <3> QED BY <3>1
  <2> HIDE DEF left
  <2> QED BY <2>1, <2>2, <2>3, <2>4, <2>5
<1>2. joined = left \cup {s}
  OBVIOUS
<1> HIDE DEF left
<1>3. IsFiniteSet(joined)
  BY <1>1, <1>2, FS_AddElement DEF ReadsFit
<1>4. ReadsFit(joined, d)
  BY <1>1, <1>2, <1>3 DEF ReadsFit
<1>5. OneAsks(rs) => OneAsks(joined)
  BY <1>1, <1>2 DEF OneAsks, Asked
<1>6. Asked(joined) <=> Asked(rs) \/ s.caller # "nobody"
  BY <1>1, <1>2 DEF Asked
<1>7. LanesFit(rs, screen, current) => LanesFit(joined, screen, current)
  BY <1>1, <1>2 DEF LanesFit
<1>8. "graph" \notin lanes => \A r \in rs : \E q \in joined : SameOwner(r, q)
  BY <1>1, <1>2
<1> QED BY <1>2, <1>4, <1>5, <1>6, <1>7, <1>8

\* A re-sync of the repository on screen joins: a full one holds the graph alone.
LEMMA ResyncJoins ==
  ASSUME PanesFit, shown \in Repos, NEW rs, ReadsFit(rs, gone),
         NEW scope \in Scopes, NEW quiet \in BOOLEAN, NEW caller \in Callers,
         caller # "nobody" => ~Asked(rs),
         NEW joined, joined = Claimed(LanesOf(scope), rs) \cup {Resync(scope, quiet, caller, rs)}
  PROVE  /\ ReadsFit(joined, gone)
         /\ OneAsks(rs) => OneAsks(joined)
         /\ Asked(joined) <=> Asked(rs) \/ caller # "nobody"
         /\ LanesFit(rs, shown, session) => LanesFit(joined, shown, session)
         /\ scope = "worktree" => \A r \in rs : \E q \in joined : SameOwner(r, q)
         /\ scope = "all" => \E q \in joined : GraphIsCurrent(q) /\ q.kind = "all" /\ q.quiet = quiet
<1> DEFINE s == Resync(scope, quiet, caller, rs)
<1>1. FreshId(rs) \in Nat \ {0}
  BY FreshIdIsAnId DEF ReadsFit
<1>2. LanesOf(scope) \subseteq Lanes
  BY DEF LanesOf, Lanes
<1>3. /\ s \in Read /\ s.path = shown /\ s.session = session /\ s.kind = scope
      /\ s.quiet = quiet /\ s.caller = caller /\ s.waiting = {} /\ s.owns = LanesOf(scope)
      /\ s.doomed => s.path \in gone
  <2>1. s.doomed = (shown \in gone) /\ s.path = shown
    BY DEF Resync
  <2>2. s.doomed \in BOOLEAN
    <3>1. (shown \in gone) \in BOOLEAN
      OBVIOUS
    <3> HIDE DEF s
    <3> QED BY <2>1, <3>1, Zenon
  <2>3. \A d \in BOOLEAN, i \in Nat \ {0} :
          [id |-> i, kind |-> scope, path |-> shown, session |-> session,
           intent |-> intent, owns |-> LanesOf(scope), quiet |-> quiet,
           caller |-> caller, doomed |-> d, waiting |-> {}] \in Read
    BY <1>2 DEF Read, PanesFit, Scopes, Callers
  <2>4. s \in Read
    BY <1>1, <2>1, <2>2, <2>3, Zenon DEF Resync
  <2>5. /\ s.session = session /\ s.kind = scope /\ s.quiet = quiet
        /\ s.caller = caller /\ s.waiting = {} /\ s.owns = LanesOf(scope)
    BY DEF Resync
  <2>6. s.doomed => s.path \in gone
    BY <2>1, Zenon
  <2> HIDE DEF s
  <2> QED BY <2>1, <2>4, <2>5, <2>6
<1>4. scope = "worktree" => "graph" \notin LanesOf(scope)
  BY DEF LanesOf
<1>5. scope = "all" => "graph" \in LanesOf(scope)
  BY DEF LanesOf, Lanes
<1> HIDE DEF s
<1>6. joined = Claimed(LanesOf(scope), rs) \cup {s}
  BY DEF s
<1>7. /\ ReadsFit(joined, gone)
      /\ OneAsks(rs) => OneAsks(joined)
      /\ Asked(joined) <=> Asked(rs) \/ s.caller # "nobody"
      /\ LanesFit(rs, shown, session) => LanesFit(joined, shown, session)
      /\ s \in joined
      /\ "graph" \notin LanesOf(scope) => \A r \in rs : \E q \in joined : SameOwner(r, q)
  <2>1. s.caller # "nobody" => s.kind \in Scopes /\ ~Asked(rs)
    BY <1>3
  <2>2. s.kind # "load" => s.waiting = {}
    BY <1>3
  <2> QED BY <1>3, <1>6, <2>1, <2>2, JoinedFit
<1> QED BY <1>3, <1>4, <1>5, <1>7 DEF GraphIsCurrent

\* What refresh() does to the reads, running at once or deferred.
LEMMA RefreshJoins ==
  ASSUME PanesFit, shown \in Repos, NEW rs, ReadsFit(rs, gone),
         NEW scope \in Scopes, NEW quiet \in BOOLEAN, NEW caller \in Callers,
         caller # "nobody" => ~Asked(rs), NEW held,
         Refresh(scope, quiet, caller, rs, held)
  PROVE  /\ ReadsFit(reads', gone)
         /\ OneAsks(rs) => OneAsks(reads')
         /\ Asked(reads') <=> Asked(rs) \/ (caller # "nobody" /\ ~held)
         /\ LanesFit(rs, shown, session) => LanesFit(reads', shown, session)
         /\ held \/ scope = "worktree" =>
              \A r \in rs : \E q \in reads' : SameOwner(r, q)
         /\ ~held /\ scope = "all" => \E q \in reads' :
              "graph" \in q.owns /\ q.path = shown /\ q.kind = "all" /\ q.quiet = quiet
         /\ deferred' \in {"none", "worktree", "all"}
         /\ held => deferred' # "none"
         /\ ~held => deferred' = deferred
<1>1. CASE held
  <2>1. reads' = rs /\ deferred' = Wider(deferred, scope)
    BY <1>1, Zenon DEF Refresh
  <2>2. deferred' \in {"worktree", "all"}
    BY <2>1 DEF Wider
  <2>3. \A r \in rs : \E q \in reads' : SameOwner(r, q)
    BY <2>1 DEF SameOwner
  <2> QED BY <1>1, <2>1, <2>2, <2>3
<1>2. CASE ~held
  <2>1. /\ reads' = Claimed(LanesOf(scope), rs) \cup {Resync(scope, quiet, caller, rs)}
        /\ deferred' = deferred
    BY <1>2, Zenon DEF Refresh
  <2>2. /\ ReadsFit(reads', gone)
        /\ OneAsks(rs) => OneAsks(reads')
        /\ Asked(reads') <=> Asked(rs) \/ caller # "nobody"
        /\ LanesFit(rs, shown, session) => LanesFit(reads', shown, session)
        /\ scope = "worktree" => \A r \in rs : \E q \in reads' : SameOwner(r, q)
        /\ scope = "all" => \E q \in reads' : GraphIsCurrent(q) /\ q.kind = "all" /\ q.quiet = quiet
    BY <2>1, ResyncJoins
  <2>3. deferred' \in {"none", "worktree", "all"}
    BY <2>1 DEF PanesFit
  <2> QED BY <1>2, <2>1, <2>2, <2>3 DEF GraphIsCurrent
<1> QED BY <1>1, <1>2, Zenon

\* What the flush of a deferred re-sync does to the reads: it adds the replay, if
\* any, for the write that waits, if any.
LEMMA FlushJoins ==
  ASSUME PanesFit, MergeFits, NEW rs, ReadsFit(rs, gone), NEW held,
         shown' # None => shown' = shown /\ session' = session,
         merge.phase = "queued" => ~Asked(rs),
         FlushReads(rs, held)
  PROVE  /\ ReadsFit(reads', gone)
         /\ OneAsks(rs) => OneAsks(reads')
         /\ Asked(reads') <=> Asked(rs) \/ (Replays(held) /\ merge.phase = "queued")
         /\ LanesFit(rs, shown, session) => LanesFit(reads', shown', session')
         /\ ~(Replays(held) /\ deferred = "all") =>
              \A r \in rs : \E q \in reads' : SameOwner(r, q)
         /\ Replays(held) /\ deferred = "all" =>
              \E q \in reads' : "graph" \in q.owns /\ q.path = shown' /\ q.kind = "all"
<1>1. CASE ~Replays(held)
  <2>1. reads' = rs
    BY <1>1, Zenon DEF FlushReads
  <2>2. \A r \in rs : \E q \in reads' : SameOwner(r, q)
    BY <2>1 DEF SameOwner
  <2>3. LanesFit(rs, shown, session) => LanesFit(reads', shown', session')
    BY <2>1 DEF LanesFit
  <2> QED BY <1>1, <2>1, <2>2, <2>3
<1>2. CASE Replays(held)
  <2> DEFINE caller == IF merge.phase = "queued" THEN "waiters" ELSE "nobody"
  <2>1. /\ reads' = Claimed(LanesOf(deferred), rs) \cup {Resync(deferred, TRUE, caller, rs)}
    BY <1>2, Zenon DEF FlushReads
  <2>2. deferred \in Scopes /\ shown' = shown /\ session' = session /\ shown \in Repos
    BY <1>2 DEF Replays, PanesFit, Scopes, RepoOrNone
  <2>3. caller \in Callers /\ (caller # "nobody" <=> merge.phase = "queued")
    BY DEF Callers
  <2> HIDE DEF caller
  <2>4. caller # "nobody" => ~Asked(rs)
    BY <2>3
  <2>5. /\ ReadsFit(reads', gone)
        /\ OneAsks(rs) => OneAsks(reads')
        /\ Asked(reads') <=> Asked(rs) \/ caller # "nobody"
        /\ LanesFit(rs, shown, session) => LanesFit(reads', shown, session)
        /\ deferred = "worktree" => \A r \in rs : \E q \in reads' : SameOwner(r, q)
        /\ deferred = "all" => \E q \in reads' : GraphIsCurrent(q) /\ q.kind = "all" /\ q.quiet = TRUE
    <3>1. PICK scope \in Scopes, quiet \in BOOLEAN : scope = deferred /\ quiet = TRUE
      BY <2>2
    <3>2. reads' = Claimed(LanesOf(scope), rs) \cup {Resync(scope, quiet, caller, rs)}
      BY <2>1, <3>1
    <3>3. /\ ReadsFit(reads', gone)
          /\ OneAsks(rs) => OneAsks(reads')
          /\ Asked(reads') <=> Asked(rs) \/ caller # "nobody"
          /\ LanesFit(rs, shown, session) => LanesFit(reads', shown, session)
          /\ scope = "worktree" => \A r \in rs : \E q \in reads' : SameOwner(r, q)
          /\ scope = "all" => \E q \in reads' : GraphIsCurrent(q) /\ q.kind = "all" /\ q.quiet = quiet
      BY <2>2, <2>3, <2>4, <3>2, ResyncJoins
    <3> QED BY <3>1, <3>3
  <2>6. deferred = "all" =>
              \E q \in reads' : "graph" \in q.owns /\ q.path = shown' /\ q.kind = "all"
    BY <2>2, <2>5 DEF GraphIsCurrent
  <2> QED BY <1>2, <2>2, <2>3, <2>5, <2>6 DEF Scopes
<1> QED BY <1>1, <1>2, Zenon

-----------------------------------------------------------------------------
(* The spinners.                                                             *)

\* r answers for a spinner that is still up after the step.
Answers(r) ==
  \/ loading' /\ ((r.kind = "all" /\ ~r.quiet) \/ "graph" \in r.waiting)
  \/ graph' = "skeleton" /\ (r.kind = "all" \/ "graph" \in r.waiting)
  \/ paging' /\ r.kind = "page"

\* What is left of a read answers for what it answered for.
LEMMA SameOwnerAnswers ==
  ASSUME NEW r, NEW s, SameOwner(r, s)
  PROVE  /\ Answers(r) => Answers(s)
         /\ shown' = shown /\ GraphIsCurrent(r) => GraphIsCurrent(s)'
<1>1. ~r.quiet => ~s.quiet
  BY Zenon DEF SameOwner
<1> QED BY <1>1 DEF SameOwner, Answers, GraphIsCurrent

\* No step that leaves the screen raises a spinner without an owner, if what answers
\* for those still up survives it.
LEMMA SpinnersStay ==
  ASSUME SpinnersHaveOwners, shown' = shown, session' = session,
         loading' => loading, paging' => paging, graph' = "skeleton" => graph = "skeleton",
         \A r \in reads : GraphIsCurrent(r) /\ Answers(r) => \E s \in reads' : SameOwner(r, s),
         \A w \in writes : loading' /\ OwnerIsCurrent(w) /\ w.phase = "running" => w \in writes'
  PROVE  SpinnersHaveOwners'
<1>1. \A r \in reads : GraphIsCurrent(r) /\ Answers(r) =>
        \E s \in reads' : SameOwner(r, s) /\ GraphIsCurrent(s)' /\ Answers(s)
  BY SameOwnerAnswers
<1>2. ASSUME loading'
      PROVE  \/ \E r \in reads' : /\ GraphIsCurrent(r)'
                                  /\ (r.kind = "all" /\ ~r.quiet) \/ "graph" \in r.waiting
             \/ \E w \in writes' : OwnerIsCurrent(w)' /\ w.phase = "running"
  <2>1. CASE \E w \in writes : OwnerIsCurrent(w) /\ w.phase = "running"
    BY <1>2, <2>1 DEF OwnerIsCurrent
  <2>2. ASSUME NEW r \in reads, GraphIsCurrent(r),
               (r.kind = "all" /\ ~r.quiet) \/ "graph" \in r.waiting
        PROVE  \E s \in reads' : /\ GraphIsCurrent(s)'
                                 /\ (s.kind = "all" /\ ~s.quiet) \/ "graph" \in s.waiting
    <3>1. Answers(r)
      BY <1>2, <2>2 DEF Answers
    <3>2. PICK s \in reads' : SameOwner(r, s) /\ GraphIsCurrent(s)'
      BY <1>1, <2>2, <3>1
    <3>3. ~r.quiet => ~s.quiet
      BY <3>2, Zenon DEF SameOwner
    <3> QED BY <2>2, <3>2, <3>3 DEF SameOwner
  <2>3. loading
    BY <1>2
  <2> QED BY <2>1, <2>2, <2>3, Zenon DEF SpinnersHaveOwners
<1>3. ASSUME graph' = "skeleton"
      PROVE  \E r \in reads' : GraphIsCurrent(r)' /\ (r.kind = "all" \/ "graph" \in r.waiting)
  <2>1. PICK r \in reads : GraphIsCurrent(r) /\ (r.kind = "all" \/ "graph" \in r.waiting)
    BY <1>3 DEF SpinnersHaveOwners
  <2>2. PICK s \in reads' : SameOwner(r, s) /\ GraphIsCurrent(s)'
    BY <1>1, <1>3, <2>1 DEF Answers
  <2> QED BY <2>1, <2>2 DEF SameOwner
<1>4. ASSUME paging' PROVE \E r \in reads' : GraphIsCurrent(r)' /\ r.kind = "page"
  <2>1. PICK r \in reads : GraphIsCurrent(r) /\ r.kind = "page"
    BY <1>4 DEF SpinnersHaveOwners
  <2>2. PICK s \in reads' : SameOwner(r, s) /\ GraphIsCurrent(s)'
    BY <1>1, <1>4, <2>1 DEF Answers
  <2> QED BY <2>1, <2>2 DEF SameOwner
<1> QED BY <1>2, <1>3, <1>4, Zenon DEF SpinnersHaveOwners

\* With every spinner down there is nothing to answer for.
LEMMA DarkScreen ==
  ASSUME ~loading', ~paging', graph' # "skeleton"
  PROVE  SpinnersHaveOwners'
BY Zenon DEF SpinnersHaveOwners

\* refresh() leaves every spinner with an owner: what is up keeps it, or the re-sync
\* that takes the graph answers for all of it.
LEMMA RefreshAnswers ==
  ASSUME PanesFit, SpinnersHaveOwners, shown \in Repos, ReadsFit(reads, gone),
         shown' = shown, session' = session, graph' = graph,
         \A w \in writes : OwnerIsCurrent(w) /\ w.phase = "running" => w \in writes',
         NEW scope \in Scopes, NEW quiet \in BOOLEAN, NEW caller \in Callers,
         caller # "nobody" => ~Asked(reads), scope = "worktree" => quiet,
         Refresh(scope, quiet, caller, reads, loading)
  PROVE  SpinnersHaveOwners'
<1>1. loading \/ scope = "worktree" => \A r \in reads : \E q \in reads' : SameOwner(r, q)
  BY RefreshJoins
<1>2. ~loading /\ scope = "all" => \E q \in reads' :
        "graph" \in q.owns /\ q.path = shown /\ q.kind = "all" /\ q.quiet = quiet
  BY RefreshJoins
<1>3. /\ loading => loading' = TRUE /\ paging' = paging
      /\ ~loading => loading' = ~quiet /\ paging' = (paging /\ scope = "worktree")
  BY Zenon DEF Refresh
<1>4. CASE loading \/ scope = "worktree"
  <2>1. loading' => loading
    BY <1>3, <1>4, Zenon
  <2>2. paging' => paging
    BY <1>3, <1>4, Zenon
  <2> QED BY <1>1, <1>4, <2>1, <2>2, SpinnersStay
<1>5. CASE ~loading /\ scope = "all"
  <2>1. PICK q \in reads' : "graph" \in q.owns /\ q.path = shown /\ q.kind = "all" /\ q.quiet = quiet
    BY <1>2, <1>5
  <2>2. loading' => ~q.quiet
    BY <1>3, <1>5, <2>1, Zenon
  <2>3. ~paging'
    BY <1>3, <1>5, Zenon
  <2>4. GraphIsCurrent(q)'
    BY <2>1 DEF GraphIsCurrent
  <2> QED BY <2>1, <2>2, <2>3, <2>4, Zenon DEF SpinnersHaveOwners
<1> QED BY <1>4, <1>5 DEF Scopes

\* So does the flush of a deferred re-sync.
LEMMA FlushAnswers ==
  ASSUME PanesFit, MergeFits, SpinnersHaveOwners, NEW rs, ReadsFit(rs, gone),
         NEW held \in BOOLEAN, shown' = shown, session' = session,
         held => loading, graph' = "skeleton" => graph = "skeleton",
         \A r \in reads : GraphIsCurrent(r) /\ Answers(r) => \E s \in rs : SameOwner(r, s),
         \A w \in writes : held /\ OwnerIsCurrent(w) /\ w.phase = "running" => w \in writes',
         merge.phase = "queued" => ~Asked(rs),
         loading' = held, FlushReads(rs, held), FlushPaging(held)
  PROVE  SpinnersHaveOwners'
<1>1. CASE Replays(held) /\ deferred = "all"
  <2>1. PICK q \in reads' : "graph" \in q.owns /\ q.path = shown' /\ q.kind = "all"
    BY <1>1, FlushJoins
  <2>2. ~loading'
    BY <1>1, Zenon DEF Replays
  <2>3. deferred # "worktree"
    BY <1>1
  <2>4. ~paging'
    BY <1>1, <2>3, Zenon DEF FlushPaging
  <2>5. GraphIsCurrent(q)'
    BY <2>1 DEF GraphIsCurrent
  <2> QED BY <2>1, <2>2, <2>4, <2>5, Zenon DEF SpinnersHaveOwners
<1>2. CASE ~(Replays(held) /\ deferred = "all")
  <2>1. \A r \in rs : \E q \in reads' : SameOwner(r, q)
    BY <1>2, FlushJoins
  <2>2. paging' => paging
    BY Zenon DEF FlushPaging
  <2>3. \A r \in reads : GraphIsCurrent(r) /\ Answers(r) => \E s \in reads' : SameOwner(r, s)
    BY <2>1 DEF SameOwner
  <2>4. loading' => loading
    BY Zenon
  <2>5. \A w \in writes : loading' /\ OwnerIsCurrent(w) /\ w.phase = "running" => w \in writes'
    BY Zenon
  <2> QED BY <2>2, <2>3, <2>4, <2>5, SpinnersStay
<1> QED BY <1>1, <1>2, Zenon

-----------------------------------------------------------------------------
(* The writes that wait.                                                     *)

\* The caller of a re-sync has its verdict, or waits for the one still deferred.
LEMMA CallerIsTold ==
  ASSUME merge \in Merge, NEW r, NEW result \in BOOLEAN, CallerHears(r, result)
  PROVE  /\ merge' \in Merge
         /\ merge'.phase \in {"done", "queued"}
         /\ merge'.phase = "queued" => deferred' # "none"
<1> DEFINE current == OwnerIsCurrentAfter(merge)
<1>1. ASSUME NEW b \in BOOLEAN, merge' = Decide(merge, b)
      PROVE  merge' \in Merge /\ merge'.phase = "done"
  <2>1. PICK v \in {"none", "conflict", "raw"} :
          merge' = [merge EXCEPT !.phase = "done", !.refreshed = b, !.verdict = v]
    BY <1>1, Zenon DEF Decide
  <2> QED BY <2>1 DEF Merge
<1>2. current \in BOOLEAN
  BY DEF OwnerIsCurrentAfter
<1>3. \/ merge' = Decide(merge, current)
      \/ merge' = Decide(merge, FALSE)
      \/ merge' = [merge EXCEPT !.phase = "queued"] /\ deferred' # "none"
  BY Zenon DEF CallerHears
<1>4. CASE merge' = [merge EXCEPT !.phase = "queued"] /\ deferred' # "none"
  BY <1>4 DEF Merge
<1>5. CASE merge' = Decide(merge, current)
  <2> HIDE DEF current
  <2>1. merge' \in Merge /\ merge'.phase = "done"
    BY <1>1, <1>2, <1>5
  <2> QED BY <2>1
<1>6. CASE merge' = Decide(merge, FALSE)
  <2>1. merge' \in Merge /\ merge'.phase = "done"
    BY <1>1, <1>6
  <2> QED BY <2>1
<1> QED BY <1>3, <1>4, <1>5, <1>6

\* The flush tells a waiting write that its replay runs, or that there is none.
LEMMA FlushTells ==
  ASSUME PanesFit, MergeFits, WaiterHasReplay, NEW rs, ReadsFit(rs, gone),
         Asked(rs) <=> Asked(reads), NEW held,
         shown' # None => shown' = shown /\ session' = session,
         FlushReads(rs, held), FlushDeferred(held), FlushWaiters(held)
  PROVE  MergeFits' /\ WaiterHasReplay'
<1>1. merge.phase = "queued" => ~Asked(rs) /\ deferred # "none"
  BY DEF WaiterHasReplay, Asked
<1>2. merge.phase = "reading" <=> Asked(rs)
  BY DEF WaiterHasReplay, Asked
<1>3. Asked(reads') <=> Asked(rs) \/ (Replays(held) /\ merge.phase = "queued")
  BY <1>1, FlushJoins
<1>4. deferred' # "none" => ~Replays(held)
  BY DEF FlushDeferred, Replays
<1>5. CASE merge.phase # "queued"
  <2>1. merge' = merge
    BY <1>5, Zenon DEF FlushWaiters
  <2> QED BY <1>2, <1>3, <1>5, <2>1 DEF MergeFits, WaiterHasReplay, Asked
<1>6. CASE merge.phase = "queued" /\ deferred' # "none"
  <2>1. merge' = merge
    BY <1>6, Zenon DEF FlushWaiters
  <2> QED BY <1>1, <1>3, <1>4, <1>6, <2>1 DEF MergeFits, WaiterHasReplay, Asked
<1>7. CASE merge.phase = "queued" /\ deferred' = "none" /\ Replays(held)
  <2>1. merge' = [merge EXCEPT !.phase = "reading"]
    BY <1>7, Zenon DEF FlushWaiters
  <2>2. merge' \in Merge /\ merge'.phase = "reading"
    BY <2>1 DEF MergeFits, Merge
  <2> QED BY <1>3, <1>7, <2>2 DEF MergeFits, WaiterHasReplay, Asked
<1>8. CASE merge.phase = "queued" /\ deferred' = "none" /\ ~Replays(held)
  <2>1. merge' = [merge EXCEPT !.phase = "done", !.verdict = "raw"]
    BY <1>8, Zenon DEF FlushWaiters
  <2>2. merge' \in Merge /\ merge'.phase = "done"
    BY <2>1 DEF MergeFits, Merge
  <2> QED BY <1>1, <1>3, <1>8, <2>2 DEF MergeFits, WaiterHasReplay, Asked
<1> QED BY <1>5, <1>6, <1>7, <1>8, Zenon

\* The end of a re-sync answers the write that asked for it, and no other.
LEMMA FinishTells ==
  ASSUME PanesFit, ReadsFit(reads, gone), OneAsks(reads), MergeFits, WaiterHasReplay,
         NEW r \in reads, NEW held, NEW result \in BOOLEAN,
         shown' # None => shown' = shown /\ session' = session,
         Finish(r, held, result)
  PROVE  MergeFits' /\ WaiterHasReplay'
<1>1. ReadsFit(reads \ {r}, gone)
  BY DroppedFit
<1>2. FlushReads(reads \ {r}, held) /\ FlushDeferred(held)
  BY Zenon DEF Finish
<1>3. CASE r.caller = "nobody"
  <2>1. Asked(reads \ {r}) <=> Asked(reads)
    BY <1>3, DroppedFit
  <2>2. FlushWaiters(held)
    BY <1>3, Zenon DEF Finish
  <2> QED BY <1>1, <1>2, <2>1, <2>2, FlushTells
<1>4. CASE r.caller # "nobody"
  <2>1. ~Asked(reads \ {r})
    BY <1>4, DroppedFit
  <2>2. merge.phase = "reading"
    BY <1>4 DEF WaiterHasReplay
  <2>3. ~Asked(reads')
    BY <1>1, <1>2, <2>1, <2>2, FlushJoins
  <2>4. CallerHears(r, result)
    BY <1>4, Zenon DEF Finish
  <2>5. /\ merge' \in Merge
        /\ merge'.phase \in {"done", "queued"}
        /\ merge'.phase = "queued" => deferred' # "none"
    BY <2>4, CallerIsTold DEF MergeFits
  <2> QED BY <2>3, <2>5 DEF MergeFits, WaiterHasReplay, Asked
<1> QED BY <1>3, <1>4

\* What a flush makes of the re-sync that was deferred.
LEMMA FlushTypes ==
  ASSUME PanesFit, NEW held, FlushDeferred(held), FlushPaging(held)
  PROVE  /\ deferred' \in {"none", "worktree", "all"}
         /\ paging' \in BOOLEAN
         /\ deferred' # "none" /\ shown' # None => held
<1>1. deferred' \in {deferred, "none"}
  BY Zenon DEF FlushDeferred
<1>2. deferred' # "none" /\ shown' # None => held
  BY Zenon DEF FlushDeferred
<1>3. paging' \in BOOLEAN
  BY Zenon DEF FlushPaging
<1> QED BY <1>1, <1>2, <1>3 DEF PanesFit

-----------------------------------------------------------------------------
(* The actions keep the invariant.                                           *)

\* Where the screen can go: every step of it but a landing keeps the repository and
\* its session, or shows none.
LEMMA ScreenMoves ==
  ASSUME PanesFit,
         \/ \E p \in Repos : Screen!Ask(p) \/ Screen!GoMissing(p)
         \/ Screen!Forget \/ Screen!Leave
  PROVE  /\ {shown', missing', pending'} \subseteq RepoOrNone
         /\ session' \in Nat /\ intent' \in Nat
         /\ shown' # None => shown' = shown /\ session' = session
<1> USE DEF PanesFit, RepoOrNone
<1>1. ASSUME Screen!Keep PROVE pending' \in RepoOrNone /\ intent' \in Nat
  BY <1>1 DEF Screen!Keep
<1>2. ASSUME NEW p \in Repos, Screen!Claim(p) PROVE pending' \in RepoOrNone /\ intent' \in Nat
  BY <1>2 DEF Screen!Claim
<1>3. CASE \E p \in Repos : Screen!Ask(p)
  BY <1>2, <1>3 DEF Screen!Ask
<1>4. CASE \E p \in Repos : Screen!GoMissing(p)
  BY <1>1, <1>4 DEF Screen!GoMissing
<1>5. CASE Screen!Forget
  BY <1>5 DEF Screen!Forget
<1>6. CASE Screen!Leave
  <2>1. pending' \in RepoOrNone /\ intent' \in Nat
    BY <1>1, <1>2, <1>6 DEF Screen!Leave
  <2> QED BY <1>6, <2>1 DEF Screen!Leave
<1> QED BY <1>3, <1>4, <1>5, <1>6

\* A read that finds its repository gone clears the screen.
LEMMA MissingLeaves ==
  ASSUME PanesFit, NEW r, r.path \in Repos, LeaveMissing(r)
  PROVE  /\ {shown', missing', pending'} \subseteq RepoOrNone
         /\ session' \in Nat /\ intent' \in Nat
         /\ shown' = None /\ graph' = "absent" /\ stashes' = "blank" /\ operation' = FALSE
<1>1. \/ \E p \in Repos : Screen!GoMissing(p)
      \/ Screen!Leave
  BY Zenon DEF LeaveMissing
<1>2. shown' = None
  BY <1>1 DEF Screen!GoMissing, Screen!Leave
<1>3. graph' = "absent" /\ stashes' = "blank" /\ operation' = FALSE
  BY DEF LeaveMissing, Wipe
<1>4. /\ {shown', missing', pending'} \subseteq RepoOrNone
      /\ session' \in Nat /\ intent' \in Nat
  BY <1>1, ScreenMoves
<1> QED BY <1>2, <1>3, <1>4

\* The end of a full re-sync, whether it leaves the screen or stays on it.
LEMMA FinishKeeps ==
  ASSUME RefreshInv, NEW r \in reads, r.kind = "all",
         NEW held \in BOOLEAN, NEW result \in BOOLEAN, Finish(r, held, result),
         UNCHANGED <<diskVars, writes>>,
         \/ LeaveMissing(r) /\ ~held
         \/ /\ UNCHANGED screenVars /\ (held => loading)
            /\ graph' \in {"absent", "skeleton", "present"}
            /\ graph' = "skeleton" => graph = "skeleton"
            /\ stashes' \in {"blank", "settled"} /\ operation' \in BOOLEAN
            /\ GraphIsCurrent(r) => ~(held /\ ~r.quiet) /\ graph' # "skeleton"
  PROVE  RefreshInv'
<1> USE DEF RefreshInv
<1>1. r \in Read
  BY DEF ReadsFit
<1>2. /\ ReadsFit(reads \ {r}, gone) /\ OneAsks(reads \ {r})
      /\ LanesFit(reads \ {r}, shown, session)
  BY DroppedFit
<1>3. loading' = held /\ FlushReads(reads \ {r}, held) /\ FlushDeferred(held) /\ FlushPaging(held)
  BY Zenon DEF Finish
<1>4. shown' # None => shown' = shown /\ session' = session
  <2>1. CASE LeaveMissing(r)
    BY <1>1, <2>1, MissingLeaves DEF Read
  <2>2. CASE UNCHANGED screenVars
    BY <2>2 DEF screenVars
  <2> QED BY <2>1, <2>2
<1>5. gone' = gone /\ conflicted' = conflicted /\ writes' = writes
  BY DEF diskVars
<1>6. merge.phase = "queued" => ~Asked(reads \ {r})
  BY DEF WaiterHasReplay, Asked
<1>7. ReadsFit(reads', gone) /\ OneAsks(reads') /\ LanesFit(reads', shown', session')
  BY <1>2, <1>3, <1>4, <1>6, FlushJoins
<1>8. MergeFits' /\ WaiterHasReplay'
  BY <1>4, FinishTells
<1>9. WritesFit'
  BY <1>5 DEF WritesFit
<1>10. deferred' \in {"none", "worktree", "all"} /\ paging' \in BOOLEAN
  BY <1>3, FlushTypes
<1>11. PanesFit' /\ SpinnersHaveOwners'
  <2>1. CASE LeaveMissing(r) /\ ~held
    <3>1. /\ {shown', missing', pending'} \subseteq RepoOrNone
          /\ session' \in Nat /\ intent' \in Nat
          /\ shown' = None /\ graph' = "absent" /\ stashes' = "blank" /\ operation' = FALSE
      BY <1>1, <2>1, MissingLeaves DEF Read
    <3>2. PanesFit'
      BY <1>3, <1>5, <1>10, <3>1 DEF PanesFit
    <3>3. ~loading' /\ ~paging'
      BY <1>3, <2>1, <3>1, Zenon DEF FlushPaging
    <3> QED BY <3>1, <3>2, <3>3, DarkScreen
  <2>2. CASE /\ UNCHANGED screenVars /\ (held => loading)
             /\ graph' \in {"absent", "skeleton", "present"}
             /\ graph' = "skeleton" => graph = "skeleton"
             /\ stashes' \in {"blank", "settled"} /\ operation' \in BOOLEAN
             /\ GraphIsCurrent(r) => ~(held /\ ~r.quiet) /\ graph' # "skeleton"
    <3>1. UNCHANGED <<shown, missing, pending, session, intent>>
      BY <2>2 DEF screenVars
    <3>2. PanesFit'
      BY <1>3, <1>5, <1>10, <2>2, <3>1 DEF PanesFit
    <3>3. GraphIsCurrent(r) => ~Answers(r)
      <4>1. r.waiting = {} /\ r.kind = "all"
        BY DEF ReadsFit
      <4>2. GraphIsCurrent(r) => ~(loading' /\ ~r.quiet) /\ graph' # "skeleton"
        BY <1>3, <2>2, Zenon
      <4> QED BY <4>1, <4>2 DEF Answers
    <3>4. \A q \in reads : GraphIsCurrent(q) /\ Answers(q) => \E s \in reads \ {r} : SameOwner(q, s)
      BY <3>3 DEF SameOwner
    <3>5. \A w \in writes : held /\ OwnerIsCurrent(w) /\ w.phase = "running" => w \in writes'
      BY <1>5
    <3>6. SpinnersHaveOwners'
      BY <1>2, <1>3, <1>6, <2>2, <3>1, <3>4, <3>5, FlushAnswers
    <3> QED BY <3>2, <3>6
  <2> QED BY <2>1, <2>2
<1>12. ReadsFit(reads, gone)' /\ OneAsks(reads)' /\ LanesFit(reads, shown, session)'
  BY <1>5, <1>7
<1> QED BY <1>8, <1>9, <1>11, <1>12

\* A full re-sync whose openRepo rejects.
LEMMA ResyncOpenFailsKeeps ==
  ASSUME RefreshInv, NEW r \in reads, ResyncOpenFails(r)
  PROVE  RefreshInv'
<1> USE DEF RefreshInv
<1>1. r.kind = "all" /\ UNCHANGED <<diskVars, writes>>
  BY Zenon DEF ResyncOpenFails
<1>2. loading \in BOOLEAN /\ operation \in BOOLEAN
      /\ graph \in {"absent", "skeleton", "present"} /\ stashes \in {"blank", "settled"}
  BY DEF PanesFit
<1>3. CASE LeaveMissing(r) /\ Finish(r, FALSE, FALSE)
  BY <1>1, <1>3, FinishKeeps
<1>4. CASE /\ graph' = IF graph = "skeleton" THEN "absent" ELSE graph
           /\ UNCHANGED <<screenVars, stashes, operation>>
           /\ Finish(r, HeldAfter(r, TRUE), FALSE)
  <2> DEFINE held == HeldAfter(r, TRUE)
  <2>1. held \in BOOLEAN /\ (held => loading) /\ ~(held /\ ~r.quiet)
    BY <1>2, Zenon DEF HeldAfter
  <2>2. Finish(r, held, FALSE)
    BY <1>4
  <2>3. /\ graph' \in {"absent", "skeleton", "present"} /\ graph' # "skeleton"
        /\ stashes' \in {"blank", "settled"} /\ operation' \in BOOLEAN
        /\ UNCHANGED screenVars
    BY <1>2, <1>4
  <2> HIDE DEF held
  <2> QED BY <1>1, <2>1, <2>2, <2>3, FinishKeeps
<1>5. CASE ~GraphIsCurrent(r) /\ PaneKept /\ Finish(r, loading, FALSE)
  <2>1. UNCHANGED <<screenVars, graph, stashes, operation>>
    BY <1>5 DEF PaneKept, paneVars
  <2> QED BY <1>1, <1>2, <1>5, <2>1, FinishKeeps
<1> QED BY <1>3, <1>4, <1>5, Zenon DEF ResyncOpenFails

\* A full re-sync whose reads have settled.
LEMMA ResyncAnswersKeeps ==
  ASSUME RefreshInv, NEW r \in reads, NEW failed, ResyncAnswers(r, failed)
  PROVE  RefreshInv'
<1> USE DEF RefreshInv
<1> DEFINE graphCurrent == GraphIsCurrent(r)
           metadataCurrent == ReadIsCurrent("metadata", r)
           treeCurrent == ReadIsCurrent("tree", r)
           graphFails == "graph" \in failed /\ graphCurrent
           metadataFails == "branches" \in failed /\ metadataCurrent
           treeFails == "changes" \in failed /\ treeCurrent
           ownedFailure == graphFails \/ metadataFails \/ treeFails
           published == (metadataCurrent /\ ~metadataFails) \/ (treeCurrent /\ ~treeFails)
                        \/ ReadIsCurrent("remotes", r)
           held == HeldAfter(r, graphCurrent)
           result == ~ownedFailure /\ ((graphCurrent /\ ~graphFails) \/ published)
<1>1. r.kind = "all" /\ UNCHANGED <<diskVars, writes>>
  BY Zenon DEF ResyncAnswers
<1>2. loading \in BOOLEAN /\ operation \in BOOLEAN
      /\ graph \in {"absent", "skeleton", "present"} /\ stashes \in {"blank", "settled"}
  BY DEF PanesFit
<1>3. \/ LeaveMissing(r) /\ Finish(r, FALSE, FALSE)
      \/ /\ UNCHANGED screenVars
         /\ graph' = IF ~graphCurrent THEN graph
                     ELSE IF ~graphFails THEN "present"
                     ELSE IF graph = "skeleton" THEN "absent" ELSE graph
         /\ stashes' = IF metadataCurrent /\ ~metadataFails THEN "settled" ELSE stashes
         /\ operation' = IF treeCurrent /\ ~treeFails THEN OperationRead(r, failed)
                         ELSE operation
         /\ Finish(r, held, result)
  BY Zenon DEF ResyncAnswers
<1>4. CASE LeaveMissing(r) /\ Finish(r, FALSE, FALSE)
  BY <1>1, <1>4, FinishKeeps
<1>5. CASE /\ UNCHANGED screenVars
           /\ graph' = IF ~graphCurrent THEN graph
                       ELSE IF ~graphFails THEN "present"
                       ELSE IF graph = "skeleton" THEN "absent" ELSE graph
           /\ stashes' = IF metadataCurrent /\ ~metadataFails THEN "settled" ELSE stashes
           /\ operation' = IF treeCurrent /\ ~treeFails THEN OperationRead(r, failed)
                           ELSE operation
           /\ Finish(r, held, result)
  <2>1. held \in BOOLEAN /\ (held => loading) /\ (graphCurrent => ~(held /\ ~r.quiet))
    BY <1>2, Zenon DEF HeldAfter
  <2>2. result \in BOOLEAN
    OBVIOUS
  <2>3. operation' \in BOOLEAN
    <3>1. OperationRead(r, failed) \in BOOLEAN
      BY DEF OperationRead
    <3> QED BY <1>2, <1>5, <3>1, Zenon
  <2>4. stashes' \in {"blank", "settled"}
    BY <1>2, <1>5
  <2>5. /\ graph' \in {"absent", "skeleton", "present"}
        /\ graph' = "skeleton" => graph = "skeleton"
        /\ graphCurrent => graph' # "skeleton"
    BY <1>2, <1>5
  <2>6. graphCurrent => ~(held /\ ~r.quiet) /\ graph' # "skeleton"
    BY <2>1, <2>5, Zenon
  <2>7. Finish(r, held, result) /\ UNCHANGED screenVars
    BY <1>5
  <2> HIDE DEF held, result
  <2> QED BY <1>1, <2>1, <2>2, <2>3, <2>4, <2>5, <2>6, <2>7, FinishKeeps
<1> QED BY <1>3, <1>4, <1>5, Zenon

\* A re-sync of the working tree alone.
LEMMA WorktreeAnswersKeeps ==
  ASSUME RefreshInv, NEW r \in reads, NEW failed, WorktreeAnswers(r, failed)
  PROVE  RefreshInv'
<1> USE DEF RefreshInv
<1> DEFINE published == ReadIsCurrent("tree", r) /\ "changes" \notin failed
<1>1. /\ r.kind = "worktree" /\ reads' = reads \ {r} /\ deferred' = deferred
      /\ UNCHANGED <<screenVars, diskVars, writes, loading, paging, graph, stashes>>
      /\ operation' = IF published THEN OperationRead(r, failed) ELSE operation
      /\ r.caller = "nobody" => merge' = merge
      /\ r.caller # "nobody" => CallerHears(r, published)
  BY Zenon DEF WorktreeAnswers
<1>2. r.waiting = {}
  BY <1>1 DEF ReadsFit
<1>3. /\ ReadsFit(reads', gone) /\ OneAsks(reads') /\ LanesFit(reads', shown, session)
      /\ r.caller # "nobody" => ~Asked(reads')
      /\ r.caller = "nobody" => (Asked(reads') <=> Asked(reads))
  BY <1>1, DroppedFit
<1>4. operation' \in BOOLEAN
  <2>1. OperationRead(r, failed) \in BOOLEAN /\ operation \in BOOLEAN
    BY DEF OperationRead, PanesFit
  <2> QED BY <1>1, <2>1, Zenon
<1>5. PanesFit' /\ WritesFit'
  BY <1>1, <1>4 DEF PanesFit, WritesFit, screenVars, diskVars
<1>6. MergeFits' /\ WaiterHasReplay'
  <2>1. CASE r.caller = "nobody"
    BY <1>1, <1>3, <2>1 DEF MergeFits, WaiterHasReplay, Asked
  <2>2. CASE r.caller # "nobody"
    <3>1. published \in BOOLEAN
      OBVIOUS
    <3> HIDE DEF published
    <3>2. /\ merge' \in Merge /\ merge'.phase \in {"done", "queued"}
          /\ merge'.phase = "queued" => deferred' # "none"
      BY <1>1, <2>2, <3>1, CallerIsTold DEF MergeFits
    <3> QED BY <1>3, <2>2, <3>2 DEF MergeFits, WaiterHasReplay, Asked
  <2> QED BY <2>1, <2>2
<1>7. SpinnersHaveOwners'
  <2>1. ~Answers(r)
    BY <1>1, <1>2 DEF Answers
  <2>2. \A q \in reads : GraphIsCurrent(q) /\ Answers(q) => \E s \in reads' : SameOwner(q, s)
    BY <1>1, <2>1 DEF SameOwner
  <2> QED BY <1>1, <2>2, SpinnersStay DEF screenVars
<1>8. gone' = gone /\ shown' = shown /\ session' = session
  BY <1>1 DEF diskVars, screenVars
<1> QED BY <1>3, <1>5, <1>6, <1>7, <1>8

\* A part of a load other than its graph answers.
LEMMA LoadPartKeeps ==
  ASSUME RefreshInv, NEW r \in reads, r.kind = "load", NEW part, part # "graph",
         reads' = Answered(r, part), UNCHANGED <<diskVars, writes, merge, deferred>>,
         \/ LeaveMissing(r) /\ loading' = FALSE /\ paging' = FALSE
         \/ /\ UNCHANGED <<screenVars, loading, paging, graph>>
            /\ stashes' \in {"blank", "settled"} /\ operation' \in BOOLEAN
  PROVE  RefreshInv'
<1> USE DEF RefreshInv
<1>1. r.path \in Repos
  BY DEF ReadsFit, Read
<1>2. /\ ReadsFit(reads', gone) /\ OneAsks(reads')
      /\ Asked(reads') <=> Asked(reads)
      /\ LanesFit(reads', shown, session)
      /\ \A q \in reads : q = r \/ q \in reads'
      /\ "graph" \in r.waiting => \E s \in reads' : SameOwner(r, s)
  <2>1. ReadsFit(reads', gone) /\ OneAsks(reads') /\ (Asked(reads') <=> Asked(reads))
    BY AnsweredFit
  <2>2. LanesFit(reads', shown, session)
    BY AnsweredFit
  <2>3. \A q \in reads : q = r \/ q \in reads'
    BY AnsweredFit
  <2>4. "graph" \in r.waiting => \E s \in reads' : SameOwner(r, s)
    BY AnsweredFit
  <2> QED BY <2>1, <2>2, <2>3, <2>4
<1>3. gone' = gone /\ conflicted' = conflicted /\ writes' = writes /\ merge' = merge /\ deferred' = deferred
  BY DEF diskVars
<1>4. MergeFits' /\ WaiterHasReplay' /\ WritesFit'
  BY <1>2, <1>3 DEF MergeFits, WaiterHasReplay, WritesFit, Asked
<1>5. CASE LeaveMissing(r) /\ loading' = FALSE /\ paging' = FALSE
  <2>1. /\ {shown', missing', pending'} \subseteq RepoOrNone
        /\ session' \in Nat /\ intent' \in Nat
        /\ shown' = None /\ graph' = "absent" /\ stashes' = "blank" /\ operation' = FALSE
    BY <1>1, <1>5, MissingLeaves
  <2>2. PanesFit'
    BY <1>3, <1>5, <2>1 DEF PanesFit
  <2>3. SpinnersHaveOwners'
    BY <1>5, <2>1, DarkScreen
  <2>4. LanesFit(reads, shown, session)'
    BY <2>1 DEF LanesFit
  <2> QED BY <1>2, <1>3, <1>4, <2>2, <2>3, <2>4
<1>6. CASE /\ UNCHANGED <<screenVars, loading, paging, graph>>
           /\ stashes' \in {"blank", "settled"} /\ operation' \in BOOLEAN
  <2>1. PanesFit'
    BY <1>3, <1>6 DEF PanesFit, screenVars
  <2>2. ASSUME NEW q \in reads, Answers(q) PROVE \E s \in reads' : SameOwner(q, s)
    <3>1. CASE q = r
      BY <1>2, <2>2, <3>1 DEF Answers
    <3>2. CASE q \in reads'
      BY <3>2 DEF SameOwner
    <3> QED BY <1>2, <3>1, <3>2
  <2>3. SpinnersHaveOwners'
    BY <1>3, <1>6, <2>2, SpinnersStay DEF screenVars
  <2>4. LanesFit(reads, shown, session)'
    BY <1>2, <1>6 DEF screenVars
  <2> QED BY <1>2, <1>3, <1>4, <2>1, <2>3, <2>4
<1> QED BY <1>5, <1>6

\* The graph of a load answers, or fails.
LEMMA LoadGraphKeeps ==
  ASSUME RefreshInv, NEW r \in reads, r.kind = "load", NEW ok \in BOOLEAN,
         LoadGraphAnswers(r, ok)
  PROVE  RefreshInv'
<1> USE DEF RefreshInv
<1> DEFINE left == Answered(r, "graph")
<1>1. r.path \in Repos
  BY DEF ReadsFit, Read
<1>2. ReadsFit(left, gone) /\ OneAsks(left) /\ (Asked(left) <=> Asked(reads))
  BY AnsweredFit
<1>3. LanesFit(left, shown, session)
  BY AnsweredFit
<1>4. \A q \in reads : q = r \/ q \in left
  BY AnsweredFit
<1>5. /\ loading' = FALSE /\ UNCHANGED <<diskVars, writes>>
      /\ FlushReads(left, FALSE) /\ FlushDeferred(FALSE) /\ FlushPaging(FALSE)
      /\ FlushWaiters(FALSE)
      /\ \/ LeaveMissing(r)
         \/ graph' \in {"present", "absent"} /\ UNCHANGED <<screenVars, stashes, operation>>
  BY Zenon DEF LoadGraphAnswers, Flush
<1> HIDE DEF left
<1>6. gone' = gone /\ conflicted' = conflicted /\ writes' = writes
  BY <1>5 DEF diskVars
<1>7. shown' # None => shown' = shown /\ session' = session
  BY <1>1, <1>5, MissingLeaves DEF screenVars
<1>8. merge.phase = "queued" => ~Asked(left)
  BY <1>2 DEF WaiterHasReplay, Asked
<1>9. ReadsFit(reads', gone) /\ OneAsks(reads') /\ LanesFit(reads', shown', session')
  BY <1>2, <1>3, <1>5, <1>7, <1>8, FlushJoins
<1>10. MergeFits' /\ WaiterHasReplay'
  BY <1>2, <1>5, <1>7, FlushTells
<1>11. deferred' \in {"none", "worktree", "all"} /\ paging' \in BOOLEAN
  BY <1>5, FlushTypes
<1>12. WritesFit'
  BY <1>6 DEF WritesFit
<1>13. CASE LeaveMissing(r)
  <2>1. /\ {shown', missing', pending'} \subseteq RepoOrNone
        /\ session' \in Nat /\ intent' \in Nat
        /\ shown' = None /\ graph' = "absent" /\ stashes' = "blank" /\ operation' = FALSE
    BY <1>1, <1>13, MissingLeaves
  <2>2. PanesFit'
    BY <1>5, <1>6, <1>11, <2>1 DEF PanesFit
  <2>3. ~paging'
    BY <1>5, <2>1, Zenon DEF FlushPaging
  <2>4. SpinnersHaveOwners'
    BY <1>5, <2>1, <2>3, DarkScreen
  <2> QED BY <1>6, <1>9, <1>10, <1>12, <2>2, <2>4
<1>14. CASE graph' \in {"present", "absent"} /\ UNCHANGED <<screenVars, stashes, operation>>
  <2>1. UNCHANGED <<shown, missing, pending, session, intent>>
    BY <1>14 DEF screenVars
  <2>2. PanesFit'
    BY <1>5, <1>6, <1>11, <1>14, <2>1 DEF PanesFit
  <2>3. \A q \in reads : GraphIsCurrent(q) /\ Answers(q) => \E s \in left : SameOwner(q, s)
    BY <1>4, <1>5, <1>14 DEF Answers, SameOwner
  <2>4. SpinnersHaveOwners'
    BY <1>2, <1>5, <1>8, <1>14, <2>1, <2>3, FlushAnswers
  <2> QED BY <1>6, <1>9, <1>10, <1>12, <2>2, <2>4
<1> QED BY <1>5, <1>13, <1>14

\* An answer that no longer counts is dropped with what it answered for.
LEMMA DropKeeps ==
  ASSUME RefreshInv, NEW r \in reads, r.caller = "nobody", reads' = reads \ {r},
         GraphIsCurrent(r) => ~Answers(r),
         UNCHANGED <<screenVars, diskVars, writes, merge, loading, paneVars, deferred>>,
         paging' \in BOOLEAN, paging' => paging
  PROVE  RefreshInv'
<1> USE DEF RefreshInv
<1>1. /\ ReadsFit(reads', gone) /\ OneAsks(reads') /\ (Asked(reads') <=> Asked(reads))
      /\ LanesFit(reads', shown, session)
  BY DroppedFit
<1>2. UNCHANGED <<shown, missing, pending, session, intent, gone, conflicted, writes, merge,
                  loading, graph, stashes, operation, deferred>>
  BY DEF screenVars, diskVars, paneVars
<1>3. PanesFit' /\ WritesFit' /\ MergeFits' /\ WaiterHasReplay'
  BY <1>1, <1>2 DEF PanesFit, WritesFit, MergeFits, WaiterHasReplay, Asked
<1>4. \A q \in reads : GraphIsCurrent(q) /\ Answers(q) => \E s \in reads' : SameOwner(q, s)
  BY DEF SameOwner
<1>5. SpinnersHaveOwners'
  BY <1>2, <1>4, SpinnersStay
<1> QED BY <1>1, <1>2, <1>3, <1>5

\* Every answer to a read keeps the invariant.
LEMMA AnswerKeeps ==
  ASSUME RefreshInv, NEW r \in reads, Answer(r)
  PROVE  RefreshInv'
<1>1. ReadsFit(reads, gone) /\ PanesFit
  BY DEF RefreshInv
<1>2. ASSUME r.kind = "load", LoadSuperseded(r) PROVE RefreshInv'
  <2>1. r.caller = "nobody"
    BY <1>1, <1>2 DEF ReadsFit, Scopes
  <2>2. GraphIsCurrent(r) => ~Answers(r)
    BY <1>2 DEF LoadSuperseded, PartIsCurrent, Answers
  <2>3. UNCHANGED <<screenVars, diskVars, writes, merge, loading, paneVars, deferred>>
    BY <1>2 DEF LoadSuperseded, PaneKept
  <2>4. paging' \in BOOLEAN /\ (paging' => paging) /\ reads' = reads \ {r}
    BY <1>1, <1>2 DEF LoadSuperseded, PanesFit
  <2> QED BY <2>1, <2>2, <2>3, <2>4, DropKeeps
<1>3. ASSUME r.kind = "load", LoadStashesAnswers(r) PROVE RefreshInv'
  <2>1. stashes' \in {"blank", "settled"} /\ operation' \in BOOLEAN
    BY <1>1, <1>3 DEF LoadStashesAnswers, PanesFit
  <2> QED BY <1>3, <2>1, LoadPartKeeps DEF LoadStashesAnswers
<1>4. ASSUME r.kind = "load", NEW ok \in BOOLEAN, LoadGraphAnswers(r, ok) PROVE RefreshInv'
  BY <1>4, LoadGraphKeeps
<1>5. ASSUME r.kind = "load", NEW part \in {"branches", "changes"}, NEW ok \in BOOLEAN,
             LoadRequiredAnswers(r, part, ok)
      PROVE  RefreshInv'
  <2>1. /\ reads' = Answered(r, part) /\ UNCHANGED <<diskVars, writes, merge, deferred>>
        /\ \/ LeaveMissing(r) /\ loading' = FALSE /\ paging' = FALSE
           \/ PaneKept /\ UNCHANGED <<loading, paging>>
    BY <1>5, Zenon DEF LoadRequiredAnswers
  <2>2. PaneKept => /\ UNCHANGED <<screenVars, graph>>
                    /\ stashes' \in {"blank", "settled"} /\ operation' \in BOOLEAN
    BY <1>1 DEF PaneKept, paneVars, PanesFit
  <2>3. part # "graph"
    OBVIOUS
  <2> QED BY <1>5, <2>1, <2>2, <2>3, LoadPartKeeps
<1>6. ASSUME r.kind = "load", NEW ok \in BOOLEAN, LoadOperationAnswers(r, ok) PROVE RefreshInv'
  <2>1. operation \in BOOLEAN /\ stashes \in {"blank", "settled"}
    BY <1>1 DEF PanesFit
  <2>2. operation' \in BOOLEAN
    <3>1. operation' = IF ok THEN r.path \in conflicted ELSE operation
      BY <1>6, Zenon DEF LoadOperationAnswers
    <3>2. (r.path \in conflicted) \in BOOLEAN
      OBVIOUS
    <3> QED BY <2>1, <3>1, <3>2, Zenon
  <2>3. /\ reads' = Answered(r, "operation") /\ stashes' = stashes
        /\ UNCHANGED <<screenVars, loading, paging, graph>>
        /\ UNCHANGED <<diskVars, writes, merge, deferred>>
    BY <1>6 DEF LoadOperationAnswers
  <2> QED BY <1>6, <2>1, <2>2, <2>3, LoadPartKeeps
<1>7. ASSUME PageAnswers(r) PROVE RefreshInv'
  <2>1. r.kind = "page" /\ reads' = reads \ {r}
    BY <1>7, Zenon DEF PageAnswers
  <2>2. r.caller = "nobody" /\ r.waiting = {}
    BY <1>1, <2>1 DEF ReadsFit, Scopes
  <2>3. UNCHANGED <<screenVars, diskVars, writes, merge, loading, paneVars, deferred>>
    BY <1>7 DEF PageAnswers
  <2>4. paging' \in BOOLEAN /\ (paging' => paging /\ ~GraphIsCurrent(r))
    BY <1>7, Zenon DEF PageAnswers
  <2>5. GraphIsCurrent(r) => ~Answers(r)
    BY <2>1, <2>2, <2>4 DEF Answers
  <2> QED BY <2>1, <2>2, <2>3, <2>4, <2>5, DropKeeps
<1>8. ASSUME LoadAnswers(r) PROVE RefreshInv'
  BY <1>2, <1>3, <1>4, <1>5, <1>6, <1>8 DEF LoadAnswers
<1> QED BY <1>7, <1>8, ResyncOpenFailsKeeps, ResyncAnswersKeeps, WorktreeAnswersKeeps DEF Answer

\* A step beside the repository on screen: of the pick, or outside the application.
LEMMA BesideKeeps ==
  ASSUME RefreshInv, shown' = shown, session' = session, {missing', pending'} \subseteq RepoOrNone,
         intent' \in Nat, gone \subseteq gone', gone' \subseteq Repos, conflicted' \subseteq Repos,
         UNCHANGED <<reads, writes, merge, loading, paging, paneVars, deferred>>
  PROVE  RefreshInv'
<1> USE DEF RefreshInv
<1>1. UNCHANGED <<graph, stashes, operation>>
  BY DEF paneVars
<1>2. PanesFit'
  BY <1>1 DEF PanesFit
<1>3. WritesFit' /\ MergeFits' /\ WaiterHasReplay'
  BY DEF WritesFit, MergeFits, WaiterHasReplay
<1>4. SpinnersHaveOwners'
  BY <1>1, SpinnersStay DEF SameOwner
<1>5. ReadsFit(reads', gone') /\ OneAsks(reads') /\ LanesFit(reads', shown', session')
  BY DEF ReadsFit, OneAsks, LanesFit
<1> QED BY <1>2, <1>3, <1>4, <1>5

\* An open lands: its load takes every lane.
LEMMA LandKeeps ==
  ASSUME RefreshInv, Land
  PROVE  RefreshInv'
<1> USE DEF RefreshInv
<1> DEFINE load == [id |-> FreshId(reads), kind |-> "load", path |-> shown',
                    session |-> session', intent |-> intent, owns |-> Lanes,
                    quiet |-> FALSE, caller |-> "nobody", doomed |-> FALSE,
                    waiting |-> LoadParts]
<1>1. /\ shown' \in Repos /\ missing' = None /\ pending' = None
      /\ session' \in Nat /\ intent' \in Nat
  BY DEF Land, Screen!Land, PanesFit, RepoOrNone
<1>2. /\ reads' = Claimed(Lanes, reads) \cup {load}
      /\ graph' = "skeleton" /\ stashes' = "blank" /\ operation' = FALSE
      /\ paging' = FALSE /\ loading' = TRUE
      /\ UNCHANGED <<diskVars, writes, merge, deferred>>
  BY DEF Land
<1>3. FreshId(reads) \in Nat \ {0}
  BY FreshIdIsAnId DEF ReadsFit
<1>4. /\ load \in Read /\ load.path = shown' /\ load.session = session' /\ load.kind = "load"
      /\ load.caller = "nobody" /\ load.doomed = FALSE /\ load.owns = Lanes
      /\ load.waiting = LoadParts
  BY <1>1, <1>3 DEF Read, PanesFit
<1> HIDE DEF load
<1>5. ~load.doomed
  BY <1>4
<1>6. /\ ReadsFit(reads', gone) /\ OneAsks(reads') /\ (Asked(reads') <=> Asked(reads))
      /\ load \in reads'
  BY <1>2, <1>4, <1>5, JoinedFit
<1>7. LanesFit(reads', shown', session')
  <2>1. \A s \in Claimed(Lanes, reads) : s.owns \cap Lanes = {}
    BY ClaimedFit
  <2>2. ReadsFit(Claimed(Lanes, reads), gone)
    BY ClaimedFit
  <2>3. \A s \in Claimed(Lanes, reads) : s.owns = {}
    BY <2>1, <2>2 DEF ReadsFit, Read
  <2> QED BY <1>2, <1>4, <2>3 DEF LanesFit
<1>8. gone' = gone /\ conflicted' = conflicted /\ writes' = writes /\ merge' = merge /\ deferred' = deferred
  BY <1>2 DEF diskVars
<1>9. PanesFit'
  BY <1>1, <1>2, <1>8 DEF PanesFit, RepoOrNone
<1>10. WritesFit' /\ MergeFits' /\ WaiterHasReplay'
  BY <1>6, <1>8 DEF WritesFit, MergeFits, WaiterHasReplay, Asked
<1>11. SpinnersHaveOwners'
  <2>1. PICK r \in reads' : "graph" \in r.owns /\ r.path = shown' /\ "graph" \in r.waiting
    BY <1>4, <1>6 DEF Lanes, LoadParts
  <2>2. GraphIsCurrent(r)'
    BY <2>1 DEF GraphIsCurrent
  <2>3. ~paging'
    BY <1>2
  <2> QED BY <2>1, <2>2, <2>3 DEF SpinnersHaveOwners
<1> QED BY <1>6, <1>7, <1>8, <1>9, <1>10, <1>11

\* The screen is left.
LEMMA GoAwayKeeps ==
  ASSUME RefreshInv, GoAway
  PROVE  RefreshInv'
<1> USE DEF RefreshInv
<1>1. \/ \E p \in Repos : Screen!GoMissing(p)
      \/ Screen!Leave
  <2>1. ASSUME pending \in gone, Screen!GoMissing(pending) PROVE \E p \in Repos : Screen!GoMissing(p)
    <3>1. pending \in Repos
      BY <2>1 DEF PanesFit
    <3> QED BY <2>1, <3>1
  <2> QED BY <2>1, Zenon DEF GoAway
<1>2. shown' = None
  BY <1>1 DEF Screen!GoMissing, Screen!Leave
<1>3. /\ {shown', missing', pending'} \subseteq RepoOrNone
      /\ session' \in Nat /\ intent' \in Nat
  BY <1>1, ScreenMoves
<1>4. /\ graph' = "absent" /\ stashes' = "blank" /\ operation' = FALSE
      /\ paging' = FALSE /\ loading' = FALSE
      /\ UNCHANGED <<gone, conflicted, reads, writes, merge, deferred>>
  BY DEF GoAway, Wipe, diskVars
<1>5. PanesFit'
  BY <1>3, <1>4 DEF PanesFit
<1>6. WritesFit' /\ MergeFits' /\ WaiterHasReplay' /\ LanesFit(reads', shown', session')
  BY <1>2, <1>4 DEF WritesFit, MergeFits, WaiterHasReplay, LanesFit
<1>7. SpinnersHaveOwners'
  BY <1>4, DarkScreen
<1> QED BY <1>4, <1>5, <1>6, <1>7

\* The screen and the disk move.
LEMMA NavigateKeeps ==
  ASSUME RefreshInv, Navigate \/ Outside
  PROVE  RefreshInv'
<1>1. PanesFit
  BY DEF RefreshInv
<1>2. ASSUME NEW p \in Repos, Ask(p) PROVE RefreshInv'
  <2>1. Screen!Ask(p) /\ UNCHANGED <<diskVars, reads, writes, merge, loading, paging, paneVars, deferred>>
    BY <1>2 DEF Ask
  <2>2. shown' = shown /\ session' = session
    BY <2>1 DEF Screen!Ask
  <2>3. {shown', missing', pending'} \subseteq RepoOrNone /\ intent' \in Nat
    BY <1>1, <2>1, ScreenMoves
  <2> QED BY <1>1, <2>1, <2>2, <2>3, BesideKeeps DEF diskVars, PanesFit
<1>3. ASSUME Forget PROVE RefreshInv'
  <2>1. Screen!Forget /\ UNCHANGED <<diskVars, reads, writes, merge, loading, paging, paneVars, deferred>>
    BY <1>3 DEF Forget
  <2>2. shown' = shown /\ session' = session
    BY <2>1 DEF Screen!Forget
  <2>3. {shown', missing', pending'} \subseteq RepoOrNone /\ intent' \in Nat
    BY <1>1, <2>1, ScreenMoves
  <2> QED BY <1>1, <2>1, <2>2, <2>3, BesideKeeps DEF diskVars, PanesFit
<1>4. ASSUME NEW r \in Repos, FolderDeleted(r) PROVE RefreshInv'
  BY <1>1, <1>4, BesideKeeps DEF FolderDeleted, screenVars, PanesFit
<1>5. ASSUME NEW r \in Repos, TerminalMerge(r) PROVE RefreshInv'
  BY <1>1, <1>5, BesideKeeps DEF TerminalMerge, screenVars, PanesFit
<1> QED BY <1>2, <1>3, <1>4, <1>5, LandKeeps, GoAwayKeeps DEF Navigate, Outside

\* A re-sync is asked for, by the user, by a write that succeeded or by a merge.
LEMMA RefreshKeeps ==
  ASSUME RefreshInv, shown \in Repos, UNCHANGED <<screenVars, gone, writes, paneVars>>,
         conflicted' \subseteq Repos,
         NEW scope \in Scopes, NEW quiet \in BOOLEAN, NEW caller \in Callers,
         scope = "worktree" => quiet, caller # "nobody" => merge.phase = "running",
         Refresh(scope, quiet, caller, reads, loading),
         merge' \in Merge, merge'.phase # "running" \/ merge' = merge,
         caller = "nobody" => merge' = merge \/ (merge.phase = "running" /\ merge'.phase = "idle"),
         caller # "nobody" => merge'.phase = IF loading THEN "queued" ELSE "reading"
  PROVE  RefreshInv'
<1> USE DEF RefreshInv
<1>1. UNCHANGED <<shown, missing, pending, session, intent, gone, writes, graph, stashes,
                  operation>>
  BY DEF screenVars, paneVars
<1>2. caller # "nobody" => ~Asked(reads)
  BY DEF WaiterHasReplay, Asked
<1>3. /\ ReadsFit(reads', gone) /\ OneAsks(reads')
      /\ Asked(reads') <=> Asked(reads) \/ (caller # "nobody" /\ ~loading)
      /\ LanesFit(reads', shown, session)
      /\ deferred' \in {"none", "worktree", "all"}
      /\ loading => deferred' # "none"
      /\ ~loading => deferred' = deferred
  BY <1>2, RefreshJoins
<1>4. loading' \in BOOLEAN /\ paging' \in BOOLEAN
  <2>1. /\ loading => loading' = TRUE /\ paging' = paging
        /\ ~loading => loading' = ~quiet /\ paging' = (paging /\ scope = "worktree")
    BY Zenon DEF Refresh
  <2>2. paging \in BOOLEAN
    BY DEF PanesFit
  <2> QED BY <2>1, <2>2, Zenon
<1>5. PanesFit' /\ WritesFit'
  BY <1>1, <1>3, <1>4 DEF PanesFit, WritesFit
<1>6. SpinnersHaveOwners'
  BY <1>1, <1>2, RefreshAnswers
<1>7. MergeFits'
  BY DEF MergeFits
<1>8. WaiterHasReplay'
  <2>1. (merge.phase = "reading" <=> Asked(reads)) /\ (merge.phase = "queued" => deferred # "none")
    BY DEF WaiterHasReplay, Asked
  <2>2. CASE caller = "nobody"
    BY <1>3, <2>1, <2>2 DEF WaiterHasReplay, Asked
  <2>3. CASE caller # "nobody"
    BY <1>2, <1>3, <2>3 DEF WaiterHasReplay, Asked
  <2> QED BY <2>2, <2>3
<1> QED BY <1>1, <1>3, <1>5, <1>6, <1>7, <1>8

\* The user asks for a re-sync.
LEMMA StartResyncKeeps ==
  ASSUME RefreshInv, NEW scope \in Scopes, NEW quiet \in BOOLEAN, StartResync(scope, quiet)
  PROVE  RefreshInv'
<1>1. shown \in Repos
  BY DEF StartResync, RefreshInv, PanesFit, RepoOrNone
<1>2. /\ UNCHANGED <<screenVars, diskVars, writes, paneVars>> /\ merge' = merge
      /\ scope = "worktree" => quiet
      /\ Refresh(scope, quiet, "nobody", reads, loading)
  BY Zenon DEF StartResync
<1>3. merge \in Merge
  BY DEF RefreshInv, MergeFits
<1> QED BY <1>1, <1>2, <1>3, RefreshKeeps DEF Callers, diskVars, RefreshInv, PanesFit

\* The user asks for the next page of the history.
LEMMA StartPageKeeps ==
  ASSUME RefreshInv, StartPage
  PROVE  RefreshInv'
<1> USE DEF RefreshInv
<1>1. PICK page : page = [id |-> FreshId(reads), kind |-> "page", path |-> shown,
        session |-> session, intent |-> intent, owns |-> {"graph"}, quiet |-> TRUE,
        caller |-> "nobody", doomed |-> FALSE, waiting |-> {}]
  OBVIOUS
<1>2. /\ shown # None /\ graph = "present" /\ ~loading /\ paging' = TRUE
      /\ reads' = Claimed({"graph"}, reads) \cup {page}
      /\ UNCHANGED <<screenVars, diskVars, writes, merge, loading, paneVars, deferred>>
  BY <1>1 DEF StartPage
<1>3. FreshId(reads) \in Nat \ {0}
  BY FreshIdIsAnId DEF ReadsFit
<1>4. /\ page \in Read /\ page.path = shown /\ page.session = session /\ page.kind = "page"
      /\ page.caller = "nobody" /\ page.doomed = FALSE /\ page.owns = {"graph"}
      /\ page.waiting = {}
  BY <1>1, <1>2, <1>3 DEF Read, PanesFit, RepoOrNone, Lanes
<1>5. ~page.doomed
  BY <1>4
<1>6. /\ ReadsFit(reads', gone) /\ OneAsks(reads') /\ (Asked(reads') <=> Asked(reads))
      /\ page \in reads' /\ LanesFit(reads', shown, session)
  BY <1>2, <1>4, <1>5, JoinedFit
<1>7. UNCHANGED <<shown, missing, pending, session, intent, gone, conflicted, writes, merge,
                  loading, graph, stashes, operation, deferred>>
  BY <1>2 DEF screenVars, diskVars, paneVars
<1>8. PanesFit' /\ WritesFit' /\ MergeFits' /\ WaiterHasReplay'
  BY <1>2, <1>6, <1>7 DEF PanesFit, WritesFit, MergeFits, WaiterHasReplay, Asked
<1>9. SpinnersHaveOwners'
  <2>1. GraphIsCurrent(page)'
    BY <1>4, <1>7 DEF GraphIsCurrent
  <2>2. ~loading' /\ graph' # "skeleton"
    BY <1>2, <1>7
  <2> QED BY <1>4, <1>6, <2>1, <2>2 DEF SpinnersHaveOwners
<1> QED BY <1>6, <1>7, <1>8, <1>9

-----------------------------------------------------------------------------
(* Writes.                                                                   *)

\* A write begins, moves on or ends without touching what is read.
LEMMA WriteMoves ==
  ASSUME RefreshInv, WritesFit', shown' = shown, session' = session,
         {missing', pending'} \subseteq RepoOrNone, intent' \in Nat,
         UNCHANGED <<diskVars, merge, paging, paneVars, deferred>>,
         reads' \in {reads, Claimed({"metadata"}, reads)}, loading' \in BOOLEAN,
         \/ \E w \in writes' : OwnerIsCurrent(w)' /\ w.phase = "running"
         \/ /\ loading' => loading
            /\ \A w \in writes : loading' /\ OwnerIsCurrent(w) /\ w.phase = "running" => w \in writes'
  PROVE  RefreshInv'
<1> USE DEF RefreshInv
<1>1. UNCHANGED <<gone, conflicted, graph, stashes, operation>>
  BY DEF diskVars, paneVars
<1>2. /\ ReadsFit(reads', gone) /\ OneAsks(reads') /\ (Asked(reads') <=> Asked(reads))
      /\ LanesFit(reads', shown, session)
  BY ClaimedFit
<1>3. \A r \in reads : \E s \in reads' : SameOwner(r, s)
  <2>1. CASE reads' = reads
    BY <2>1 DEF SameOwner
  <2>2. CASE reads' = Claimed({"metadata"}, reads)
    <3>1. \A r \in reads : \E s \in Claimed({"metadata"}, reads) : SameOwner(r, s)
      BY ClaimedFit
    <3> QED BY <2>2, <3>1
  <2> QED BY <2>1, <2>2
<1>4. PanesFit' /\ MergeFits' /\ WaiterHasReplay'
  BY <1>1, <1>2 DEF PanesFit, MergeFits, WaiterHasReplay, Asked
<1>5. SpinnersHaveOwners'
  <2>1. CASE /\ loading' => loading
             /\ \A w \in writes : loading' /\ OwnerIsCurrent(w) /\ w.phase = "running" => w \in writes'
    BY <1>1, <1>3, <2>1, SpinnersStay
  <2>2. CASE \E w \in writes' : OwnerIsCurrent(w)' /\ w.phase = "running"
    <3>1. ASSUME NEW r \in reads, GraphIsCurrent(r)
          PROVE  \E s \in reads' : SameOwner(r, s) /\ GraphIsCurrent(s)'
      BY <1>3, <3>1, SameOwnerAnswers
    <3>2. graph' = "skeleton" =>
            \E r \in reads' : GraphIsCurrent(r)' /\ (r.kind = "all" \/ "graph" \in r.waiting)
      BY <1>1, <3>1 DEF SpinnersHaveOwners, SameOwner
    <3>3. paging' => \E r \in reads' : GraphIsCurrent(r)' /\ r.kind = "page"
      BY <3>1 DEF SpinnersHaveOwners, SameOwner
    <3> QED BY <2>2, <3>2, <3>3, Zenon DEF SpinnersHaveOwners
  <2> QED BY <2>1, <2>2
<1> QED BY <1>1, <1>2, <1>4, <1>5

\* What a write that begins captures.
LEMMA OwnerFits ==
  ASSUME RefreshInv, NEW kind \in {"fetch", "checkout", "move"},
         NEW phase \in {"probing", "running"}, Begin(kind, phase)
  PROVE  /\ WritesFit'
         /\ UNCHANGED <<screenVars, diskVars, merge, paging, paneVars, deferred>>
         /\ \A w \in writes : w \in writes'
         /\ \E w \in writes' : OwnerIsCurrent(w) /\ w.phase = phase
<1>1. PICK w : w = Owner(kind, phase)
  OBVIOUS
<1>2. /\ kind \in WriteKinds /\ shown \in Repos /\ writes' = writes \cup {w}
      /\ UNCHANGED <<screenVars, diskVars, merge, paging, paneVars, deferred>>
  BY <1>1 DEF Begin, RefreshInv, PanesFit, RepoOrNone
<1>3. w \in Write /\ w.kind = kind /\ w.phase = phase /\ w.path = shown /\ w.session = session
  BY <1>1, <1>2 DEF Owner, Write, RefreshInv, PanesFit
<1> QED BY <1>2, <1>3 DEF WritesFit, RefreshInv, OwnerIsCurrent

\* Everything a user or a timer begins.
LEMMA GestureKeeps ==
  ASSUME RefreshInv, Gesture
  PROVE  RefreshInv'
<1>1. PanesFit /\ WritesFit /\ MergeFits
  BY DEF RefreshInv
<1>2. ASSUME StartFetch \/ StartMove PROVE RefreshInv'
  <2>1. PICK kind \in {"fetch", "move"} : Begin(kind, "running") /\ loading' = TRUE /\ reads' = reads
    BY <1>2 DEF StartFetch, StartMove
  <2>2. /\ WritesFit' /\ UNCHANGED <<screenVars, diskVars, merge, paging, paneVars, deferred>>
        /\ \E w \in writes' : OwnerIsCurrent(w) /\ w.phase = "running"
    BY <2>1, OwnerFits
  <2>3. UNCHANGED <<shown, missing, pending, session, intent>>
    BY <2>2 DEF screenVars
  <2>4. \E w \in writes' : OwnerIsCurrent(w)' /\ w.phase = "running"
    BY <2>2, <2>3 DEF OwnerIsCurrent
  <2> QED BY <1>1, <2>1, <2>2, <2>3, <2>4, WriteMoves DEF PanesFit
<1>3. ASSUME StartCheckout PROVE RefreshInv'
  <2>1. Begin("checkout", "probing") /\ loading' = loading /\ reads' = Claimed({"metadata"}, reads)
    BY <1>3 DEF StartCheckout
  <2>2. /\ WritesFit' /\ UNCHANGED <<screenVars, diskVars, merge, paging, paneVars, deferred>>
        /\ \A w \in writes : w \in writes'
    BY <2>1, OwnerFits
  <2>3. UNCHANGED <<shown, missing, pending, session, intent>>
    BY <2>2 DEF screenVars
  <2> QED BY <1>1, <2>1, <2>2, <2>3, WriteMoves DEF PanesFit
<1>4. ASSUME StartMerge PROVE RefreshInv'
  <2>1. shown \in Repos /\ operation \in BOOLEAN
    BY <1>1, <1>4 DEF StartMerge, PanesFit, RepoOrNone
  <2>2. /\ merge.phase \in {"idle", "done"}
        /\ UNCHANGED <<screenVars, diskVars, reads, writes, loading, paging, paneVars, deferred>>
        /\ merge' = [NoMerge EXCEPT !.phase = "running", !.path = shown,
                                    !.session = session, !.had = operation]
    BY <1>4 DEF StartMerge
  <2>3. merge' \in Merge /\ merge'.phase = "running" /\ merge'.path \in Repos
    BY <1>1, <2>1, <2>2 DEF NoMerge, Merge, PanesFit, RepoOrNone
  <2>4. MergeFits' /\ WaiterHasReplay'
    BY <2>2, <2>3 DEF MergeFits, WaiterHasReplay, RefreshInv
  <2>5. UNCHANGED <<shown, missing, pending, session, intent, gone, conflicted, reads, writes,
                    loading, paging, graph, stashes, operation, deferred>>
    BY <2>2 DEF screenVars, diskVars, paneVars
  <2>6. SpinnersHaveOwners'
    BY <2>5, SpinnersStay DEF SameOwner, RefreshInv
  <2>7. PanesFit' /\ WritesFit'
    BY <1>1, <2>5 DEF PanesFit, WritesFit
  <2> QED BY <2>4, <2>5, <2>6, <2>7 DEF RefreshInv
<1>5. ASSUME NEW scope \in {"worktree", "all"}, NEW quiet \in BOOLEAN, StartResync(scope, quiet)
      PROVE  RefreshInv'
  BY <1>5, StartResyncKeeps DEF Scopes
<1> QED BY <1>2, <1>3, <1>4, <1>5, StartPageKeeps DEF Gesture

\* The end of a fetch or of a checkout: whatever held loading, its re-sync does now.
LEMMA WriteSucceedsKeeps ==
  ASSUME RefreshInv, NEW w, WriteSucceeds(w)
  PROVE  RefreshInv'
<1> USE DEF RefreshInv
<1>1. /\ w \in writes /\ writes' = writes \ {w} /\ merge' = merge
      /\ UNCHANGED <<screenVars, diskVars, paneVars>>
      /\ OwnerIsCurrent(w) => Refresh("all", FALSE, "nobody", reads, FALSE)
      /\ ~OwnerIsCurrent(w) => UNCHANGED <<loading, reads, deferred, paging>>
  BY Zenon DEF WriteSucceeds, ReleaseAndRefresh, Ends
<1>2. UNCHANGED <<shown, missing, pending, session, intent, gone, conflicted, graph, stashes, operation>>
  BY <1>1 DEF screenVars, diskVars, paneVars
<1>3. WritesFit'
  BY <1>1 DEF WritesFit
<1>4. CASE ~OwnerIsCurrent(w)
  BY <1>1, <1>2, <1>3, <1>4, WriteMoves DEF PanesFit
<1>5. CASE OwnerIsCurrent(w)
  <2>1. shown \in Repos
    BY <1>1, <1>5 DEF OwnerIsCurrent, WritesFit, Write
  <2>2. Refresh("all", FALSE, "nobody", reads, FALSE)
    BY <1>1, <1>5
  <2>3. PICK quiet \in BOOLEAN : quiet = FALSE
    OBVIOUS
  <2>4. PICK held \in BOOLEAN : held = FALSE
    OBVIOUS
  <2>5. Refresh("all", quiet, "nobody", reads, held)
    BY <2>2, <2>3, <2>4
  <2>6. /\ ReadsFit(reads', gone) /\ OneAsks(reads')
        /\ Asked(reads') <=> Asked(reads) \/ ("nobody" # "nobody" /\ ~held)
        /\ LanesFit(reads', shown, session)
        /\ ~held /\ "all" = "all" => \E q \in reads' :
             "graph" \in q.owns /\ q.path = shown /\ q.kind = "all" /\ q.quiet = quiet
        /\ ~held => deferred' = deferred
    BY <2>1, <2>5, RefreshJoins DEF Scopes, Callers
  <2>7. loading' = TRUE /\ paging' = (paging /\ FALSE)
    BY <2>2, Zenon DEF Refresh
  <2>8. ~paging' /\ paging' \in BOOLEAN
    BY <2>7, Zenon
  <2>9. PanesFit' /\ MergeFits' /\ WaiterHasReplay'
    BY <1>1, <1>2, <2>4, <2>6, <2>7, <2>8 DEF PanesFit, MergeFits, WaiterHasReplay, Asked
  <2>10. PICK q \in reads' : "graph" \in q.owns /\ q.path = shown /\ q.kind = "all" /\ q.quiet = quiet
    BY <2>4, <2>6
  <2>11. GraphIsCurrent(q)' /\ ~q.quiet
    BY <1>2, <2>3, <2>10 DEF GraphIsCurrent
  <2>12. SpinnersHaveOwners'
    BY <2>8, <2>10, <2>11, Zenon DEF SpinnersHaveOwners
  <2> QED BY <1>2, <1>3, <2>6, <2>9, <2>12
<1> QED BY <1>4, <1>5

\* A write fails: it releases loading and replays what was deferred behind it.
LEMMA WriteFailsKeeps ==
  ASSUME RefreshInv, NEW w, WriteFails(w)
  PROVE  RefreshInv'
<1> USE DEF RefreshInv
<1>1. /\ w \in writes /\ writes' = writes \ {w}
      /\ UNCHANGED <<screenVars, diskVars, paneVars>>
      /\ OwnerIsCurrent(w) => loading' = FALSE /\ Flush(reads, FALSE)
      /\ ~OwnerIsCurrent(w) => UNCHANGED <<loading, reads, deferred, paging, merge>>
  BY Zenon DEF WriteFails, ReleaseAndFlush, Ends
<1>2. UNCHANGED <<shown, missing, pending, session, intent, gone, conflicted, graph, stashes, operation>>
  BY <1>1 DEF screenVars, diskVars, paneVars
<1>3. WritesFit'
  BY <1>1 DEF WritesFit
<1>4. CASE ~OwnerIsCurrent(w)
  BY <1>1, <1>2, <1>3, <1>4, WriteMoves DEF PanesFit
<1>5. CASE OwnerIsCurrent(w)
  <2>1. PICK held \in BOOLEAN : held = FALSE
    OBVIOUS
  <2>2. /\ loading' = held /\ FlushReads(reads, held) /\ FlushDeferred(held)
        /\ FlushPaging(held) /\ FlushWaiters(held)
    BY <1>1, <1>5, <2>1 DEF Flush
  <2>3. merge.phase = "queued" => ~Asked(reads)
    BY DEF WaiterHasReplay, Asked
  <2>4. ReadsFit(reads', gone) /\ OneAsks(reads') /\ LanesFit(reads', shown', session')
    BY <1>2, <2>2, <2>3, FlushJoins
  <2>5. MergeFits' /\ WaiterHasReplay'
    BY <1>2, <2>2, FlushTells
  <2>6. deferred' \in {"none", "worktree", "all"} /\ paging' \in BOOLEAN
    BY <2>2, FlushTypes
  <2>7. PanesFit'
    BY <1>2, <2>2, <2>6 DEF PanesFit
  <2>8. \A r \in reads : GraphIsCurrent(r) /\ Answers(r) => \E s \in reads : SameOwner(r, s)
    BY DEF SameOwner
  <2>9. SpinnersHaveOwners'
    BY <1>2, <2>1, <2>2, <2>3, <2>8, FlushAnswers
  <2> QED BY <1>2, <1>3, <2>4, <2>5, <2>7, <2>9
<1> QED BY <1>4, <1>5

\* The probe of a checkout and the two ends of a move release what they hold only.
LEMMA WriteStepKeeps ==
  ASSUME RefreshInv, NEW w \in writes, WriteStep(w)
  PROVE  RefreshInv'
<1>1. PanesFit /\ WritesFit
  BY DEF RefreshInv
<1>2. w \in Write /\ w.kind \in WriteKinds
  BY <1>1 DEF WritesFit
<1>3. ASSUME ProbeEnds(w) PROVE RefreshInv'
  <2>1. /\ w.kind = "checkout" /\ w.phase = "probing"
        /\ UNCHANGED <<screenVars, diskVars, reads, merge, paging, paneVars, deferred>>
        /\ \/ /\ OwnerMayNavigate(w)
              /\ writes' = (writes \ {w}) \cup {[w EXCEPT !.phase = "running"]}
              /\ loading' = TRUE
           \/ writes' = writes \ {w} /\ loading' = loading
    BY <1>3, Zenon DEF ProbeEnds, Ends
  <2>2. UNCHANGED <<shown, missing, pending, session, intent>>
    BY <2>1 DEF screenVars
  <2>3. CASE writes' = writes \ {w} /\ loading' = loading
    <3>1. WritesFit'
      BY <1>1, <2>3 DEF WritesFit
    <3> QED BY <1>1, <2>1, <2>2, <2>3, <3>1, WriteMoves DEF PanesFit
  <2>4. CASE /\ OwnerMayNavigate(w)
             /\ writes' = (writes \ {w}) \cup {[w EXCEPT !.phase = "running"]}
             /\ loading' = TRUE
    <3>1. PICK v : v = [w EXCEPT !.phase = "running"]
      OBVIOUS
    <3>2. v \in Write /\ v.phase = "running" /\ v.kind = w.kind /\ v.path = w.path /\ v.session = w.session
      BY <1>2, <3>1 DEF Write
    <3>3. WritesFit'
      BY <1>1, <1>2, <2>4, <3>1, <3>2 DEF WritesFit
    <3>4. v \in writes' /\ OwnerIsCurrent(v)'
      BY <2>2, <2>4, <3>1, <3>2 DEF OwnerMayNavigate, OwnerIsCurrent
    <3> QED BY <1>1, <2>1, <2>2, <2>4, <3>2, <3>3, <3>4, WriteMoves DEF PanesFit
  <2> QED BY <2>1, <2>3, <2>4
<1>4. ASSUME MoveSucceeds(w) PROVE RefreshInv'
  <2>1. /\ w.kind = "move"
        /\ loading' = (loading /\ ~OwnerIsCurrent(w))
        /\ UNCHANGED <<diskVars, reads, merge, paging, paneVars, deferred>>
        /\ \/ /\ \E dest \in Repos : Screen!Ask(dest)
              /\ writes' = (writes \ {w}) \cup {[w EXCEPT !.phase = "landing", !.intent = intent']}
           \/ writes' = writes \ {w} /\ UNCHANGED screenVars
    BY <1>4, Zenon DEF MoveSucceeds, Ends
  <2>2. loading' \in BOOLEAN /\ (loading' => loading /\ ~OwnerIsCurrent(w))
    BY <2>1, Zenon
  <2>3. /\ shown' = shown /\ session' = session
        /\ {missing', pending'} \subseteq RepoOrNone /\ intent' \in Nat
    <3>1. CASE UNCHANGED screenVars
      BY <1>1, <3>1 DEF screenVars, PanesFit
    <3>2. CASE \E dest \in Repos : Screen!Ask(dest)
      <4>1. shown' = shown /\ session' = session
        BY <3>2 DEF Screen!Ask
      <4>2. {missing', pending'} \subseteq RepoOrNone /\ intent' \in Nat
        BY <1>1, <3>2, ScreenMoves
      <4> QED BY <4>1, <4>2
    <3> QED BY <2>1, <3>1, <3>2
  <2>4. WritesFit'
    <3>1. PICK v : v = [w EXCEPT !.phase = "landing", !.intent = intent']
      OBVIOUS
    <3>2. v \in Write /\ v.kind = w.kind
      BY <1>2, <2>3, <3>1 DEF Write
    <3>3. \A q \in writes' : q = v \/ q \in writes
      BY <2>1, <3>1
    <3> QED BY <1>1, <1>2, <2>1, <3>2, <3>3 DEF WritesFit
  <2>5. \A q \in writes : loading' /\ OwnerIsCurrent(q) /\ q.phase = "running" => q \in writes'
    BY <2>1, <2>2
  <2> QED BY <2>1, <2>2, <2>3, <2>4, <2>5, WriteMoves
<1>5. ASSUME MoveLands(w) PROVE RefreshInv'
  <2>1. /\ w.phase = "landing" /\ writes' = writes \ {w}
        /\ loading' = (loading /\ ~OwnerIsCurrent(w))
        /\ UNCHANGED <<screenVars, diskVars, reads, merge, paging, paneVars, deferred>>
    BY <1>5, Zenon DEF MoveLands, Ends
  <2>2. loading' \in BOOLEAN /\ (loading' => loading)
    BY <2>1, Zenon
  <2>3. UNCHANGED <<shown, missing, pending, session, intent>>
    BY <2>1 DEF screenVars
  <2>4. WritesFit'
    BY <1>1, <2>1 DEF WritesFit
  <2>5. \A q \in writes : loading' /\ OwnerIsCurrent(q) /\ q.phase = "running" => q \in writes'
    BY <2>1
  <2> QED BY <1>1, <2>1, <2>2, <2>3, <2>4, <2>5, WriteMoves DEF PanesFit
<1> QED BY <1>3, <1>4, <1>5, WriteSucceedsKeeps, WriteFailsKeeps DEF WriteStep

\* git ends a merge: the refresh is its own, or waits behind the one that runs.
LEMMA MergeStepKeeps ==
  ASSUME RefreshInv, MergeStep
  PROVE  RefreshInv'
<1>1. PanesFit /\ MergeFits /\ ReadsFit(reads, gone) /\ WritesFit /\ WaiterHasReplay
  BY DEF RefreshInv
<1>2. ASSUME merge.phase = "running", OwnerIsCurrent(merge) PROVE shown \in Repos
  BY <1>1, <1>2 DEF OwnerIsCurrent, MergeFits
<1>3. ASSUME merge.phase = "running", merge' \in Merge, merge'.phase \in {"idle", "done"},
             UNCHANGED <<screenVars, gone, reads, loading, deferred, paging, writes, paneVars>>,
             conflicted' \subseteq Repos
      PROVE  RefreshInv'
  <2>1. UNCHANGED <<shown, missing, pending, session, intent, graph, stashes, operation>>
    BY <1>3 DEF screenVars, paneVars
  <2>2. PanesFit' /\ WritesFit' /\ MergeFits' /\ WaiterHasReplay'
    BY <1>1, <1>3, <2>1 DEF PanesFit, WritesFit, MergeFits, WaiterHasReplay
  <2>3. SpinnersHaveOwners'
    BY <1>3, <2>1, SpinnersStay DEF SameOwner, RefreshInv
  <2> QED BY <1>3, <2>1, <2>2, <2>3 DEF RefreshInv
<1>4. ASSUME MergeSucceeds PROVE RefreshInv'
  <2>1. merge.phase = "running" /\ merge' = NoMerge /\ UNCHANGED <<screenVars, diskVars, writes, paneVars>>
    BY <1>4 DEF MergeSucceeds
  <2>2. merge' \in Merge /\ merge'.phase = "idle"
    BY <2>1 DEF NoMerge, Merge, RepoOrNone
  <2>3. CASE OwnerIsCurrent(merge)
    <3>1. Refresh("all", FALSE, "nobody", reads, loading)
      BY <1>4, <2>3, Zenon DEF MergeSucceeds
    <3>2. PICK quiet \in BOOLEAN : quiet = FALSE
      OBVIOUS
    <3>3. Refresh("all", quiet, "nobody", reads, loading)
      BY <3>1, <3>2
    <3> QED BY <1>1, <1>2, <2>1, <2>2, <2>3, <3>3, RefreshKeeps DEF Scopes, Callers, diskVars, PanesFit
  <2>4. CASE ~OwnerIsCurrent(merge)
    <3>1. UNCHANGED <<reads, loading, deferred, paging>>
      BY <1>4, <2>4, Zenon DEF MergeSucceeds
    <3> QED BY <1>1, <1>3, <2>1, <2>2, <3>1 DEF diskVars, PanesFit
  <2> QED BY <2>3, <2>4
<1>5. ASSUME NEW stopped \in BOOLEAN, MergeFails(stopped) PROVE RefreshInv'
  <2>1. /\ merge.phase = "running"
        /\ conflicted' = IF stopped THEN conflicted \cup {merge.path} ELSE conflicted
        /\ UNCHANGED <<screenVars, gone, writes, paneVars>>
        /\ \/ /\ OwnerIsCurrent(merge)
              /\ Refresh("all", FALSE, "merge", reads, loading)
              /\ merge' = [merge EXCEPT !.stopped = stopped,
                                        !.phase = IF loading THEN "queued" ELSE "reading"]
           \/ /\ merge' = [merge EXCEPT !.stopped = stopped, !.phase = "done", !.verdict = "raw"]
              /\ UNCHANGED <<reads, loading, deferred, paging>>
    BY <1>5, Zenon DEF MergeFails
  <2>2. conflicted' \subseteq Repos
    BY <1>1, <2>1 DEF PanesFit, MergeFits
  <2>3. CASE /\ merge' = [merge EXCEPT !.stopped = stopped, !.phase = "done", !.verdict = "raw"]
             /\ UNCHANGED <<reads, loading, deferred, paging>>
    <3>1. merge' \in Merge /\ merge'.phase = "done"
      BY <1>1, <2>3 DEF MergeFits, Merge
    <3> QED BY <1>3, <2>1, <2>2, <2>3, <3>1
  <2>4. CASE /\ OwnerIsCurrent(merge)
             /\ Refresh("all", FALSE, "merge", reads, loading)
             /\ merge' = [merge EXCEPT !.stopped = stopped,
                                       !.phase = IF loading THEN "queued" ELSE "reading"]
    <3>1. PICK phase \in {"queued", "reading"} : phase = IF loading THEN "queued" ELSE "reading"
      OBVIOUS
    <3>2. merge' = [merge EXCEPT !.stopped = stopped, !.phase = phase]
      BY <2>4, <3>1
    <3>3. merge' \in Merge /\ merge'.phase = phase
      BY <1>1, <3>2 DEF MergeFits, Merge
    <3>4. PICK quiet \in BOOLEAN : quiet = FALSE
      OBVIOUS
    <3>5. Refresh("all", quiet, "merge", reads, loading)
      BY <2>4, <3>4
    <3>6. merge'.phase = IF loading THEN "queued" ELSE "reading"
      BY <3>1, <3>3
    <3>7. merge'.phase # "running"
      BY <3>3
    <3> QED BY <1>2, <2>1, <2>2, <2>4, <3>3, <3>5, <3>6, <3>7, RefreshKeeps DEF Scopes, Callers
  <2> QED BY <2>1, <2>3, <2>4
<1> QED BY <1>4, <1>5 DEF MergeStep

-----------------------------------------------------------------------------
(* The theorems.                                                             *)

\* The invariant holds throughout.
LEMMA RefreshInvariant == Spec => []RefreshInv
<1>1. Init => RefreshInv
  <2> SUFFICES ASSUME Init PROVE RefreshInv
    OBVIOUS
  <2>1. /\ shown = None /\ missing = None /\ pending = None /\ session = 0 /\ intent = 0
        /\ reads = {} /\ writes = {} /\ merge = NoMerge /\ gone = {} /\ conflicted = {}
        /\ loading = FALSE /\ graph = "absent" /\ paging = FALSE /\ stashes = "blank"
        /\ operation = FALSE /\ deferred = "none"
    BY DEF Init, Screen!Init
  <2>2. PanesFit /\ WritesFit /\ MergeFits
    BY <2>1 DEF PanesFit, WritesFit, MergeFits, NoMerge, Merge, RepoOrNone
  <2>3. ReadsFit(reads, gone) /\ OneAsks(reads) /\ LanesFit(reads, shown, session)
    BY <2>1, FS_EmptySet DEF ReadsFit, OneAsks, LanesFit
  <2>4. SpinnersHaveOwners /\ WaiterHasReplay
    BY <2>1 DEF SpinnersHaveOwners, WaiterHasReplay, NoMerge
  <2> QED BY <2>2, <2>3, <2>4 DEF RefreshInv
<1>2. RefreshInv /\ [Next]_vars => RefreshInv'
  <2> SUFFICES ASSUME RefreshInv, [Next]_vars PROVE RefreshInv'
    OBVIOUS
  <2>1. CASE UNCHANGED vars
    <3>1. /\ UNCHANGED <<shown, missing, pending, session, intent, gone, conflicted, reads, writes>>
          /\ UNCHANGED <<merge, loading, paging, paneVars, deferred>>
      BY <2>1 DEF vars, screenVars, diskVars
    <3> QED BY <3>1, BesideKeeps DEF RefreshInv, PanesFit
  <2>2. CASE Next
    BY <2>2, NavigateKeeps, GestureKeeps, AnswerKeeps, WriteStepKeeps, MergeStepKeeps DEF Next
  <2> QED BY <2>1, <2>2
<1> QED BY <1>1, <1>2, PTL DEF Spec

\* The store fields and the closures in flight keep their shape.
THEOREM RefreshTypeCorrect == Spec => []TypeOK
<1>1. RefreshInv => TypeOK
  BY DEF RefreshInv, PanesFit, ReadsFit, WritesFit, MergeFits, TypeOK
<1> QED BY <1>1, RefreshInvariant, PTL

\* Each of the three spinners that is up has a request or a write in flight that
\* takes it down (releaseLoadingIfCurrent, repoRefreshActions.ts, history.ts).
THEOREM SpinnersAreOwned == Spec => []SpinnersHaveOwners
<1>1. RefreshInv => SpinnersHaveOwners
  BY DEF RefreshInv
<1> QED BY <1>1, RefreshInvariant, PTL

\* A write that waits for a deferred re-sync has one to wait for, and an answer is
\* handed to a write exactly while one waits for it (settlePendingWaiters).
THEOREM WaitersAreServed == Spec => []WaiterHasReplay
<1>1. RefreshInv => WaiterHasReplay
  BY DEF RefreshInv
<1> QED BY <1>1, RefreshInvariant, PTL

\* A step of a write that is no move, or of anything else, leaves a re-sync deferred
\* only behind a loading that is held.
LEMMA DeferredStep ==
  ASSUME RefreshInv, DeferredWaitsForLoading, [Next]_vars
  PROVE  DeferredWaitsForLoading' \/ \E w \in writes : w.kind = "move" /\ WriteStep(w)
<1> USE DEF DeferredWaitsForLoading
<1> DEFINE Waits == deferred' # "none" /\ shown' # None => loading'
<1>1. PanesFit /\ WritesFit /\ MergeFits
  BY DEF RefreshInv
<1>2. ASSUME UNCHANGED <<shown, loading, deferred>> PROVE Waits
  BY <1>2
<1>3. ASSUME NEW held, FlushDeferred(held), loading' = held PROVE Waits
  BY <1>3, Zenon DEF FlushDeferred
<1>4. ASSUME NEW scope, NEW quiet, NEW caller, shown' = shown,
             Refresh(scope, quiet, caller, reads, loading)
      PROVE  Waits
  <2>1. \/ loading' = TRUE
        \/ ~loading /\ deferred' = deferred
    BY <1>4, Zenon DEF Refresh
  <2> QED BY <1>4, <2>1
<1>5. ASSUME shown' = None PROVE Waits
  BY <1>5
<1>6. ASSUME NEW r \in reads, LeaveMissing(r) PROVE Waits
  BY <1>5, <1>6 DEF LeaveMissing, Screen!GoMissing, Screen!Leave
<1>7. CASE Navigate
  <2>1. ASSUME NEW p \in Repos, Ask(p) PROVE Waits
    BY <1>2, <2>1 DEF Ask, Screen!Ask
  <2>2. ASSUME Forget PROVE Waits
    BY <1>2, <2>2 DEF Forget, Screen!Forget
  <2>3. ASSUME Land PROVE Waits
    BY <2>3 DEF Land
  <2>4. ASSUME GoAway PROVE Waits
    BY <1>5, <2>4 DEF GoAway, Screen!GoMissing, Screen!Leave
  <2> QED BY <1>7, <2>1, <2>2, <2>3, <2>4 DEF Navigate
<1>8. CASE Outside
  BY <1>2, <1>8 DEF Outside, FolderDeleted, TerminalMerge, screenVars
<1>9. CASE Gesture
  <2>1. ASSUME NEW scope, NEW quiet, StartResync(scope, quiet) PROVE Waits
    BY <1>4, <2>1 DEF StartResync, screenVars
  <2>2. ASSUME StartFetch \/ StartMove PROVE Waits
    BY <2>2 DEF StartFetch, StartMove
  <2>3. ASSUME StartCheckout PROVE Waits
    BY <1>2, <2>3 DEF StartCheckout, Begin, screenVars
  <2>4. ASSUME StartPage \/ StartMerge PROVE Waits
    BY <1>2, <2>4 DEF StartPage, StartMerge, screenVars
  <2> QED BY <1>9, <2>1, <2>2, <2>3, <2>4 DEF Gesture
<1>10. ASSUME NEW r \in reads, Answer(r) PROVE Waits
  <2>1. ASSUME LoadSuperseded(r) \/ LoadStashesAnswers(r) \/ PageAnswers(r) PROVE Waits
    BY <1>2, <2>1 DEF LoadSuperseded, LoadStashesAnswers, PageAnswers, PaneKept, screenVars
  <2>2. ASSUME NEW ok, LoadGraphAnswers(r, ok) PROVE Waits
    BY <1>3, <2>2 DEF LoadGraphAnswers, Flush
  <2>3. ASSUME NEW part, NEW ok, LoadRequiredAnswers(r, part, ok) PROVE Waits
    <3>1. \/ LeaveMissing(r)
          \/ UNCHANGED <<screenVars, loading, deferred>>
      BY <2>3, Zenon DEF LoadRequiredAnswers, PaneKept
    <3> QED BY <1>2, <1>6, <3>1 DEF screenVars
  <2>4. ASSUME NEW ok, LoadOperationAnswers(r, ok) PROVE Waits
    BY <1>2, <2>4 DEF LoadOperationAnswers, screenVars
  <2>5. ASSUME NEW held, NEW result, Finish(r, held, result) PROVE Waits
    BY <1>3, <2>5, Zenon DEF Finish
  <2>6. ASSUME ResyncOpenFails(r) PROVE Waits
    BY <2>5, <2>6, Zenon DEF ResyncOpenFails
  <2>7. ASSUME NEW failed, ResyncAnswers(r, failed) PROVE Waits
    <3>1. \E held, result : Finish(r, held, result)
      BY <2>7, Zenon DEF ResyncAnswers
    <3> QED BY <2>5, <3>1
  <2>8. ASSUME NEW failed, WorktreeAnswers(r, failed) PROVE Waits
    BY <1>2, <2>8 DEF WorktreeAnswers, screenVars
  <2> QED BY <1>10, <2>1, <2>2, <2>3, <2>4, <2>6, <2>7, <2>8 DEF Answer, LoadAnswers
<1>11. ASSUME NEW w \in writes, WriteStep(w), w.kind # "move" PROVE Waits
  <2>1. ASSUME ProbeEnds(w) PROVE Waits
    BY <1>2, <2>1 DEF ProbeEnds, screenVars
  <2>2. ASSUME WriteSucceeds(w) PROVE Waits
    <3>1. \/ loading' = TRUE
          \/ UNCHANGED <<loading, deferred>>
      BY <2>2, Zenon DEF WriteSucceeds, ReleaseAndRefresh, Refresh
    <3>2. shown' = shown
      BY <2>2 DEF WriteSucceeds, screenVars
    <3> QED BY <1>2, <3>1, <3>2
  <2>3. ASSUME WriteFails(w) PROVE Waits
    <3>1. \/ loading' = FALSE /\ FlushDeferred(FALSE)
          \/ UNCHANGED <<loading, deferred>>
      BY <2>3, Zenon DEF WriteFails, ReleaseAndFlush, Flush
    <3>2. shown' = shown
      BY <2>3 DEF WriteFails, screenVars
    <3> QED BY <1>2, <1>3, <3>1, <3>2
  <2>4. ~MoveSucceeds(w)
    BY <1>11 DEF MoveSucceeds
  <2>5. ~MoveLands(w)
    BY <1>1, <1>11 DEF MoveLands, WritesFit
  <2> QED BY <1>11, <2>1, <2>2, <2>3, <2>4, <2>5 DEF WriteStep
<1>12. CASE MergeStep
  <2>1. shown' = shown
    BY <1>12 DEF MergeStep, MergeSucceeds, MergeFails, screenVars
  <2>2. \/ \E caller : Refresh("all", FALSE, caller, reads, loading)
        \/ UNCHANGED <<loading, deferred>>
    BY <1>12, Zenon DEF MergeStep, MergeSucceeds, MergeFails
  <2> QED BY <1>2, <1>4, <2>1, <2>2
<1>13. CASE UNCHANGED vars
  BY <1>2, <1>13 DEF vars, screenVars
<1> QED BY <1>7, <1>8, <1>9, <1>10, <1>11, <1>12, <1>13 DEF Next

\* Of all steps, only the end of a move can leave a re-sync deferred behind a loading
\* nobody holds (moveCheckoutToWorktree releases without a flush, worktrees.ts).
THEOREM OnlyMovesStrandIt ==
  Spec => [][DeferredWaitsForLoading =>
               \/ DeferredWaitsForLoading'
               \/ \E w \in writes : w.kind = "move" /\ WriteStep(w)]_vars
<1>1. RefreshInv /\ [Next]_vars =>
        [DeferredWaitsForLoading =>
           \/ DeferredWaitsForLoading'
           \/ \E w \in writes : w.kind = "move" /\ WriteStep(w)]_vars
  BY DeferredStep
<1> QED BY <1>1, RefreshInvariant, PTL DEF Spec

\* Without moves, a re-sync deferred for the repository on screen waits for loading to
\* be released, and whoever releases it replays it (GL-20, flushPendingRefresh).
THEOREM DeferredIsBlocked ==
  ASSUME "move" \notin WriteKinds
  PROVE  Spec => []DeferredWaitsForLoading
<1>1. Init => DeferredWaitsForLoading
  BY DEF Init, DeferredWaitsForLoading
<1>2. RefreshInv /\ DeferredWaitsForLoading /\ [Next]_vars => DeferredWaitsForLoading'
  <2>1. RefreshInv => \A w \in writes : w.kind # "move"
    BY DEF RefreshInv, WritesFit
  <2> QED BY <2>1, DeferredStep
<1> QED BY <1>1, <1>2, RefreshInvariant, PTL DEF Spec

\* What was asked for under an earlier session of the screen changes nothing of it
\* (requestLease.ts, captureOwner): an answer finds no lane, a write no owner.
THEOREM EarlierSessionsStaySilent == Spec => EarlierSessionsAreSilent
<1> DEFINE Silent ==
      /\ \A r \in reads : r.session # session /\ Answer(r) =>
           UNCHANGED <<shown, missing, graph, stashes, operation, loading>>
      /\ \A w \in writes : w.session # session /\ WriteStep(w) =>
           UNCHANGED <<screenVars, reads, loading, paging, paneVars, deferred>>
<1>1. ASSUME RefreshInv, NEW r \in reads, r.session # session, Answer(r)
      PROVE  UNCHANGED <<shown, missing, graph, stashes, operation, loading>>
  <2>1. /\ ReadsFit(reads, gone) /\ LanesFit(reads, shown, session)
        /\ loading \in BOOLEAN /\ operation \in BOOLEAN
    BY <1>1 DEF RefreshInv, PanesFit
  <2>2. ~GraphIsCurrent(r) /\ \A lane : ~ReadIsCurrent(lane, r)
    BY <1>1, <2>1, ReposAssumption DEF GraphIsCurrent, ReadIsCurrent, LanesFit, ReadsFit, Read
  <2>3. \A part : ~PartIsCurrent(part, r)
    BY <2>2 DEF PartIsCurrent
  <2>4. ~LoadAnswers(r) \/ LoadSuperseded(r)
    BY <2>3, Zenon DEF LoadAnswers, LoadGraphAnswers, LoadRequiredAnswers, LoadStashesAnswers,
                       LoadOperationAnswers
  <2>5. ASSUME LoadSuperseded(r) \/ PageAnswers(r)
        PROVE  UNCHANGED <<shown, missing, graph, stashes, operation, loading>>
    BY <2>5 DEF LoadSuperseded, PageAnswers, PaneKept, screenVars, paneVars
  <2>6. ASSUME ResyncOpenFails(r)
        PROVE  UNCHANGED <<shown, missing, graph, stashes, operation, loading>>
    <3>1. PaneKept /\ Finish(r, loading, FALSE)
      BY <2>2, <2>6, Zenon DEF ResyncOpenFails
    <3> QED BY <3>1 DEF PaneKept, Finish, screenVars, paneVars
  <2>7. ASSUME NEW failed, ResyncAnswers(r, failed)
        PROVE  UNCHANGED <<shown, missing, graph, stashes, operation, loading>>
    <3>1. /\ UNCHANGED screenVars
          /\ graph' = graph /\ stashes' = stashes /\ operation' = operation
          /\ loading' = HeldAfter(r, GraphIsCurrent(r))
      <4>1. ~(\/ "graph" \in failed /\ GraphIsCurrent(r)
              \/ "branches" \in failed /\ ReadIsCurrent("metadata", r)
              \/ "changes" \in failed /\ ReadIsCurrent("tree", r))
        BY <2>2
      <4> QED BY <2>2, <2>7, <4>1, Zenon DEF ResyncAnswers, Finish
    <3>2. HeldAfter(r, GraphIsCurrent(r)) = loading
      BY <2>1, <2>2, Zenon DEF HeldAfter
    <3> QED BY <3>1, <3>2 DEF screenVars
  <2>8. ASSUME NEW failed, WorktreeAnswers(r, failed)
        PROVE  UNCHANGED <<shown, missing, graph, stashes, operation, loading>>
    BY <2>2, <2>8 DEF WorktreeAnswers, screenVars
  <2> QED BY <1>1, <2>4, <2>5, <2>6, <2>7, <2>8 DEF Answer
<1>2. ASSUME RefreshInv, NEW w \in writes, w.session # session, WriteStep(w)
      PROVE  UNCHANGED <<screenVars, reads, loading, paging, paneVars, deferred>>
  <2>1. ~OwnerIsCurrent(w) /\ ~OwnerMayNavigate(w) /\ loading \in BOOLEAN
    BY <1>2 DEF OwnerIsCurrent, OwnerMayNavigate, RefreshInv, PanesFit
  <2>2. (loading /\ ~OwnerIsCurrent(w)) = loading
    BY <2>1, Zenon
  <2> QED BY <1>2, <2>1, <2>2, Zenon
          DEF WriteStep, ProbeEnds, WriteSucceeds, WriteFails, MoveSucceeds, MoveLands,
              ReleaseAndFlush, ReleaseAndRefresh
<1>3. RefreshInv /\ [Next]_vars => [Silent]_vars
  BY <1>1, <1>2
<1> QED BY <1>3, RefreshInvariant, PTL DEF Spec, EarlierSessionsAreSilent

\* The answer to a read never takes the screen from an open begun after the read
\* was (handleMissing): both of its ways off the screen compare the intents. It is
\* the guard alone, in whatever state the answer finds the repository.
THEOREM NewerOpensWin == Spec => NewerOpenWins
<1> DEFINE Wins == \A r \in reads : r.intent # intent => UNCHANGED screenVars \/ ~Answer(r)
<1>1. ASSUME NEW r \in reads, r.intent # intent, Answer(r)
      PROVE  UNCHANGED screenVars
  <2>1. ~GoesMissing(r)
    BY <1>1 DEF GoesMissing
  <2>2. ASSUME LoadAnswers(r) PROVE UNCHANGED screenVars
    BY <2>1, <2>2, Zenon
       DEF LoadAnswers, LoadSuperseded, LoadGraphAnswers, LoadRequiredAnswers,
           LoadStashesAnswers, LoadOperationAnswers, PaneKept
  <2>3. ASSUME ResyncOpenFails(r) PROVE UNCHANGED screenVars
    BY <2>1, <2>3, Zenon DEF ResyncOpenFails, PaneKept
  <2>4. ASSUME NEW failed, ResyncAnswers(r, failed) PROVE UNCHANGED screenVars
    BY <2>1, <2>4, Zenon DEF ResyncAnswers
  <2>5. ASSUME NEW failed, WorktreeAnswers(r, failed) PROVE UNCHANGED screenVars
    BY <2>5, Zenon DEF WorktreeAnswers
  <2>6. ASSUME PageAnswers(r) PROVE UNCHANGED screenVars
    BY <2>6, Zenon DEF PageAnswers
  <2> QED BY <1>1, <2>2, <2>3, <2>4, <2>5, <2>6, Zenon DEF Answer
<1>2. [Next]_vars => [Wins]_vars
  BY <1>1
<1> QED BY <1>2, PTL DEF Spec, NewerOpenWins

\* A full re-sync begun in a deleted folder, and still owed to the screen, takes the
\* repository off it: what GoneIsNoticed misses is missed by the working-tree
\* re-sync alone, whose rejection no handler hears (refreshWorktreeScope).
FullResyncsNoticeGone ==
  [][\A r \in reads :
       (/\ r.doomed /\ r.kind = "all" /\ GraphIsCurrent(r) /\ r.intent = intent
        /\ Answer(r)) => shown' = None]_vars

THEOREM FullResyncsNotice == Spec => FullResyncsNoticeGone
<1> DEFINE Notices ==
      \A r \in reads :
        (/\ r.doomed /\ r.kind = "all" /\ GraphIsCurrent(r) /\ r.intent = intent
         /\ Answer(r)) => shown' = None
<1>1. ASSUME RefreshInv, NEW r \in reads, r.doomed, r.kind = "all", GraphIsCurrent(r),
             r.intent = intent, Answer(r)
      PROVE  shown' = None
  <2>1. ReadsFit(reads, gone) /\ PanesFit
    BY <1>1 DEF RefreshInv
  <2>2. GoesMissing(r)
    BY <1>1, <2>1 DEF GoesMissing, ReadsFit
  <2>3. ResyncOpenFails(r)
    BY <1>1 DEF Answer, LoadAnswers, ResyncAnswers, WorktreeAnswers, PageAnswers
  <2>4. LeaveMissing(r)
    BY <1>1, <2>2, <2>3, Zenon DEF ResyncOpenFails
  <2>5. r.path \in Repos
    BY <2>1 DEF ReadsFit, Read
  <2> QED BY <2>1, <2>4, <2>5, MissingLeaves
<1>2. RefreshInv /\ [Next]_vars => [Notices]_vars
  BY <1>1
<1> QED BY <1>2, RefreshInvariant, PTL DEF Spec, FullResyncsNoticeGone

-----------------------------------------------------------------------------
(* Refinement: what is on screen moves as RepoScreen says.                   *)

\* A read that finds its repository gone is one way of leaving its screen.
LEMMA LeavingIsAScreenStep ==
  ASSUME TypeOK, NEW r \in reads, LeaveMissing(r) PROVE [Screen!Next]_screenVars
<1>1. r.path \in Repos
  BY DEF TypeOK, Read
<1>2. CASE Screen!GoMissing(r.path)
  BY <1>1, <1>2 DEF Screen!Next
<1>3. CASE Screen!Leave
  BY <1>3 DEF Screen!Next
<1> QED BY <1>2, <1>3 DEF LeaveMissing

\* The answer to a read either keeps the screen or finds the repository gone.
LEMMA AnswerIsAScreenStep ==
  ASSUME TypeOK, NEW r \in reads, Answer(r) PROVE [Screen!Next]_screenVars
<1>1. LeaveMissing(r) => [Screen!Next]_screenVars
  BY LeavingIsAScreenStep
<1>2. ASSUME LoadAnswers(r) PROVE LeaveMissing(r) \/ UNCHANGED screenVars
  BY <1>2 DEF LoadAnswers, LoadSuperseded, LoadStashesAnswers, LoadGraphAnswers,
       LoadRequiredAnswers, LoadOperationAnswers, PaneKept
<1>3. ASSUME ResyncOpenFails(r) PROVE LeaveMissing(r) \/ UNCHANGED screenVars
  BY <1>3 DEF ResyncOpenFails, PaneKept
<1>4. ASSUME NEW failed, ResyncAnswers(r, failed)
      PROVE  LeaveMissing(r) \/ UNCHANGED screenVars
  BY <1>4 DEF ResyncAnswers
<1>5. ASSUME NEW failed, WorktreeAnswers(r, failed) PROVE UNCHANGED screenVars
  BY <1>5 DEF WorktreeAnswers
<1>6. ASSUME PageAnswers(r) PROVE UNCHANGED screenVars
  BY <1>6 DEF PageAnswers
<1> QED BY <1>1, <1>2, <1>3, <1>4, <1>5, <1>6 DEF Answer

\* And so does every other step: only opening, closing and a landing move change it.
LEMMA StepIsAScreenStep ==
  ASSUME TypeOK, [Next]_vars PROVE [Screen!Next]_screenVars
<1>1. ASSUME NEW p \in Repos, Ask(p) PROVE Screen!Next
  BY <1>1 DEF Ask, Screen!Next
<1>2. ASSUME Forget \/ Land PROVE Screen!Next
  BY <1>2 DEF Forget, Land, Screen!Next
<1>3. ASSUME GoAway PROVE Screen!Next
  <2>1. CASE Screen!Leave
    BY <2>1 DEF Screen!Next
  <2>2. CASE pending \in gone /\ Screen!GoMissing(pending)
    <3>1. pending \in Repos
      BY <2>2 DEF TypeOK
    <3> QED BY <2>2, <3>1 DEF Screen!Next
  <2> QED BY <1>3, <2>1, <2>2 DEF GoAway
<1>4. ASSUME NEW r \in Repos, FolderDeleted(r) \/ TerminalMerge(r)
      PROVE  UNCHANGED screenVars
  BY <1>4 DEF FolderDeleted, TerminalMerge
<1>5. ASSUME Gesture PROVE UNCHANGED screenVars
  BY <1>5 DEF Gesture, StartResync, StartPage, StartFetch, StartCheckout, StartMove,
       StartMerge, Begin
<1>6. ASSUME NEW w \in writes, WriteStep(w) PROVE [Screen!Next]_screenVars
  <2>1. CASE MoveSucceeds(w)
    BY <2>1 DEF MoveSucceeds, Screen!Next
  <2>2. CASE ProbeEnds(w) \/ WriteSucceeds(w) \/ WriteFails(w) \/ MoveLands(w)
    BY <2>2 DEF ProbeEnds, WriteSucceeds, WriteFails, MoveLands
  <2> QED BY <1>6, <2>1, <2>2 DEF WriteStep
<1>7. ASSUME MergeStep PROVE UNCHANGED screenVars
  BY <1>7 DEF MergeStep, MergeSucceeds, MergeFails
<1>8. ASSUME UNCHANGED vars PROVE UNCHANGED screenVars
  BY <1>8 DEF vars
<1> QED
  BY <1>1, <1>2, <1>3, <1>4, <1>5, <1>6, <1>7, <1>8, AnswerIsAScreenStep
  DEF Next, Navigate, Outside

\* The reads and writes of the displayed repository move the screen as RepoScreen
\* says and in no other way: every behaviour of RepoRefresh is one of the screen
\* that RepoNavigation implements.
THEOREM RefreshRunsOnScreen == Spec => Screen!Spec
<1>1. Init => Screen!Init
  BY DEF Init
<1>2. TypeOK /\ [Next]_vars => [Screen!Next]_screenVars
  BY StepIsAScreenStep
<1> QED BY <1>1, <1>2, RefreshTypeCorrect, PTL DEF Spec, Screen!Spec, screenVars, Screen!screenVars
=============================================================================
