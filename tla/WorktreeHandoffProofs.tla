------------------------ MODULE WorktreeHandoffProofs ------------------------
(***************************************************************************)
(* What a hand-off guarantees for every set of worktrees, branches and       *)
(* changes and every number of moves and stashes, proved. The argument:      *)
(* whatever is put aside is either still in its worktree, or in a stash that *)
(* is to go back there, and the two together are what was there before; and  *)
(* every change has a copy that neither an Abort nor a Finish would take.    *)
(***************************************************************************)
EXTENDS WorktreeHandoff, SequenceTheorems, TLAPS

Steps == {"idle", "stashSource", "stashDest", "detach", "checkout", "reattach", "restore",
          "applySource", "applyDest", "mark", "drop", "failed"}

\* The steps at which a stash of the move may yet be restored where it came from.
Reversible == {"stashDest", "detach", "checkout", "reattach"}

\* The steps at which the destination holds nothing but what the move brings.
Carrying == {"detach", "checkout", "applySource", "applyDest", "mark", "drop"}

\* Stash s is to be put back into worktree w.
GoesBack(s, w) ==
  \/ pc \in Reversible /\ s # 0 /\ s = source /\ w = move.from
  \/ pc \in Reversible /\ s # 0 /\ s = dest /\ w = move.to
  \/ pc = "restore" /\ \E n \in DOMAIN todo : todo[n].id = s /\ todo[n].tree = w

\* A worktree with the changes that are put aside.
At(w) == work[w] \cup UNION {stash[s] : s \in {r \in Ids : GoesBack(r, w)}}

\* An Abort would take what w holds, now or when the move has marked it.
Abortable(w) == Marked(w) \/ (pc \in Carrying /\ w = move.to)

\* A copy of x that nothing but a deliberate step of the user takes away: in a
\* worktree that is not marked, or noted as lost with it, and so in a stash that goes
\* back there; in a stash no carry would drop, or whose changes are also in the
\* worktree of that carry.
Held(x) ==
  \/ x \in given
  \/ \E w \in Trees : x \in work[w] /\ (Abortable(w) => x \in late[w])
  \/ \E w \in Trees, s \in Ids :
       x \in stash[s] /\ GoesBack(s, w) /\ (Marked(w) => x \in late[w])
  \/ \E s \in Ids :
       /\ x \in stash[s] /\ \A w \in Trees : ~GoesBack(s, w)
       /\ \A w \in Trees : s \in marker[w] => x \in At(w)

\* What git and the store hold has its type.
GitTyped ==
  /\ branch \in [Trees -> Branches \cup {None}] /\ unmerged \subseteq Trees
  /\ work \in [Trees -> SUBSET Works] /\ late \in [Trees -> SUBSET Works]
  /\ stash \in [Ids -> SUBSET Works] /\ made \in 0..MaxStashes
  /\ marker \in [Trees -> SUBSET Ids] /\ given \subseteq Works

\* So has what a move knows of itself.
MoveTyped ==
  /\ pc \in Steps /\ moves \in 0..MaxMoves
  /\ source \in 0..made /\ dest \in 0..made /\ applied \subseteq Ids
  /\ todo \in Seq([tree : Trees, id : Ids])

\* And what there was before it.
PastTyped ==
  before \in [branch : [Trees -> Branches \cup {None}], work : [Trees -> SUBSET Works],
              stash : [Ids -> SUBSET Works]]

HandTyped == GitTyped /\ MoveTyped /\ PastTyped

\* A move is between two worktrees; its stashes are its own and no carry's, until
\* its marker was written in part.
MoveFit ==
  Locked =>
    /\ move \in [branch : Branches, from : Trees, to : Trees] /\ move.from # move.to
    /\ pc = "stashSource" => source = 0
    /\ pc \in {"stashSource", "stashDest"} => dest = 0
    /\ source # 0 => source # dest
    /\ pc # "failed" => \A w \in Trees : source \notin marker[w] /\ dest \notin marker[w]

\* An id beyond those made names nothing.
StashesFit ==
  /\ \A s \in Ids : s > made => stash[s] = {}
  /\ \A w \in Trees : marker[w] \subseteq 1..made

\* The rollback restores stashes of the move where they come from, each once.
TodoFit ==
  pc = "restore" =>
    /\ \A n \in DOMAIN todo :
         \/ todo[n].id = source /\ todo[n].tree = move.from
         \/ todo[n].id = dest /\ todo[n].tree = move.to
    /\ \A m, n \in DOMAIN todo : todo[m].id = todo[n].id => m = n

\* What was applied is in the destination, and nothing was before the checkout.
AppliedFit ==
  /\ pc \in {"applyDest", "mark", "drop"} => \A s \in applied : stash[s] \subseteq work[move.to]
  /\ applied \subseteq {source, dest} \ {0}
  /\ pc \in {"stashSource", "applySource", "restore"} \cup Reversible => applied = {}

\* Every change has a copy that is safe.
HeldFit == \A x \in Written : Held(x)

\* What the worktrees hold, with what is put aside, is what was there before.
WorkFit ==
  pc \in {"stashSource", "restore", "failed"} \cup Reversible /\ clean =>
    /\ \A w \in Trees : before.work[w] = At(w)
    /\ \A s \in Ids :
         before.stash[s] = IF \E w \in Trees : GoesBack(s, w) THEN {} ELSE stash[s]

\* The branches are, but for the source between its detaching and its reattaching.
BranchFit ==
  /\ pc \in {"stashSource", "stashDest", "detach", "checkout"} => clean
  /\ pc \in {"stashSource", "stashDest", "detach", "restore", "failed"} /\ clean =>
       branch = before.branch
  /\ pc \in {"stashSource", "stashDest", "detach"} => branch[move.from] = move.branch
  /\ pc \in {"checkout", "reattach"} /\ clean =>
       before.branch = [branch EXCEPT ![move.from] = move.branch]
  /\ pc = "checkout" => branch[move.from] = None

\* Once the branch is checked out, what was put aside is still on the stack, or
\* where it is being applied.
LandFit ==
  pc \in {"applySource", "applyDest", "mark"} \/ Landed =>
    /\ branch = [before.branch EXCEPT ![move.from] = None, ![move.to] = move.branch]
    /\ before.work[move.from] = work[move.from] \cup Kept(source)
    /\ before.work[move.to] \subseteq work[move.to] \cup Kept(dest)
    /\ \A s \in Ids \ {source, dest} : stash[s] = before.stash[s]

HandInv ==
  /\ HandTyped /\ MoveFit /\ StashesFit /\ TodoFit /\ AppliedFit
  /\ HeldFit /\ WorkFit /\ BranchFit /\ LandFit

-----------------------------------------------------------------------------
(* Types, and what a move calls its own.                                     *)

Entry == [tree : Trees, id : Ids]

\* A list of what is put aside has each stash of the move once.
LEMMA RestoreLists ==
  ASSUME HandTyped, MoveFit, Locked, NEW list,
         \/ list = OfDest \o OfSource
         \/ list = OfSource \o OfDest
         \/ list = OfSource /\ dest = 0
  PROVE  /\ list \in Seq(Entry)
         /\ \A s, w : (\E n \in DOMAIN list : list[n].id = s /\ list[n].tree = w)
                        <=> \/ s # 0 /\ s = source /\ w = move.from
                            \/ s # 0 /\ s = dest /\ w = move.to
         /\ \A n \in DOMAIN list :
              \/ list[n].id = source /\ list[n].tree = move.from
              \/ list[n].id = dest /\ list[n].tree = move.to
         /\ \A m, n \in DOMAIN list : list[m].id = list[n].id => m = n
<1> DEFINE S == [tree |-> move.from, id |-> source]
           D == [tree |-> move.to, id |-> dest]
<1>1. /\ source # 0 => S \in Entry
      /\ dest # 0 => D \in Entry
  BY HandoffBounds DEF HandTyped, GitTyped, MoveTyped, MoveFit, Ids, Entry
<1>2. S.tree = move.from /\ S.id = source /\ D.tree = move.to /\ D.id = dest
  OBVIOUS
<1>3. source # 0 => source # dest
  BY DEF MoveFit
<1> HIDE DEF S, D
<1>4. CASE source = 0 /\ dest = 0
  <2>1. list = <<>>
    BY <1>4 DEF OfSource, OfDest
  <2> QED BY <1>4, <2>1
<1>5. CASE source # 0 /\ dest = 0
  <2>1. list = <<S>>
    BY <1>1, <1>5 DEF OfSource, OfDest, S
  <2> QED BY <1>1, <1>2, <1>5, <2>1
<1>6. CASE source = 0 /\ dest # 0
  <2>1. list = <<D>>
    BY <1>1, <1>6 DEF OfSource, OfDest, D
  <2> QED BY <1>1, <1>2, <1>6, <2>1
<1>7. CASE source # 0 /\ dest # 0
  <2>1. list = <<S, D>> \/ list = <<D, S>>
    BY <1>1, <1>7 DEF OfSource, OfDest, S, D
  <2>2. CASE list = <<S, D>>
    BY <1>1, <1>2, <1>3, <1>7, <2>2
  <2>3. CASE list = <<D, S>>
    BY <1>1, <1>2, <1>3, <1>7, <2>3
  <2> QED BY <2>1, <2>2, <2>3
<1> QED BY <1>4, <1>5, <1>6, <1>7

BaseInv == HandTyped /\ MoveFit /\ StashesFit /\ TodoFit /\ AppliedFit

\* What ids and ends of a move are.
LEMMA MoveIs ==
  ASSUME BaseInv
  PROVE  /\ MaxStashes \in Nat /\ MaxMoves \in Nat /\ made \in Nat /\ made <= MaxStashes
         /\ \A s \in Ids : s \in Nat /\ s # 0
         /\ Locked => move.from \in Trees /\ move.to \in Trees
  BY HandoffBounds DEF BaseInv, HandTyped, GitTyped, MoveFit, Ids

\* The next stash is a new one.
LEMMA StoresIs ==
  ASSUME BaseInv, NEW w \in Trees, Stores(w)
  PROVE  /\ made + 1 \in Ids /\ made' = made + 1 /\ made' \in 0..MaxStashes
         /\ stash' = [stash EXCEPT ![made + 1] = work[w]]
         /\ stash' \in [Ids -> SUBSET Works] /\ stash'[made + 1] = work[w]
         /\ \A s \in Ids : s # made + 1 => stash'[s] = stash[s]
         /\ \A s \in Ids : s > made' => stash'[s] = {}
<1>1. made \in Nat /\ MaxStashes \in Nat /\ made < MaxStashes /\ made' = made + 1
  BY MoveIs DEF Stores
<1>2. made + 1 \in Ids /\ made' \in 0..MaxStashes
  BY <1>1 DEF Ids
<1>3. stash' = [stash EXCEPT ![made + 1] = work[w]] /\ stash \in [Ids -> SUBSET Works] /\ work[w] \subseteq Works
  BY DEF Stores, BaseInv, HandTyped, GitTyped
<1>4. \A s \in Ids : s > made => stash[s] = {}
  BY DEF BaseInv, StashesFit
<1> QED BY <1>1, <1>2, <1>3, <1>4 DEF Ids

\* Stashes leave the stack.
LEMMA WithoutIs ==
  ASSUME BaseInv, NEW gone, stash' = Without(gone)
  PROVE  /\ stash' \in [Ids -> SUBSET Works]
         /\ \A s \in Ids : stash'[s] = IF s \in gone THEN {} ELSE stash[s]
  BY DEF BaseInv, HandTyped, GitTyped, Without

\* A step that only git takes: types and stashes.
LEMMA GitTypesKeep ==
  ASSUME BaseInv, [Next]_handVars
  PROVE  GitTyped' /\ made <= made'
<1> USE DEF BaseInv, HandTyped
<1> DEFINE Tree(w) == w \in Trees
<1>0. GitTyped /\ made \in Nat /\ (Locked => move.from \in Trees /\ move.to \in Trees)
  BY MoveIs
<1>1. ASSUME NEW w \in Trees,
             \/ UNCHANGED <<stash, made, work>>
             \/ Stores(w) /\ \E rest \in SUBSET work[w] : work' = [work EXCEPT ![w] = rest],
             UNCHANGED <<branch, unmerged, marker, late, given>>
      PROVE  GitTyped' /\ made <= made'
  <2>1. CASE UNCHANGED <<stash, made, work>>
    BY <1>0, <1>1, <2>1 DEF GitTyped
  <2>2. CASE Stores(w) /\ \E rest \in SUBSET work[w] : work' = [work EXCEPT ![w] = rest]
    <3>1. work' \in [Trees -> SUBSET Works]
      BY <2>2 DEF GitTyped
    <3>2. stash' \in [Ids -> SUBSET Works] /\ made' \in 0..MaxStashes /\ made <= made'
      BY <1>0, <2>2, StoresIs
    <3> QED BY <1>0, <1>1, <3>1, <3>2 DEF GitTyped
  <2> QED BY <1>1, <2>1, <2>2
<1>2. ASSUME NEW w \in Trees, Pushes(w) \/ PushFails(w)
      PROVE  \/ UNCHANGED <<stash, made, work>>
             \/ Stores(w) /\ \E rest \in SUBSET work[w] : work' = [work EXCEPT ![w] = rest]
  BY <1>2 DEF Pushes, PushFails
<1>3. ASSUME NEW w \in Trees, NEW s \in Ids, Applies(w, s) \/ Conflicts(w, s) \/ Refuses
      PROVE  work' \in [Trees -> SUBSET Works] /\ unmerged' \subseteq Trees
  BY <1>3 DEF Applies, Conflicts, Refuses, GitTyped
<1>4. ASSUME NEW w \in Trees, NEW what \in SUBSET Works, Arrives(w, what)
      PROVE  late' \in [Trees -> SUBSET Works]
  BY <1>4 DEF Arrives, GitTyped
<1>5. CASE StashesSource
  BY <1>0, <1>1, <1>2, <1>5 DEF StashesSource, Locked
<1>6. CASE StashesDest
  BY <1>0, <1>1, <1>2, <1>6 DEF StashesDest, Locked
<1>7. CASE Detaches \/ ChecksOut \/ Reattaches
  <2>1. branch' \in [Trees -> Branches \cup {None}]
    BY <1>0, <1>7 DEF Detaches, ChecksOut, Reattaches, Locked, MoveFit, GitTyped
  <2> QED BY <1>0, <1>7, <2>1 DEF Detaches, ChecksOut, Reattaches, GitTyped
<1>8. CASE Restores
  <2>1. PICK e \in Entry : e = Head(todo)
    BY <1>8, HeadTailProperties DEF Restores, MoveTyped, Entry
  <2>2. stash' \in [Ids -> SUBSET Works]
    BY <1>0, <1>8, <2>1, WithoutIs DEF Restores, GitTyped
  <2>3. work' \in [Trees -> SUBSET Works] /\ unmerged' \subseteq Trees
    BY <1>3, <1>8, <2>1 DEF Restores, Entry
  <2> QED BY <1>0, <1>8, <2>2, <2>3 DEF Restores, GitTyped
<1>9. CASE CarriesWork
  <2>1. work' \in [Trees -> SUBSET Works] /\ unmerged' \subseteq Trees
    <3>1. \A id : id \in {source, dest} /\ id # 0 => id \in Ids
      BY <1>0, MoveIs DEF MoveTyped, Ids
    <3>2. PICK id \in {source, dest} :
            \/ id = 0 /\ UNCHANGED <<work, unmerged>>
            \/ id # 0 /\ (Applies(move.to, id) \/ Conflicts(move.to, id) \/ Refuses)
      BY <1>9 DEF CarriesWork, Carries
    <3>3. CASE id = 0 /\ UNCHANGED <<work, unmerged>>
      BY <1>0, <3>3 DEF GitTyped
    <3>4. CASE id # 0 /\ (Applies(move.to, id) \/ Conflicts(move.to, id) \/ Refuses)
      BY <1>0, <1>3, <1>9, <3>1, <3>4 DEF CarriesWork, Locked
    <3> QED BY <3>2, <3>3, <3>4
  <2> QED BY <1>0, <1>9, <2>1 DEF CarriesWork, GitTyped
<1>10. CASE Marks
  <2>1. PICK kept \in SUBSET applied : marker' \in {marker, [marker EXCEPT ![move.to] = kept]}
    BY <1>10 DEF Marks
  <2>2. marker' \in [Trees -> SUBSET Ids]
    BY <1>0, <2>1 DEF MoveTyped, GitTyped
  <2> QED BY <1>0, <1>10, <2>2 DEF Marks, GitTyped, gitVars
<1>11. CASE Drops
  <2>1. PICK gone \in SUBSET applied :
          /\ stash' = Without(gone)
          /\ late' = IF Marked(move.to)
                       THEN [late EXCEPT ![move.to] = @ \cup UNION {stash[s] : s \in gone}] ELSE late
    BY <1>11 DEF Drops
  <2>2. UNION {stash[s] : s \in gone} \in SUBSET Works
    BY <1>0 DEF MoveTyped, GitTyped
  <2>3. late' \in [Trees -> SUBSET Works]
    BY <1>0, <2>1, <2>2 DEF GitTyped
  <2> QED BY <1>0, <1>11, <2>1, <2>3, WithoutIs DEF Drops, GitTyped
<1>12. ASSUME NEW w \in Trees, NEW x \in Works, Edits(w, x) PROVE GitTyped' /\ made <= made'
  <2>1. work' \in [Trees -> SUBSET Works] /\ late' \in [Trees -> SUBSET Works]
    BY <1>0, <1>4, <1>12 DEF Edits, GitTyped
  <2> QED BY <1>0, <1>12, <2>1 DEF Edits, GitTyped
<1>13. ASSUME NEW w \in Trees, Continues(w) PROVE GitTyped' /\ made <= made'
  <2>1. PICK gone \in SUBSET marker[w] :
          /\ stash' = Without(gone)
          /\ marker' \in {marker, [marker EXCEPT ![w] = {}]}
          /\ \/ late' = [late EXCEPT ![w] = {}]
             \/ late' = [late EXCEPT ![w] = @ \cup UNION {stash[s] : s \in gone}]
    BY <1>13 DEF Continues, Unmarks
  <2>2. UNION {stash[s] : s \in gone} \in SUBSET Works
    BY <1>0 DEF GitTyped
  <2>3. late' \in [Trees -> SUBSET Works] /\ marker' \in [Trees -> SUBSET Ids]
    BY <1>0, <2>1, <2>2 DEF GitTyped
  <2> QED BY <1>0, <1>13, <2>1, <2>3, WithoutIs DEF Continues, GitTyped
<1>14. ASSUME NEW w \in Trees, Aborts(w) \/ Heals(w) \/ Resolves(w) PROVE GitTyped' /\ made <= made'
  <2>1. CASE Aborts(w)
    <3>1. PICK gone \in SUBSET work[w] :
            /\ work' = [work EXCEPT ![w] = @ \ gone]
            /\ \/ Unmarks(w) /\ given' = given \cup (late[w] \cap gone)
               \/ given' = given \cup gone /\ UNCHANGED <<marker, late>>
            /\ unmerged' \subseteq unmerged
      BY <2>1 DEF Aborts
    <3>2. work' \in [Trees -> SUBSET Works] /\ given' \subseteq Works
      BY <1>0, <3>1 DEF GitTyped
    <3>3. marker' \in [Trees -> SUBSET Ids] /\ late' \in [Trees -> SUBSET Works]
      BY <1>0, <3>1 DEF Unmarks, GitTyped
    <3> QED BY <1>0, <2>1, <3>1, <3>2, <3>3 DEF Aborts, GitTyped
  <2> QED BY <1>0, <1>14, <2>1 DEF Heals, Resolves, GitTyped, gitVars
<1>15. ASSUME NEW w \in Trees, NEW s \in Ids, Pops(w, s) PROVE GitTyped' /\ made <= made'
  <2>1. stash' \in [Ids -> SUBSET Works]
    BY <1>0, <1>15, WithoutIs DEF Pops, GitTyped
  <2>2. work' \in [Trees -> SUBSET Works] /\ unmerged' \subseteq Trees
    BY <1>3, <1>15 DEF Pops
  <2>3. late' \in [Trees -> SUBSET Works]
    BY <1>0, <1>4, <1>15 DEF Pops, GitTyped
  <2> QED BY <1>0, <1>15, <2>1, <2>2, <2>3 DEF Pops, GitTyped
<1>16. ASSUME NEW s \in Ids, DropsStash(s) PROVE GitTyped' /\ made <= made'
  <2>1. stash' \in [Ids -> SUBSET Works]
    BY <1>16, WithoutIs DEF DropsStash
  <2>2. given' \subseteq Works
    BY <1>0, <1>16 DEF DropsStash, GitTyped
  <2>3. UNCHANGED <<branch, work, unmerged, made, marker, late>>
    BY <1>16 DEF DropsStash
  <2> QED BY <1>0, <2>1, <2>2, <2>3 DEF GitTyped
<1>17. ASSUME NEW w \in Trees, StashesAll(w) PROVE GitTyped' /\ made <= made'
  BY <1>1, <1>2, <1>17 DEF StashesAll
<1>18. ASSUME NEW w \in Trees, NEW b \in Branches, Switches(w, b) PROVE GitTyped' /\ made <= made'
  BY <1>0, <1>18 DEF Switches, GitTyped
<1>19. ASSUME NEW b \in Branches, NEW f \in Trees, NEW t \in Trees, Begins(b, f, t)
       PROVE  GitTyped' /\ made <= made'
  BY <1>0, <1>19 DEF Begins, GitTyped, gitVars
<1>20. CASE RolledBack \/ Stops \/ UNCHANGED handVars
  BY <1>0, <1>20 DEF RolledBack, Stops, handVars, GitTyped, gitVars
<1> QED BY <1>5, <1>6, <1>7, <1>8, <1>9, <1>10, <1>11, <1>12, <1>13, <1>14, <1>15, <1>16, <1>17,
           <1>18, <1>19, <1>20 DEF Next, HandNext, UserNext

\* Ids are given in turn, and a carry names those that were.
LEMMA StashesKeep ==
  ASSUME BaseInv, [Next]_handVars
  PROVE  /\ StashesFit'
         /\ \/ Marks
            \/ \A w \in Trees : marker'[w] \subseteq marker[w]
<1> USE DEF BaseInv, HandTyped
<1>1. CASE Marks
  <2>1. applied \subseteq 1..made
    BY MoveIs DEF AppliedFit, MoveTyped
  <2>2. /\ stash' = stash /\ made' = made
        /\ \E kept \in SUBSET applied : marker' \in {marker, [marker EXCEPT ![move.to] = kept]}
    BY <1>1 DEF Marks, gitVars
  <2>3. \A w \in Trees : marker'[w] = marker[w] \/ marker'[w] \subseteq applied
    BY <2>2 DEF GitTyped
  <2> QED BY <1>1, <2>1, <2>2, <2>3 DEF StashesFit
<1>2. ASSUME \A w \in Trees : marker'[w] \subseteq marker[w],
             \/ made' = made /\ \A s \in Ids : stash[s] = {} => stash'[s] = {}
             \/ \E w \in Trees : Stores(w)
      PROVE  StashesFit'
  <2>1. CASE made' = made /\ \A s \in Ids : stash[s] = {} => stash'[s] = {}
    BY <1>2, <2>1 DEF StashesFit
  <2>2. CASE \E w \in Trees : Stores(w)
    <3>1. made' = made + 1 /\ made \in Nat /\ \A s \in Ids : s > made' => stash'[s] = {}
      BY <2>2, StoresIs, MoveIs
    <3> QED BY <1>2, <3>1 DEF StashesFit
  <2> QED BY <1>2, <2>1, <2>2
<1>3. ASSUME NEW w \in Trees, Pushes(w) \/ PushFails(w)
      PROVE  UNCHANGED <<stash, made>> \/ Stores(w)
  BY <1>3 DEF Pushes, PushFails
<1>4. ASSUME NEW gone, stash' = Without(gone) PROVE \A s \in Ids : stash[s] = {} => stash'[s] = {}
  BY <1>4, WithoutIs
<1>5. CASE StashesSource \/ StashesDest \/ \E w \in Trees : StashesAll(w)
  <2>1. marker' = marker
    BY <1>5 DEF StashesSource, StashesDest, StashesAll
  <2>2. UNCHANGED <<stash, made>> \/ \E w \in Trees : Stores(w)
    <3>1. CASE StashesSource
      BY <1>3, <3>1, MoveIs DEF StashesSource, Locked
    <3>2. CASE StashesDest
      BY <1>3, <3>2, MoveIs DEF StashesDest, Locked
    <3>3. CASE \E w \in Trees : StashesAll(w)
      BY <1>3, <3>3 DEF StashesAll
    <3> QED BY <1>5, <3>1, <3>2, <3>3
  <2> QED BY <1>2, <2>1, <2>2
<1>6. CASE Restores \/ Drops
  <2>1. made' = made /\ marker' = marker
    BY <1>6 DEF Restores, Drops
  <2>2. \A s \in Ids : stash[s] = {} => stash'[s] = {}
    BY <1>4, <1>6 DEF Restores, Drops
  <2> QED BY <1>2, <2>1, <2>2
<1>7. ASSUME NEW w \in Trees, Continues(w) \/ Aborts(w) \/ Heals(w)
      PROVE  StashesFit' /\ \A v \in Trees : marker'[v] \subseteq marker[v]
  <2>1. marker' \in {marker, [marker EXCEPT ![w] = {}]} /\ made' = made
    BY <1>7 DEF Continues, Aborts, Heals, Unmarks, gitVars
  <2>2. \A v \in Trees : marker'[v] \subseteq marker[v]
    BY <2>1 DEF GitTyped
  <2>3. \A s \in Ids : stash[s] = {} => stash'[s] = {}
    BY <1>4, <1>7 DEF Continues, Aborts, Heals, gitVars
  <2> QED BY <1>2, <2>1, <2>2, <2>3
<1>8. ASSUME NEW s \in Ids, DropsStash(s) \/ \E w \in Trees : Pops(w, s)
      PROVE  StashesFit' /\ marker' = marker
  <2>1. made' = made /\ marker' = marker
    BY <1>8 DEF DropsStash, Pops
  <2>2. \A r \in Ids : stash[r] = {} => stash'[r] = {}
    BY <1>4, <1>8 DEF DropsStash, Pops
  <2> QED BY <1>2, <2>1, <2>2
<1>9. ASSUME UNCHANGED <<stash, made, marker>> PROVE StashesFit' /\ marker' = marker
  BY <1>2, <1>9
<1>10. ASSUME \/ \E b \in Branches, f, t \in Trees : Begins(b, f, t)
              \/ Detaches \/ ChecksOut \/ Reattaches \/ CarriesWork \/ RolledBack \/ Stops
              \/ \E w \in Trees, x \in Works : Edits(w, x)
              \/ \E w \in Trees, b \in Branches : Switches(w, b)
              \/ \E w \in Trees : Resolves(w)
              \/ UNCHANGED handVars
       PROVE  UNCHANGED <<stash, made, marker>>
  BY <1>10 DEF Begins, Detaches, ChecksOut, Reattaches, CarriesWork, RolledBack, Stops, Edits,
               Switches, Resolves, handVars, gitVars
<1> QED BY <1>1, <1>5, <1>6, <1>7, <1>8, <1>9, <1>10 DEF Next, HandNext, UserNext

\* A move is over as it began: it knows of nothing.
LEMMA EndsIs ==
  ASSUME BaseInv, Ends, made' \in Nat, moves' = moves
  PROVE  MoveTyped' /\ PastTyped' /\ MoveFit' /\ TodoFit' /\ AppliedFit'
<1>1. PastTyped'
  BY HomeAssumption DEF Ends, PastTyped, NoWork, NoStash
<1>2. MoveTyped'
  BY MoveIs DEF Ends, MoveTyped, Steps, BaseInv, HandTyped
<1>3. MoveFit' /\ TodoFit' /\ AppliedFit'
  BY DEF Ends, MoveFit, TodoFit, AppliedFit, Locked, Reversible
<1> QED BY <1>1, <1>2, <1>3

\* What a move knows of itself stays fit.
LEMMA MoveKeeps ==
  ASSUME BaseInv, [Next]_handVars
  PROVE  BaseInv'
<1> USE DEF BaseInv, HandTyped
<1> DEFINE Good == MoveTyped' /\ PastTyped' /\ MoveFit' /\ TodoFit' /\ AppliedFit'
<1>0. /\ GitTyped' /\ made' \in Nat /\ made <= made' /\ StashesFit'
      /\ MaxStashes \in Nat /\ made \in Nat /\ \A s \in Ids : s \in Nat /\ s # 0
      /\ Marks \/ \A w \in Trees : marker'[w] \subseteq marker[w]
  <2>1. GitTyped' /\ made <= made'
    BY GitTypesKeep
  <2>2. made' \in Nat
    BY <2>1, MoveIs DEF GitTyped
  <2> QED BY <2>1, <2>2, StashesKeep, MoveIs
<1> SUFFICES Good
  BY <1>0
<1>1. ASSUME NEW b \in Branches, NEW f \in Trees, NEW t \in Trees, Begins(b, f, t) PROVE Good
  <2>1. PastTyped'
    BY <1>1 DEF Begins, PastTyped, GitTyped
  <2>2. MoveTyped'
    <3>1. moves' \in 0..MaxMoves
      BY <1>1, MoveIs DEF Begins, MoveTyped
    <3> QED BY <1>0, <1>1, <3>1 DEF Begins, MoveTyped, Steps
  <2>3. MoveFit'
    BY <1>0, <1>1 DEF Begins, MoveFit, StashesFit, GitTyped
  <2>4. TodoFit' /\ AppliedFit'
    BY <1>1 DEF Begins, TodoFit, AppliedFit
  <2> QED BY <2>1, <2>2, <2>3, <2>4
<1>2. ASSUME NEW n, n = made + 1
      PROVE  \A w \in Trees : n \notin marker[w]
  BY <1>0, <1>2 DEF StashesFit
<1>3. CASE StashesSource
  <2>1. UNCHANGED <<move, dest, applied, todo, moves, before, marker>> /\ pc = "stashSource"
    BY <1>3 DEF StashesSource
  <2>2. \/ source' = source /\ pc' \in {"stashDest", "failed"}
        \/ source' = made' /\ made' = made + 1 /\ pc' = "stashDest"
    BY <1>3 DEF StashesSource, Pushes, Stores
  <2>3. dest = 0 /\ source = 0 /\ applied = {}
    BY <2>1 DEF MoveFit, AppliedFit, Locked
  <2>4. MoveTyped'
    BY <1>0, <2>1, <2>2 DEF MoveTyped, Steps
  <2>5. MoveFit'
    BY <1>0, <1>2, <2>1, <2>2, <2>3 DEF MoveFit, Locked
  <2>6. TodoFit' /\ AppliedFit'
    BY <2>1, <2>2, <2>3 DEF TodoFit, AppliedFit
  <2> QED BY <2>1, <2>4, <2>5, <2>6 DEF PastTyped
<1>4. CASE StashesDest
  <2>1. UNCHANGED <<move, source, applied, moves, before, marker>> /\ pc = "stashDest"
    BY <1>4 DEF StashesDest
  <2>2. \/ dest' = dest /\ pc' = "detach" /\ todo' = todo
        \/ dest' = made' /\ made' = made + 1 /\ pc' = "detach" /\ todo' = todo
        \/ dest' = dest /\ pc' = "restore" /\ todo' = OfSource
    BY <1>4 DEF StashesDest, Pushes, Stores, Restore
  <2>3. dest = 0 /\ applied = {}
    BY <2>1 DEF MoveFit, AppliedFit, Locked, Reversible
  <2>4. todo' = OfSource => todo' \in Seq(Entry)
    BY <2>1, <2>3, RestoreLists DEF Locked
  <2>5. MoveTyped'
    BY <1>0, <2>1, <2>2, <2>4 DEF MoveTyped, Steps, Entry
  <2>6. MoveFit'
    BY <1>0, <1>2, <2>1, <2>2, <2>3 DEF MoveFit, Locked, MoveTyped
  <2>7. TodoFit'
    <3>1. CASE pc' = "restore"
      <4>1. todo' = OfSource /\ Locked /\ dest' = dest
        BY <2>1, <2>2, <3>1 DEF Locked
      <4> QED BY <2>1, <2>3, <4>1, RestoreLists DEF TodoFit
    <3> QED BY <3>1 DEF TodoFit
  <2>8. AppliedFit'
    BY <2>1, <2>2, <2>3 DEF AppliedFit
  <2> QED BY <2>1, <2>5, <2>6, <2>7, <2>8 DEF PastTyped
<1>5. CASE Detaches \/ ChecksOut \/ Reattaches
  <2>1. /\ UNCHANGED <<move, source, dest, applied, moves, before, marker, made>>
        /\ pc \in {"detach", "checkout", "reattach"}
    BY <1>5 DEF Detaches, ChecksOut, Reattaches
  <2>2. \/ pc' \in {"checkout", "applySource", "reattach"} /\ todo' = todo
        \/ pc' = "restore" /\ (todo' = OfDest \o OfSource \/ todo' = OfSource \o OfDest)
    BY <1>5 DEF Detaches, ChecksOut, Reattaches, Restore
  <2>3. Locked /\ applied = {}
    BY <2>1 DEF AppliedFit, Locked, Reversible
  <2>4. PICK list : list = todo'
    OBVIOUS
  <2>5. todo' \in Seq(Entry)
    BY <2>2, <2>3, <2>4, RestoreLists DEF MoveTyped, Entry
  <2>6. MoveTyped'
    BY <1>0, <2>1, <2>2, <2>5 DEF MoveTyped, Steps, Entry
  <2>7. MoveFit'
    BY <2>1, <2>2, <2>3 DEF MoveFit, Locked
  <2>8. TodoFit'
    <3>1. CASE pc' = "restore"
      BY <2>1, <2>2, <2>3, <2>4, <3>1, RestoreLists DEF TodoFit
    <3> QED BY <3>1 DEF TodoFit
  <2>9. AppliedFit'
    BY <2>1, <2>2, <2>3 DEF AppliedFit
  <2> QED BY <2>1, <2>6, <2>7, <2>8, <2>9 DEF PastTyped
<1>6. CASE Restores
  <2>1. /\ UNCHANGED <<made, marker, pc, move, source, dest, applied, moves, before>>
        /\ pc = "restore" /\ todo # <<>> /\ todo' = Tail(todo)
    BY <1>6 DEF Restores
  <2>2. /\ todo \in Seq(Entry) /\ todo' \in Seq(Entry) /\ Len(todo') = Len(todo) - 1
        /\ \A n \in 1..Len(todo') : todo'[n] = todo[n + 1]
    BY <2>1, HeadTailProperties DEF MoveTyped, Entry
  <2>3. MoveTyped' /\ MoveFit' /\ AppliedFit'
    BY <2>1, <2>2 DEF MoveTyped, MoveFit, AppliedFit, Locked, Entry, Reversible
  <2>4. TodoFit'
    <3>1. /\ DOMAIN todo' \subseteq Nat \ {0}
          /\ \A n \in DOMAIN todo' : n + 1 \in DOMAIN todo /\ todo'[n] = todo[n + 1]
      BY <2>2
    <3> QED BY <2>1, <3>1 DEF TodoFit
  <2> QED BY <2>1, <2>3, <2>4 DEF PastTyped
<1>7. CASE CarriesWork
  <2>1. /\ UNCHANGED <<stash, made, marker, move, source, dest, todo, moves, before>>
        /\ pc \in {"applySource", "applyDest"} /\ pc' \in {"applyDest", "mark", "drop"}
    BY <1>7 DEF CarriesWork, Carries
  <2>2. PICK id \in {source, dest} :
          \/ applied' = applied /\ work' = work
          \/ id # 0 /\ applied' = applied \cup {id} /\ work' = [work EXCEPT ![move.to] = @ \cup stash[id]]
    BY <1>7 DEF CarriesWork, Carries, Applies, Conflicts, Refuses
  <2>3. move.to \in Trees
    BY <2>1, MoveIs DEF Locked
  <2>4. applied' \subseteq {source, dest} \ {0}
    BY <2>2 DEF AppliedFit
  <2>5. \A s \in applied' : stash[s] \subseteq work'[move.to]
    <3>1. \A s \in applied : stash[s] \subseteq work[move.to]
      BY <2>1 DEF AppliedFit
    <3>2. work[move.to] \subseteq work'[move.to]
      BY <2>2, <2>3 DEF GitTyped
    <3>3. applied' = applied \/ (applied' = applied \cup {id} /\ stash[id] \subseteq work'[move.to])
      BY <2>2, <2>3 DEF GitTyped
    <3> QED BY <3>1, <3>2, <3>3
  <2>6. AppliedFit'
    BY <2>1, <2>4, <2>5 DEF AppliedFit, Reversible
  <2>7. MoveTyped'
    <3>1. applied' \subseteq Ids
      BY <2>4, MoveIs DEF MoveTyped, Ids
    <3> QED BY <1>0, <2>1, <3>1 DEF MoveTyped, Steps
  <2>8. MoveFit' /\ TodoFit'
    BY <2>1 DEF MoveFit, TodoFit, Locked
  <2> QED BY <2>1, <2>6, <2>7, <2>8 DEF PastTyped
<1>8. CASE Marks \/ Drops \/ Stops
  <2>1. CASE Ends
    BY <1>0, <1>8, <2>1, EndsIs DEF Marks, Drops, Stops
  <2>2. CASE pc = "mark" /\ pc' = "failed" /\ UNCHANGED <<move, source, dest, applied, todo, before, moves>>
    <3>1. MoveTyped' /\ PastTyped'
      BY <1>0, <2>2 DEF MoveTyped, PastTyped, Steps
    <3>2. MoveFit' /\ TodoFit' /\ AppliedFit'
      BY <2>2 DEF MoveFit, TodoFit, AppliedFit, Locked, Reversible
    <3> QED BY <3>1, <3>2
  <2> QED BY <1>8, <2>1, <2>2 DEF Marks, Drops, Stops
<1>9. CASE RolledBack
  BY <1>9 DEF RolledBack, MoveTyped, Steps, PastTyped, MoveFit, TodoFit, AppliedFit, Locked,
              Reversible, gitVars
<1>10. ASSUME UNCHANGED jobVars, PastTyped', ~Marks,
              \/ ~Locked
              \/ UNCHANGED stash /\ \A w \in Trees : work[w] \subseteq work'[w]
       PROVE  Good
  <2>1. MoveTyped' /\ MoveFit' /\ TodoFit'
    BY <1>0, <1>10 DEF MoveTyped, MoveFit, TodoFit, Locked, jobVars
  <2>2. AppliedFit'
    <3>1. Locked => move.to \in Trees
      BY MoveIs
    <3> QED BY <1>10, <3>1 DEF AppliedFit, Locked, jobVars, Reversible
  <2> QED BY <1>10, <2>1, <2>2
<1>11. ASSUME NEW w \in Trees, NEW x \in Works, Edits(w, x) PROVE Good
  <2>1. UNCHANGED <<jobVars, stash, marker>>
    BY <1>11 DEF Edits
  <2>2. PastTyped'
    BY <1>11 DEF Edits, PastTyped
  <2>3. \A v \in Trees : work[v] \subseteq work'[v]
    BY <1>11 DEF Edits, GitTyped
  <2> QED BY <1>10, <2>1, <2>2, <2>3 DEF Marks, jobVars, Ends
<1>12. ASSUME NEW w \in Trees, NEW b \in Branches, Switches(w, b) PROVE Good
  <2>1. UNCHANGED <<jobVars, stash, work>>
    BY <1>12 DEF Switches
  <2>2. PastTyped'
    BY <1>12 DEF Switches, PastTyped
  <2> QED BY <1>10, <2>1, <2>2 DEF Marks, jobVars, Ends
<1>13. ASSUME NEW w \in Trees, Heals(w) PROVE Good
  BY <1>10, <1>13 DEF Heals, PastTyped, Marks, jobVars, gitVars, Ends
<1>14. ASSUME \/ \E w \in Trees : Resolves(w) \/ Continues(w) \/ Aborts(w) \/ StashesAll(w)
              \/ \E s \in Ids : DropsStash(s) \/ \E w \in Trees : Pops(w, s)
       PROVE  Good
  <2>1. ~Locked /\ UNCHANGED <<jobVars, before>>
    BY <1>14 DEF Resolves, Continues, Aborts, StashesAll, DropsStash, Pops
  <2> QED BY <1>10, <2>1 DEF PastTyped, Marks, Locked
<1>15. CASE UNCHANGED handVars
  <2>1. MoveTyped' /\ PastTyped'
    BY <1>15 DEF handVars, gitVars, jobVars, MoveTyped, PastTyped
  <2>2. UNCHANGED <<pc, todo, source, dest, move, applied, stash, work, marker>>
    BY <1>15 DEF handVars, gitVars, jobVars
  <2>3. MoveFit' /\ TodoFit' /\ AppliedFit'
    BY <2>2 DEF MoveFit, TodoFit, AppliedFit, Locked
  <2> QED BY <2>1, <2>3
<1> HIDE DEF Good
<1>16. HandNext => Good
  BY <1>1, <1>3, <1>4, <1>5, <1>6, <1>7, <1>8, <1>9 DEF HandNext
<1>17. UserNext => Good
  BY <1>11, <1>12, <1>13, <1>14 DEF UserNext
<1> QED BY <1>15, <1>16, <1>17 DEF Next

-----------------------------------------------------------------------------
(* No change disappears.                                                     *)

\* What goes back is a stash of the move, with one place to go.
LEMMA GoesBackIs ==
  ASSUME BaseInv, NEW s, NEW w, GoesBack(s, w)
  PROVE  /\ s \in Ids /\ s <= made /\ s # 0 /\ w \in Trees /\ Locked
         /\ pc \in Reversible \cup {"restore"}
         /\ (s = source /\ w = move.from) \/ (s = dest /\ w = move.to)
         /\ \A u \in Trees : s \notin marker[u]
         /\ \A u : GoesBack(s, u) => u = w
<1> USE DEF BaseInv
<1>1. pc \in Reversible \cup {"restore"}
  BY DEF GoesBack
<1>2. Locked /\ pc # "failed" /\ move.from \in Trees /\ move.to \in Trees
  BY <1>1, MoveIs DEF Locked, Reversible
<1>3. \A r, u : GoesBack(r, u) => r # 0 /\ ((r = source /\ u = move.from) \/ (r = dest /\ u = move.to))
  <2>1. pc = "restore" => \A n \in DOMAIN todo :
          /\ todo[n].id # 0
          /\ \/ todo[n].id = source /\ todo[n].tree = move.from
             \/ todo[n].id = dest /\ todo[n].tree = move.to
    <3>1. \A n \in DOMAIN todo : todo[n] \in Entry
      <4>1. todo \in Seq(Entry)
        BY DEF HandTyped, MoveTyped, Entry
      <4> QED BY <4>1, ElementOfSeq, LenProperties
    <3>2. \A n \in DOMAIN todo : todo[n].id \in Ids
      BY <3>1 DEF Entry
    <3> QED BY <3>2, MoveIs DEF TodoFit
  <2> QED BY <2>1 DEF GoesBack
<1>4. source # 0 => source # dest
  BY <1>2 DEF MoveFit
<1>5. \A u : GoesBack(s, u) => u = w
  BY <1>3, <1>4
<1>6. s \in Ids /\ s <= made
  BY <1>3, MoveIs DEF HandTyped, MoveTyped, Ids
<1>7. \A u \in Trees : s \notin marker[u]
  BY <1>2, <1>3 DEF MoveFit
<1> QED BY <1>1, <1>2, <1>3, <1>5, <1>6, <1>7

\* What is in a worktree or goes back there.
LEMMA AtIs ==
  ASSUME NEW w, NEW x
  PROVE  /\ x \in At(w) <=> x \in work[w] \/ \E s \in Ids : x \in stash[s] /\ GoesBack(s, w)
         /\ x \in At(w)' <=> x \in work'[w] \/ \E s \in Ids : x \in stash'[s] /\ GoesBack(s, w)'
  BY DEF At

\* What makes a change safe after a step.
LEMMA HeldBy ==
  ASSUME NEW x
  PROVE  /\ x \in given' => Held(x)'
         /\ \A w \in Trees : x \in work'[w] /\ (Abortable(w)' => x \in late'[w]) => Held(x)'
         /\ \A w \in Trees, s \in Ids :
              x \in stash'[s] /\ GoesBack(s, w)' /\ (Marked(w)' => x \in late'[w]) => Held(x)'
         /\ \A s \in Ids :
              /\ x \in stash'[s] /\ \A w \in Trees : ~GoesBack(s, w)'
              /\ \A w \in Trees : s \in marker'[w] => x \in At(w)'
              => Held(x)'
<1>1. x \in given' => Held(x)'
  BY Zenon DEF Held
<1>2. ASSUME NEW w \in Trees, x \in work'[w], Abortable(w)' => x \in late'[w] PROVE Held(x)'
  BY <1>2, Zenon DEF Held
<1>3. ASSUME NEW w \in Trees, NEW s \in Ids, x \in stash'[s], GoesBack(s, w)', Marked(w)' => x \in late'[w]
      PROVE  Held(x)'
  BY <1>3, Zenon DEF Held
<1>4. ASSUME NEW s \in Ids, x \in stash'[s], \A w \in Trees : ~GoesBack(s, w)',
             \A w \in Trees : s \in marker'[w] => x \in At(w)'
      PROVE  Held(x)'
  BY <1>4, Zenon DEF Held
<1> QED BY <1>1, <1>2, <1>3, <1>4

\* A worktree is not marked by a marker that is cleared.
LEMMA MarkedIs ==
  ASSUME NEW w, marker'[w] \subseteq marker[w], Marked(w)'
  PROVE  Marked(w)
  BY DEF Marked

\* A change stays safe while nothing is taken, no worktree is marked over it and less
\* is to go back.
LEMMA HeldStill ==
  ASSUME BaseInv, NEW x, Held(x), given \subseteq given',
         \A w \in Trees : x \in work[w] => x \in work'[w],
         \A w \in Trees : x \in work[w] /\ Abortable(w)' => Abortable(w) /\ (x \in late[w] => x \in late'[w]),
         \A w \in Trees : \/ Marked(w)' => Marked(w) /\ (x \in late[w] => x \in late'[w])
                         \/ \A s \in Ids : ~GoesBack(s, w)',
         \A s \in Ids : x \in stash[s] => x \in stash'[s],
         \A s \in Ids, w \in Trees : GoesBack(s, w)' => GoesBack(s, w),
         \A s \in Ids, w \in Trees : x \in stash[s] /\ s \in marker'[w] => s \in marker[w] \/ x \in work'[w]
  PROVE  Held(x)'
<1>1. ASSUME NEW r \in Ids, NEW v \in Trees, x \in stash[r], GoesBack(r, v), ~GoesBack(r, v)' PROVE Held(x)'
  <2>1. \A u \in Trees : ~GoesBack(r, u)'
    BY <1>1, GoesBackIs
  <2>2. \A u \in Trees : r \in marker'[u] => x \in At(u)'
    BY <1>1, GoesBackIs, AtIs
  <2> QED BY <1>1, <2>1, <2>2, HeldBy
<1>2. CASE x \in given
  BY <1>2, HeldBy
<1>3. ASSUME NEW w \in Trees, x \in work[w], Abortable(w) => x \in late[w] PROVE Held(x)'
  BY <1>3, HeldBy
<1>4. ASSUME NEW w \in Trees, NEW s \in Ids, x \in stash[s], GoesBack(s, w), Marked(w) => x \in late[w]
      PROVE  Held(x)'
  <2>1. CASE GoesBack(s, w)'
    BY <1>4, <2>1, HeldBy
  <2> QED BY <1>1, <1>4, <2>1
<1>5. ASSUME NEW s \in Ids, x \in stash[s], \A w \in Trees : ~GoesBack(s, w),
             \A w \in Trees : s \in marker[w] => x \in At(w)
      PROVE  Held(x)'
  <2>1. CASE \A u \in Trees : s \in marker'[u] => x \in At(u)'
    BY <1>5, <2>1, HeldBy
  <2>2. ASSUME NEW u \in Trees, s \in marker'[u], x \notin At(u)' PROVE Held(x)'
    <3>1. x \notin work'[u] /\ x \in At(u)
      BY <1>5, <2>2, AtIs
    <3>2. PICK r \in Ids : x \in stash[r] /\ GoesBack(r, u)
      BY <3>1, AtIs
    <3>3. ~GoesBack(r, u)'
      BY <2>2, <3>2, AtIs
    <3> QED BY <1>1, <3>2, <3>3
  <2> QED BY <2>1, <2>2
<1> QED BY <1>2, <1>3, <1>4, <1>5 DEF Held

\* It does when a worktree is stashed, wherever the stash is to go.
LEMMA HeldPushed ==
  ASSUME BaseInv, NEW x, Held(x), NEW n, n = made + 1, NEW w \in Trees, Stores(w), UNCHANGED <<marker, late, given>>,
         \A u \in Trees \ {w} : work'[u] = work[u],
         \A u \in Trees \ {w} : pc' \in Carrying /\ u = move'.to => Abortable(u),
         \A s \in Ids, u \in Trees : s # n => (GoesBack(s, u)' <=> GoesBack(s, u)),
         \A u \in Trees : GoesBack(n, u)' => u = w
  PROVE  Held(x)'
<1>1. /\ n \in Ids /\ made \in Nat /\ \A s \in Ids : s \in Nat
      /\ stash'[n] = work[w] /\ \A s \in Ids : s # n => stash'[s] = stash[s]
  BY StoresIs, MoveIs
<1>2. /\ \A s \in Ids : x \in stash[s] => s # n
      /\ \A u \in Trees : n \notin marker[u]
  BY <1>1 DEF BaseInv, StashesFit
<1>3. \A u \in Trees : Marked(u)' => Marked(u)
  BY <1>1, <1>2 DEF Marked
<1>4. ASSUME x \in work[w], ~GoesBack(n, w)' PROVE Held(x)'
  <2>1. \A u \in Trees : ~GoesBack(n, u)'
    BY <1>4
  <2>2. \A u \in Trees : n \notin marker'[u]
    BY <1>2
  <2> QED BY <1>1, <1>4, <2>1, <2>2, HeldBy
<1>5. CASE x \in given
  BY <1>5, HeldBy
<1>6. ASSUME NEW u \in Trees, x \in work[u], Abortable(u) => x \in late[u] PROVE Held(x)'
  <2>1. CASE u # w
    <3>1. Abortable(u)' => Abortable(u)
      BY <1>3, <2>1 DEF Abortable
    <3> QED BY <1>6, <2>1, <3>1, HeldBy
  <2>2. CASE u = w /\ GoesBack(n, w)'
    <3>1. x \in stash'[n] /\ (Marked(w)' => x \in late'[w])
      BY <1>1, <1>3, <1>6, <2>2 DEF Abortable
    <3> QED BY <1>1, <2>2, <3>1, HeldBy
  <2> QED BY <1>4, <1>6, <2>1, <2>2
<1>7. ASSUME NEW u \in Trees, NEW s \in Ids, x \in stash[s], GoesBack(s, u), Marked(u) => x \in late[u]
      PROVE  Held(x)'
  <2>1. x \in stash'[s] /\ GoesBack(s, u)'
    BY <1>1, <1>2, <1>7
  <2> QED BY <1>1, <1>3, <1>7, <2>1, HeldBy
<1>8. ASSUME NEW s \in Ids, x \in stash[s], \A u \in Trees : ~GoesBack(s, u),
             \A u \in Trees : s \in marker[u] => x \in At(u)
      PROVE  Held(x)'
  <2>1. s # n /\ x \in stash'[s] /\ \A u \in Trees : ~GoesBack(s, u)'
    BY <1>1, <1>2, <1>8
  <2>2. \A r \in Ids, u \in Trees : x \in stash[r] /\ GoesBack(r, u) => x \in stash'[r] /\ GoesBack(r, u)'
    BY <1>1, <1>2
  <2>3. ASSUME NEW u \in Trees, s \in marker[u], ~(x \in work[w] /\ ~GoesBack(n, w)') PROVE x \in At(u)'
    <3>1. x \in work[u] \/ \E r \in Ids : x \in stash[r] /\ GoesBack(r, u)
      BY <1>8, <2>3, AtIs
    <3>2. CASE x \in work[u] /\ u # w
      BY <3>2, AtIs
    <3>3. CASE x \in work[u] /\ u = w
      <4>1. x \in stash'[n] /\ GoesBack(n, u)'
        BY <1>1, <2>3, <3>3
      <4> QED BY <1>1, <4>1, AtIs
    <3>4. CASE \E r \in Ids : x \in stash[r] /\ GoesBack(r, u)
      BY <2>2, <3>4, AtIs
    <3> QED BY <3>1, <3>2, <3>3, <3>4
  <2> QED BY <1>4, <2>1, <2>3, HeldBy
<1> QED BY <1>5, <1>6, <1>7, <1>8 DEF Held

\* It does when stashes leave the stack that are in a worktree, or were given up.
LEMMA HeldDropped ==
  ASSUME BaseInv, NEW x, Held(x), NEW gone, stash' = Without(gone), given \subseteq given',
         pc \notin Reversible \cup {"restore"}, pc' \notin Reversible \cup {"restore"},
         \A w \in Trees : marker'[w] \subseteq marker[w],
         \A w \in Trees : x \in work[w] => x \in work'[w],
         \A w \in Trees : x \in work[w] /\ (Abortable(w) => x \in late[w]) => (Abortable(w)' => x \in late'[w]),
         \A s \in Ids : s \in gone /\ x \in stash[s] /\ (\A w \in Trees : s \in marker[w] => x \in work[w]) =>
           \/ x \in given'
           \/ \E w \in Trees : x \in work'[w] /\ (Abortable(w)' => x \in late'[w])
  PROVE  Held(x)'
<1>1. \A s, w : ~GoesBack(s, w) /\ ~GoesBack(s, w)'
  BY DEF GoesBack
<1>2. \A s \in Ids : s \notin gone => stash'[s] = stash[s]
  BY WithoutIs
<1>3. CASE x \in given
  BY <1>3, HeldBy
<1>4. ASSUME NEW w \in Trees, x \in work[w], Abortable(w) => x \in late[w] PROVE Held(x)'
  BY <1>4, HeldBy
<1>5. ASSUME NEW s \in Ids, x \in stash[s], \A w \in Trees : s \in marker[w] => x \in At(w) PROVE Held(x)'
  <2>1. \A w \in Trees : s \in marker[w] => x \in work[w]
    BY <1>1, <1>5, AtIs
  <2>2. CASE s \in gone
    BY <1>5, <2>1, <2>2, HeldBy
  <2>3. CASE s \notin gone
    <3>1. \A w \in Trees : s \in marker'[w] => x \in At(w)'
      BY <2>1, AtIs
    <3> QED BY <1>1, <1>2, <1>5, <2>3, <3>1, HeldBy
  <2> QED BY <2>2, <2>3
<1> QED BY <1>1, <1>3, <1>4, <1>5 DEF Held

\* Nothing goes back but where a move may be undone.
LEMMA NoneGoes ==
  /\ pc \notin Reversible \cup {"restore"} => \A s, w : ~GoesBack(s, w)
  /\ pc' \notin Reversible \cup {"restore"} => \A s, w : ~GoesBack(s, w)'
  BY DEF GoesBack

\* To turn to the rollback changes nothing in what goes back.
LEMMA RestoreGoes ==
  ASSUME BaseInv, pc \in Reversible, UNCHANGED <<move, source, dest>>, pc' = "restore",
         todo' \in {OfDest \o OfSource, OfSource \o OfDest} \/ (todo' = OfSource /\ dest = 0)
  PROVE  \A s, w : GoesBack(s, w)' <=> GoesBack(s, w)
<1>1. HandTyped /\ MoveFit /\ Locked /\ pc # "restore"
  BY DEF Locked, Reversible, BaseInv
<1>2. PICK list : list = todo'
  OBVIOUS
<1>3. \/ list = OfDest \o OfSource
      \/ list = OfSource \o OfDest
      \/ list = OfSource /\ dest = 0
  BY <1>2
<1> SUFFICES ASSUME NEW s, NEW w
             PROVE  GoesBack(s, w)' <=> GoesBack(s, w)
  OBVIOUS
<1>4. (\E n \in DOMAIN list : list[n].id = s /\ list[n].tree = w)
        <=> \/ s # 0 /\ s = source /\ w = move.from
            \/ s # 0 /\ s = dest /\ w = move.to
  BY <1>1, <1>3, RestoreLists, Zenon
<1>5. GoesBack(s, w)' <=> \E n \in DOMAIN list : list[n].id = s /\ list[n].tree = w
  BY <1>2 DEF GoesBack, Reversible
<1>6. GoesBack(s, w) <=> \/ s # 0 /\ s = source /\ w = move.from
                         \/ s # 0 /\ s = dest /\ w = move.to
  BY <1>1 DEF GoesBack
<1> QED BY <1>4, <1>5, <1>6

\* What the user puts into a worktree with a carry is noted.
LEMMA ArrivesIs ==
  ASSUME BaseInv, NEW w \in Trees, NEW what, Arrives(w, what)
  PROVE  /\ \A v \in Trees : late[v] \subseteq late'[v]
         /\ Abortable(w) => what \subseteq late'[w]
<1>1. pc \in Carrying => Locked
  BY DEF Locked, Carrying
<1>2. late \in [Trees -> SUBSET Works]
  BY DEF BaseInv, HandTyped, GitTyped
<1> QED BY <1>1, <1>2 DEF Arrives, Abortable

\* The steps that put the source aside keep what is safe safe.
LEMMA SourceHolds ==
  ASSUME BaseInv, NEW x, Held(x), StashesSource
  PROVE  Held(x)'
<1>1. /\ pc = "stashSource" /\ source = 0 /\ dest = 0 /\ move.from \in Trees
      /\ UNCHANGED <<marker, move, dest, late, given>> /\ pc' \notin Carrying
  BY MoveIs DEF StashesSource, BaseInv, MoveFit, Locked, Carrying
<1>2. \A s, u : ~GoesBack(s, u)
  BY <1>1, NoneGoes DEF Reversible
<1>3. CASE UNCHANGED <<work, stash, made, source>>
  <2>1. \A s, u : ~GoesBack(s, u)'
    BY <1>1, <1>3 DEF GoesBack, StashesSource
  <2>2. \A u \in Trees : (Marked(u)' <=> Marked(u)) /\ (Abortable(u)' => Abortable(u))
    BY <1>1, <1>3 DEF Abortable, Marked
  <2> QED BY <1>1, <1>3, <2>1, <2>2, HeldStill
<1>4. PICK n : n = made + 1
  OBVIOUS
<1>5. ASSUME Stores(move.from), \E rest : work' = [work EXCEPT ![move.from] = rest],
             (source' = n /\ pc' = "stashDest") \/ pc' = "failed"
      PROVE  Held(x)'
  <2>1. \A s, u : GoesBack(s, u)' => s = n /\ u = move.from
    BY <1>1, <1>5 DEF GoesBack, Reversible
  <2>2. \A u \in Trees \ {move.from} : work'[u] = work[u]
    BY <1>1, <1>5 DEF BaseInv, HandTyped, GitTyped
  <2>3. \A s \in Ids, u \in Trees : s # n => (GoesBack(s, u)' <=> GoesBack(s, u))
    BY <1>2, <2>1
  <2>4. PICK w \in Trees : w = move.from
    BY <1>1
  <2> QED BY <1>1, <1>4, <1>5, <2>1, <2>2, <2>3, <2>4, HeldPushed
<1>6. \/ UNCHANGED <<work, stash, made, source>>
      \/ /\ Stores(move.from) /\ \E rest : work' = [work EXCEPT ![move.from] = rest]
         /\ (source' = n /\ pc' = "stashDest") \/ pc' = "failed"
  BY <1>4 DEF StashesSource, Pushes, PushFails, Stores
<1> QED BY <1>3, <1>5, <1>6

\* So do those that put the destination aside.
LEMMA DestHolds ==
  ASSUME BaseInv, NEW x, Held(x), StashesDest
  PROVE  Held(x)'
<1>1. /\ pc = "stashDest" /\ dest = 0 /\ move.to \in Trees /\ source \in 0..made /\ made \in Nat
      /\ UNCHANGED <<marker, move, source, late, given>> /\ pc' \in {"detach", "restore"}
      /\ pc' = "restore" => todo' = OfSource /\ dest' = dest
  BY MoveIs DEF StashesDest, BaseInv, MoveFit, Locked, Restore, HandTyped, MoveTyped
<1>2. \A s, u : GoesBack(s, u) <=> s # 0 /\ s = source /\ u = move.from
  BY <1>1 DEF GoesBack, Reversible
<1>3. pc' = "restore" => \A s, u : GoesBack(s, u)' <=> GoesBack(s, u)
  BY <1>1, RestoreGoes DEF Reversible
<1>4. pc' = "detach" => \A s, u : GoesBack(s, u)' <=>
         \/ s # 0 /\ s = source /\ u = move.from
         \/ s # 0 /\ s = dest' /\ u = move.to
  BY <1>1 DEF GoesBack, Reversible
<1>5. CASE UNCHANGED <<work, stash, made, dest>> /\ (pc' = "detach" => work[move.to] = {})
  <2>1. \A s, u : GoesBack(s, u)' <=> GoesBack(s, u)
    BY <1>1, <1>2, <1>3, <1>4, <1>5
  <2>2. \A u \in Trees : /\ Marked(u)' <=> Marked(u)
                         /\ x \in work[u] /\ Abortable(u)' => Abortable(u)
    BY <1>1, <1>5 DEF Abortable, Marked, Carrying
  <2> QED BY <1>1, <1>5, <2>1, <2>2, HeldStill
<1>6. PICK n : n = made + 1
  OBVIOUS
<1>7. ASSUME Stores(move.to), \E rest : work' = [work EXCEPT ![move.to] = rest],
             (dest' = n /\ pc' = "detach") \/ pc' = "restore"
      PROVE  Held(x)'
  <2>1. n # source /\ n # 0
    BY <1>1, <1>6
  <2>2. /\ \A s, u : s # n => (GoesBack(s, u)' <=> GoesBack(s, u))
        /\ \A u : GoesBack(n, u)' => u = move.to
    BY <1>1, <1>2, <1>3, <1>4, <1>7, <2>1
  <2>3. \A u \in Trees \ {move.to} : work'[u] = work[u]
    BY <1>1, <1>7 DEF BaseInv, HandTyped, GitTyped
  <2>4. PICK w \in Trees : w = move.to
    BY <1>1
  <2> QED BY <1>1, <1>6, <1>7, <2>2, <2>3, <2>4, HeldPushed
<1>8. \/ UNCHANGED <<work, stash, made, dest>> /\ (pc' = "detach" => work[move.to] = {})
      \/ /\ Stores(move.to) /\ \E rest : work' = [work EXCEPT ![move.to] = rest]
         /\ (dest' = n /\ pc' = "detach") \/ pc' = "restore"
  BY <1>6 DEF StashesDest, Pushes, PushFails, Stores, Restore
<1> QED BY <1>5, <1>7, <1>8

\* So do the other steps of a move that drop nothing.
LEMMA MoveHolds ==
  ASSUME BaseInv, NEW x, Held(x), Locked,
         Detaches \/ ChecksOut \/ Reattaches \/ CarriesWork \/ Marks \/ RolledBack \/ Stops
  PROVE  Held(x)'
<1>1. ASSUME UNCHANGED <<stash, marker, late, given>>, \A w \in Trees : work[w] \subseteq work'[w],
             \A w \in Trees : Abortable(w)' => Abortable(w),
             \A s, w : GoesBack(s, w)' => GoesBack(s, w)
      PROVE  Held(x)'
  <2>1. \A w \in Trees : Marked(w)' <=> Marked(w)
    BY <1>1 DEF Marked
  <2> QED BY <1>1, <2>1, HeldStill
<1>2. ASSUME UNCHANGED <<stash, marker>>, pc' \notin Carrying \/ (pc \in Carrying /\ move' = move)
      PROVE  \A w \in Trees : Abortable(w)' => Abortable(w)
  BY <1>2 DEF Abortable, Marked
<1>3. CASE Detaches
  <2>1. /\ UNCHANGED <<stash, marker, late, given, move, work, source, dest>> /\ pc = "detach"
        /\ \/ pc' = "checkout"
           \/ pc' = "restore" /\ todo' = OfDest \o OfSource
    BY <1>3 DEF Detaches, Restore
  <2>2. \A s, w : GoesBack(s, w)' => GoesBack(s, w)
    <3>1. CASE pc' = "checkout"
      BY <2>1, <3>1 DEF GoesBack, Reversible
    <3>2. CASE pc' = "restore" /\ todo' = OfDest \o OfSource
      BY <2>1, <3>2, RestoreGoes DEF Reversible
    <3> QED BY <2>1, <3>1, <3>2
  <2> QED BY <1>1, <1>2, <2>1, <2>2 DEF Carrying
<1>4. CASE ChecksOut
  <2>1. /\ UNCHANGED <<stash, marker, late, given, move, work, source, dest>> /\ pc = "checkout"
        /\ pc' \in {"applySource", "reattach"}
    BY <1>4 DEF ChecksOut
  <2>2. \A s, w : GoesBack(s, w)' => GoesBack(s, w)
    BY <2>1 DEF GoesBack, Reversible
  <2> QED BY <1>1, <1>2, <2>1, <2>2 DEF Carrying
<1>5. CASE Reattaches
  <2>1. /\ UNCHANGED <<stash, marker, late, given, move, work, source, dest>> /\ pc = "reattach"
        /\ pc' = "restore" /\ todo' = OfSource \o OfDest
    BY <1>5 DEF Reattaches, Restore
  <2>2. \A s, w : GoesBack(s, w)' => GoesBack(s, w)
    BY <2>1, RestoreGoes DEF Reversible
  <2> QED BY <1>1, <1>2, <2>1, <2>2 DEF Carrying
<1>6. CASE CarriesWork
  <2>1. /\ UNCHANGED <<stash, marker, late, given, move>> /\ pc \in {"applySource", "applyDest"}
        /\ pc' \in {"applyDest", "mark", "drop"}
    BY <1>6 DEF CarriesWork, Carries
  <2>2. \A w \in Trees : work[w] \subseteq work'[w]
    BY <1>6, MoveIs DEF CarriesWork, Carries, Applies, Conflicts, Refuses, BaseInv, HandTyped, GitTyped
  <2>3. \A s, w : ~GoesBack(s, w)'
    BY <2>1, NoneGoes DEF Reversible
  <2> QED BY <1>1, <1>2, <2>1, <2>2, <2>3 DEF Carrying
<1>7. CASE RolledBack
  <2>1. /\ UNCHANGED <<stash, marker, late, given, work>> /\ pc' = "failed"
    BY <1>7 DEF RolledBack, gitVars
  <2>2. \A s, w : ~GoesBack(s, w)'
    BY <2>1, NoneGoes DEF Reversible
  <2> QED BY <1>1, <1>2, <2>1, <2>2 DEF Carrying
<1>8. CASE Stops
  <2>1. /\ UNCHANGED <<stash, marker, late, given, work>> /\ pc' = "idle"
    BY <1>8 DEF Stops, Ends, gitVars
  <2>2. \A s, w : ~GoesBack(s, w)'
    BY <2>1, NoneGoes DEF Reversible
  <2> QED BY <1>1, <1>2, <2>1, <2>2 DEF Carrying
<1>9. CASE Marks
  <2>1. /\ UNCHANGED <<stash, late, given, work>> /\ pc = "mark" /\ pc' \in {"idle", "failed"}
        /\ \E kept \in SUBSET applied : marker' \in {marker, [marker EXCEPT ![move.to] = kept]}
    BY <1>9 DEF Marks, Ends, gitVars
  <2>2. \A s, w : ~GoesBack(s, w)'
    BY <2>1, NoneGoes DEF Reversible
  <2>3. \A w \in Trees : marker'[w] = marker[w] \/ (w = move.to /\ marker'[w] \subseteq applied)
    BY <2>1 DEF BaseInv, HandTyped, GitTyped
  <2>4. \A s \in applied : stash[s] \subseteq work'[move.to]
    BY <2>1 DEF BaseInv, AppliedFit
  <2>5. \A w \in Trees : Abortable(w)' => Abortable(w)
    <3> SUFFICES ASSUME NEW w \in Trees, Abortable(w)' PROVE Abortable(w)
      OBVIOUS
    <3>1. Marked(w)'
      BY <2>1 DEF Abortable, Carrying
    <3>2. CASE w = move.to
      BY <2>1, <3>2 DEF Abortable, Carrying
    <3>3. CASE marker'[w] = marker[w]
      BY <3>1, <3>3 DEF Abortable, Marked
    <3> QED BY <2>3, <3>2, <3>3
  <2> QED BY <2>1, <2>2, <2>3, <2>4, <2>5, HeldStill
<1> QED BY <1>3, <1>4, <1>5, <1>6, <1>7, <1>8, <1>9

\* So does a move that begins.
LEMMA BeginHolds ==
  ASSUME BaseInv, NEW x, Held(x), NEW b, NEW f, NEW t \in Trees, Begins(b, f, t)
  PROVE  Held(x)'
<1>1. /\ UNCHANGED <<work, stash, marker, given>> /\ pc = "idle" /\ pc' = "stashSource"
      /\ late' = IF Marked(t) THEN late ELSE [late EXCEPT ![t] = {}]
  BY DEF Begins, gitVars, Locked
<1>2. \A s, w : ~GoesBack(s, w)'
  BY <1>1, NoneGoes DEF Reversible
<1>3. \A w \in Trees : Marked(w) => late'[w] = late[w]
  BY <1>1 DEF BaseInv, HandTyped, GitTyped
<1>4. \A w \in Trees : (Marked(w)' <=> Marked(w)) /\ (Abortable(w)' => Abortable(w) /\ Marked(w))
  BY <1>1 DEF Abortable, Marked, Carrying
<1> QED BY <1>1, <1>2, <1>3, <1>4, HeldStill

\* So does a drop of what was applied.
LEMMA DropHolds ==
  ASSUME BaseInv, NEW x, Held(x), Drops
  PROVE  Held(x)'
<1>1. /\ UNCHANGED <<work, marker, given>> /\ pc = "drop" /\ pc' = "idle" /\ move.to \in Trees
  BY MoveIs DEF Drops, Ends, Locked
<1>2. PICK gone \in SUBSET applied :
        /\ stash' = Without(gone)
        /\ late' = IF Marked(move.to)
                     THEN [late EXCEPT ![move.to] = @ \cup UNION {stash[s] : s \in gone}]
                     ELSE late
  BY DEF Drops
<1>4. \A w \in Trees : (Abortable(w)' <=> Marked(w)') /\ (Marked(w)' => Marked(w))
  BY <1>1 DEF Abortable, Carrying, Marked
<1>5. \A w \in Trees : late[w] \subseteq late'[w]
  BY <1>1, <1>2 DEF BaseInv, HandTyped, GitTyped
<1>6. \A s \in gone : stash[s] \subseteq work[move.to] /\ (Marked(move.to) => stash[s] \subseteq late'[move.to])
  <2>1. \A s \in gone : stash[s] \subseteq work[move.to]
    BY <1>1, <1>2 DEF BaseInv, AppliedFit
  <2>2. Marked(move.to) => late'[move.to] = late[move.to] \cup UNION {stash[s] : s \in gone}
    BY <1>1, <1>2 DEF BaseInv, HandTyped, GitTyped
  <2> QED BY <2>1, <2>2
<1>7. \A w \in Trees : Marked(w) => Abortable(w)
  BY DEF Abortable
<1>8. pc \notin Reversible \cup {"restore"} /\ pc' \notin Reversible \cup {"restore"}
  BY <1>1 DEF Reversible
<1> QED BY <1>1, <1>2, <1>4, <1>5, <1>6, <1>7, <1>8, HeldDropped

\* The rollback takes its entries one by one, each for the worktree it names.
LEMMA RestoreIs ==
  ASSUME BaseInv, Restores
  PROVE  \E e \in Entry :
           /\ e = Head(todo) /\ todo' = Tail(todo) /\ pc = "restore" /\ pc' = "restore"
           /\ UNCHANGED <<branch, made, marker, move, source, dest, applied, before, late, given>>
           /\ GoesBack(e.id, e.tree)
           /\ \A s, w : GoesBack(s, w)' <=> GoesBack(s, w) /\ s # e.id
           /\ \/ /\ work' = [work EXCEPT ![e.tree] = @ \cup stash[e.id]]
                 /\ stash' = Without({e.id}) /\ clean' = clean
              \/ /\ work' \in {work, [work EXCEPT ![e.tree] = @ \cup stash[e.id]]}
                 /\ stash' = stash /\ clean' = FALSE
<1>1. /\ todo \in Seq(Entry) /\ todo # <<>> /\ todo' = Tail(todo) /\ pc = "restore" /\ pc' = "restore"
      /\ UNCHANGED <<branch, made, marker, move, source, dest, applied, before, late, given>>
  BY DEF Restores, BaseInv, HandTyped, MoveTyped, Entry
<1>2. PICK e \in Entry : e = Head(todo)
  BY <1>1, HeadTailProperties
<1>3. \/ /\ work' = [work EXCEPT ![e.tree] = @ \cup stash[e.id]]
         /\ stash' = Without({e.id}) /\ clean' = clean
      \/ /\ work' \in {work, [work EXCEPT ![e.tree] = @ \cup stash[e.id]]}
         /\ stash' = stash /\ clean' = FALSE
  BY <1>2 DEF Restores, Applies, Conflicts, Refuses
<1>4. /\ 1 \in DOMAIN todo /\ e = todo[1]
      /\ \A n \in DOMAIN todo' : n + 1 \in DOMAIN todo /\ todo'[n] = todo[n + 1] /\ n + 1 # 1
      /\ \A n \in DOMAIN todo : n = 1 \/ (n - 1 \in DOMAIN todo' /\ todo'[n - 1] = todo[n])
  BY <1>1, <1>2, HeadTailProperties
<1>5. \A m, n \in DOMAIN todo : todo[m].id = todo[n].id => m = n
  BY <1>1 DEF BaseInv, TodoFit
<1>6. \A s, w : GoesBack(s, w) <=> \E n \in DOMAIN todo : todo[n].id = s /\ todo[n].tree = w
  BY <1>1 DEF GoesBack, Reversible
<1>7. \A s, w : GoesBack(s, w)' <=> \E n \in DOMAIN todo' : todo'[n].id = s /\ todo'[n].tree = w
  BY <1>1 DEF GoesBack, Reversible
<1>8. GoesBack(e.id, e.tree)
  BY <1>4, <1>6
<1>9. \A s, w : GoesBack(s, w)' <=> GoesBack(s, w) /\ s # e.id
  <2> SUFFICES ASSUME NEW s, NEW w PROVE GoesBack(s, w)' <=> GoesBack(s, w) /\ s # e.id
    OBVIOUS
  <2>1. ASSUME GoesBack(s, w)' PROVE GoesBack(s, w) /\ s # e.id
    <3>1. PICK n \in DOMAIN todo' : todo'[n].id = s /\ todo'[n].tree = w
      BY <1>7, <2>1
    <3>2. n + 1 \in DOMAIN todo /\ todo[n + 1].id = s /\ todo[n + 1].tree = w /\ n + 1 # 1
      BY <1>4, <3>1
    <3> QED BY <1>4, <1>5, <1>6, <3>2
  <2>2. ASSUME GoesBack(s, w), s # e.id PROVE GoesBack(s, w)'
    <3>1. PICK n \in DOMAIN todo : todo[n].id = s /\ todo[n].tree = w
      BY <1>6, <2>2
    <3>2. n - 1 \in DOMAIN todo' /\ todo'[n - 1] = todo[n]
      BY <1>4, <2>2, <3>1
    <3> QED BY <1>7, <3>1, <3>2
  <2> QED BY <2>1, <2>2
<1> QED BY <1>1, <1>2, <1>3, <1>8, <1>9

\* What the rollback puts back is safe again where it was.
LEMMA RestoreHolds ==
  ASSUME BaseInv, NEW x, Held(x), Restores
  PROVE  Held(x)'
<1>1. PICK e \in Entry :
        /\ pc = "restore" /\ pc' = "restore" /\ UNCHANGED <<marker, late, given>>
        /\ GoesBack(e.id, e.tree)
        /\ \A s, w : GoesBack(s, w)' <=> GoesBack(s, w) /\ s # e.id
        /\ \/ /\ work' = [work EXCEPT ![e.tree] = @ \cup stash[e.id]]
              /\ stash' = Without({e.id})
           \/ /\ work' \in {work, [work EXCEPT ![e.tree] = @ \cup stash[e.id]]}
              /\ stash' = stash
  BY RestoreIs
<1>2. /\ work \in [Trees -> SUBSET Works] /\ e.tree \in Trees /\ e.id \in Ids
      /\ \A s \in Ids : stash'[s] \subseteq stash[s] /\ (s # e.id => stash'[s] = stash[s])
      /\ \A w : GoesBack(e.id, w) => w = e.tree
  BY <1>1, WithoutIs, GoesBackIs DEF BaseInv, HandTyped, GitTyped, Entry
<1>3. \A w \in Trees : /\ work[w] \subseteq work'[w]
                       /\ Marked(w)' => Marked(w)
                       /\ Abortable(w) <=> Marked(w)
                       /\ Abortable(w)' <=> Marked(w)'
  BY <1>1, <1>2 DEF Abortable, Carrying, Marked
<1>4. CASE stash' = stash
  <2>1. \A w \in Trees : Abortable(w)' => Abortable(w)
    BY <1>3, <1>1, <1>4 DEF Marked
  <2> QED BY <1>1, <1>3, <1>4, <2>1, HeldStill
<1>5. CASE work' = [work EXCEPT ![e.tree] = @ \cup stash[e.id]]
  <2>0. stash[e.id] \subseteq work'[e.tree]
    BY <1>2, <1>5
  <2>1. CASE x \in given
    BY <1>1, <2>1, HeldBy
  <2>2. ASSUME NEW w \in Trees, x \in work[w], Abortable(w) => x \in late[w] PROVE Held(x)'
    BY <1>1, <1>3, <2>2, HeldBy
  <2>3. ASSUME NEW w \in Trees, NEW s \in Ids, x \in stash[s], GoesBack(s, w), Marked(w) => x \in late[w]
        PROVE  Held(x)'
    <3>1. CASE s = e.id
      <4>1. w = e.tree /\ x \in work'[w]
        BY <1>2, <2>0, <2>3, <3>1
      <4> QED BY <1>1, <1>3, <2>3, <4>1, HeldBy
    <3>2. CASE s # e.id
      BY <1>1, <1>2, <1>3, <2>3, <3>2, HeldBy
    <3> QED BY <3>1, <3>2
  <2>4. ASSUME NEW s \in Ids, x \in stash[s], \A w \in Trees : ~GoesBack(s, w),
               \A w \in Trees : s \in marker[w] => x \in At(w)
        PROVE  Held(x)'
    <3>1. s # e.id
      BY <1>1, <1>2, <2>4
    <3>2. x \in stash'[s] /\ \A w \in Trees : ~GoesBack(s, w)'
      BY <1>1, <1>2, <2>4, <3>1
    <3>3. ASSUME NEW w \in Trees, s \in marker'[w] PROVE x \in At(w)'
      <4>1. x \in work[w] \/ \E r \in Ids : x \in stash[r] /\ GoesBack(r, w)
        BY <1>1, <2>4, <3>3, AtIs
      <4>2. CASE x \in work[w]
        BY <1>3, <4>2, AtIs
      <4>3. ASSUME NEW r \in Ids, x \in stash[r], GoesBack(r, w) PROVE x \in At(w)'
        <5>1. CASE r = e.id
          BY <1>2, <2>0, <4>3, <5>1, AtIs
        <5>2. CASE r # e.id
          BY <1>1, <1>2, <4>3, <5>2, AtIs
        <5> QED BY <5>1, <5>2
      <4> QED BY <4>1, <4>2, <4>3
    <3> QED BY <3>2, <3>3, HeldBy
  <2> QED BY <2>1, <2>2, <2>3, <2>4 DEF Held
<1> QED BY <1>1, <1>4, <1>5

\* An edit leaves what is safe safe, and so is what it adds.
LEMMA EditHolds ==
  ASSUME BaseInv, NEW x, NEW w \in Trees, NEW y \in Works, Edits(w, y), Held(x) \/ x = y
  PROVE  Held(x)'
<1>1. /\ UNCHANGED <<stash, marker, given, pc, move, source, dest, todo>>
      /\ work' = [work EXCEPT ![w] = @ \cup {y}] /\ Arrives(w, {y})
  BY DEF Edits, jobVars
<1>2. \A u \in Trees : work[u] \subseteq work'[u]
  BY <1>1 DEF BaseInv, HandTyped, GitTyped
<1>3. /\ \A u \in Trees : late[u] \subseteq late'[u]
      /\ Abortable(w) => y \in late'[w]
  BY <1>1, ArrivesIs
<1>4. \A u \in Trees : (Marked(u)' <=> Marked(u)) /\ (Abortable(u)' <=> Abortable(u))
  BY <1>1 DEF Marked, Abortable
<1>5. CASE x = y
  <2>1. x \in work'[w]
    BY <1>1, <1>5 DEF BaseInv, HandTyped, GitTyped
  <2> QED BY <1>3, <1>4, <1>5, <2>1, HeldBy
<1>6. CASE Held(x)
  <2>1. \A s, u : GoesBack(s, u)' <=> GoesBack(s, u)
    BY <1>1 DEF GoesBack
  <2> QED BY <1>1, <1>2, <1>3, <1>4, <1>6, <2>1, HeldStill
<1> QED BY <1>5, <1>6

\* A marker is cleared: nothing is taken, and an Abort would take less.
LEMMA HealHolds ==
  ASSUME BaseInv, NEW x, Held(x), NEW w \in Trees, Heals(w)
  PROVE  Held(x)'
<1>1. /\ UNCHANGED <<stash, work, given, pc, move, source, dest, todo>>
      /\ marker' = [marker EXCEPT ![w] = {}]
      /\ late' = IF Locked /\ w = move.to THEN late ELSE [late EXCEPT ![w] = {}]
  BY DEF Heals, jobVars, gitVars
<1>2. /\ marker'[w] = {}
      /\ \A u \in Trees : marker'[u] \subseteq marker[u] /\ (u # w => late'[u] = late[u])
  BY <1>1 DEF BaseInv, HandTyped, GitTyped
<1>3. \A u \in Trees : Marked(u)' => Marked(u) /\ u # w
  BY <1>2 DEF Marked
<1>4. \A u \in Trees : Abortable(u)' => Abortable(u) /\ late'[u] = late[u]
  <2> SUFFICES ASSUME NEW u \in Trees, Abortable(u)' PROVE Abortable(u) /\ late'[u] = late[u]
    OBVIOUS
  <2>1. Abortable(u)
    BY <1>1, <1>3 DEF Abortable
  <2>2. CASE u = w
    <3>1. pc \in Carrying /\ w = move.to
      BY <1>1, <1>3, <2>2 DEF Abortable
    <3>2. Locked
      BY <3>1 DEF Locked, Carrying
    <3> QED BY <1>1, <2>1, <2>2, <3>1, <3>2
  <2> QED BY <1>2, <2>1, <2>2
<1>5. \A s, u : GoesBack(s, u)' <=> GoesBack(s, u)
  BY <1>1 DEF GoesBack
<1> QED BY <1>1, <1>2, <1>3, <1>4, <1>5, HeldStill

\* A Finish drops what is in the worktree, and notes what it may still lose.
LEMMA ContinueHolds ==
  ASSUME BaseInv, NEW x, Held(x), NEW w \in Trees, Continues(w)
  PROVE  Held(x)'
<1>1. UNCHANGED <<work, given, pc, move>> /\ pc = "idle"
  BY DEF Continues, jobVars, Locked
<1>2. PICK gone \in SUBSET marker[w] :
        /\ stash' = Without(gone)
        /\ \/ marker' = [marker EXCEPT ![w] = {}] /\ late' = [late EXCEPT ![w] = {}]
           \/ /\ late' = [late EXCEPT ![w] = @ \cup UNION {stash[s] : s \in gone}]
              /\ marker' = marker
  BY DEF Continues, Unmarks
<1>3. /\ pc \notin Reversible \cup {"restore"} /\ pc' \notin Reversible \cup {"restore"}
      /\ pc \notin Carrying /\ pc' \notin Carrying
  BY <1>1 DEF Reversible, Carrying
<1>4. \A u \in Trees : marker'[u] \subseteq marker[u] /\ (u # w => late'[u] = late[u])
  BY <1>2 DEF BaseInv, HandTyped, GitTyped
<1>5. \A u \in Trees : (Abortable(u)' <=> Marked(u)') /\ (Marked(u)' => Marked(u))
  BY <1>3, <1>4, MarkedIs DEF Abortable
<1>6. \/ ~Marked(w)'
      \/ late[w] \subseteq late'[w] /\ \A s \in gone : stash[s] \subseteq late'[w]
  <2>1. CASE marker' = [marker EXCEPT ![w] = {}]
    BY <2>1 DEF Marked, BaseInv, HandTyped, GitTyped
  <2>2. CASE late' = [late EXCEPT ![w] = @ \cup UNION {stash[s] : s \in gone}]
    <3>1. late'[w] = late[w] \cup UNION {stash[s] : s \in gone}
      BY <2>2 DEF BaseInv, HandTyped, GitTyped
    <3> QED BY <3>1
  <2> QED BY <1>2, <2>1, <2>2
<1>7. \A u \in Trees : x \in work[u] /\ (Abortable(u) => x \in late[u]) => (Abortable(u)' => x \in late'[u])
  BY <1>4, <1>5, <1>6 DEF Abortable
<1>8. \A s \in Ids : s \in gone /\ x \in stash[s] /\ (\A u \in Trees : s \in marker[u] => x \in work[u]) =>
        x \in work'[w] /\ (Abortable(w)' => x \in late'[w])
  BY <1>1, <1>2, <1>5, <1>6
<1> QED BY <1>1, <1>2, <1>3, <1>4, <1>7, <1>8, HeldDropped

\* An Abort takes what the carry brought, of which the stash is left, and what is
\* noted as lost; all it takes is noted if the marker stays.
LEMMA AbortHolds ==
  ASSUME BaseInv, NEW x, Held(x), NEW w \in Trees, Aborts(w)
  PROVE  Held(x)'
<1>1. UNCHANGED <<stash, pc, move>> /\ pc = "idle" /\ Marked(w)
  BY DEF Aborts, jobVars, Locked
<1>2. PICK gone \in SUBSET work[w] :
        /\ work' = [work EXCEPT ![w] = @ \ gone]
        /\ \/ /\ marker' = [marker EXCEPT ![w] = {}] /\ late' = [late EXCEPT ![w] = {}]
              /\ given' = given \cup (late[w] \cap gone)
           \/ given' = given \cup gone /\ UNCHANGED <<marker, late>>
  BY DEF Aborts, Unmarks
<1>3. \A s, u : ~GoesBack(s, u) /\ ~GoesBack(s, u)'
  BY <1>1, NoneGoes DEF Reversible
<1>4. /\ work'[w] = work[w] \ gone
      /\ \A u \in Trees : u # w => marker'[u] = marker[u] /\ late'[u] = late[u] /\ work'[u] = work[u]
      /\ marker'[w] = {} \/ (UNCHANGED <<marker, late>> /\ gone \subseteq given')
  BY <1>2 DEF BaseInv, HandTyped, GitTyped
<1>5. \A u \in Trees : (Abortable(u) <=> Marked(u)) /\ (Abortable(u)' <=> Marked(u)')
  BY <1>1 DEF Abortable, Carrying
<1>6. CASE x \in given
  BY <1>2, <1>6, HeldBy
<1>7. ASSUME NEW u \in Trees, x \in work[u], Abortable(u) => x \in late[u] PROVE Held(x)'
  <2>1. CASE u = w
    <3>1. x \in late[w]
      BY <1>1, <1>5, <1>7, <2>1
    <3>2. CASE x \in gone
      BY <1>2, <3>1, <3>2, HeldBy
    <3>3. CASE x \notin gone
      <4>1. x \in work'[w] /\ (Abortable(w)' => x \in late'[w])
        BY <1>4, <1>5, <1>7, <2>1, <3>1, <3>3 DEF Marked
      <4> QED BY <4>1, HeldBy
    <3> QED BY <3>2, <3>3
  <2>2. CASE u # w
    <3>1. x \in work'[u] /\ (Abortable(u)' => x \in late'[u])
      BY <1>4, <1>5, <1>7, <2>2 DEF Marked
    <3> QED BY <3>1, HeldBy
  <2> QED BY <2>1, <2>2
<1>8. ASSUME NEW s \in Ids, x \in stash[s], \A u \in Trees : s \in marker[u] => x \in At(u) PROVE Held(x)'
  <2>1. \A u \in Trees : s \in marker[u] => x \in work[u]
    BY <1>3, <1>8, AtIs
  <2>2. CASE x \in given'
    BY <2>2, HeldBy
  <2>3. CASE x \notin given'
    <3>1. \A u \in Trees : s \in marker'[u] => x \in work'[u]
      BY <1>4, <2>1, <2>3
    <3>2. \A u \in Trees : s \in marker'[u] => x \in At(u)'
      BY <3>1, AtIs
    <3> QED BY <1>1, <1>3, <1>8, <3>2, HeldBy
  <2> QED BY <2>2, <2>3
<1> QED BY <1>3, <1>6, <1>7, <1>8 DEF Held

\* The stash commands of the user.
LEMMA StashHolds ==
  ASSUME BaseInv, NEW x, Held(x),
         \/ \E w \in Trees : StashesAll(w) \/ \E s \in Ids : Pops(w, s)
         \/ \E s \in Ids : DropsStash(s)
  PROVE  Held(x)'
<1>1. UNCHANGED <<pc, move, marker>> /\ pc = "idle"
  BY DEF StashesAll, Pops, DropsStash, jobVars, Locked
<1>2. /\ pc \notin Reversible \cup {"restore"} /\ pc' \notin Reversible \cup {"restore"}
      /\ pc \notin Carrying /\ pc' \notin Carrying
  BY <1>1 DEF Reversible, Carrying
<1>3. \A s, u : ~GoesBack(s, u) /\ ~GoesBack(s, u)'
  BY <1>2, NoneGoes
<1>4. \A u \in Trees : /\ Abortable(u)' <=> Marked(u)'
                       /\ Abortable(u) <=> Marked(u)
  BY <1>2 DEF Abortable
<1>5. \A u \in Trees : Marked(u)' => Marked(u)
  BY <1>1 DEF Marked
<1>6. ASSUME NEW w \in Trees, StashesAll(w) PROVE Held(x)'
  <2>1. UNCHANGED <<late, given>>
    BY <1>6 DEF StashesAll
  <2>2. CASE UNCHANGED <<stash, made, work>>
    BY <1>1, <1>3, <1>4, <1>5, <2>1, <2>2, HeldStill
  <2>3. CASE Stores(w) /\ \E rest : work' = [work EXCEPT ![w] = rest]
    <3>1. \A u \in Trees \ {w} : work'[u] = work[u]
      BY <2>3 DEF BaseInv, HandTyped, GitTyped
    <3>2. PICK n : n = made + 1
      OBVIOUS
    <3> QED BY <1>1, <1>2, <1>3, <2>1, <2>3, <3>1, <3>2, HeldPushed
  <2> QED BY <1>6, <2>2, <2>3 DEF StashesAll, Pushes, PushFails
<1>7. ASSUME NEW w \in Trees, NEW s \in Ids, Pops(w, s) PROVE Held(x)'
  <2>1. /\ work' = [work EXCEPT ![w] = @ \cup stash[s]] /\ stash' \in {Without({s}), stash}
        /\ Arrives(w, stash[s]) /\ given' = given
    BY <1>7 DEF Pops, Applies, Conflicts
  <2>2. \A u \in Trees : work[u] \subseteq work'[u]
    BY <2>1 DEF BaseInv, HandTyped, GitTyped
  <2>3. stash[s] \subseteq work'[w]
    BY <2>1 DEF BaseInv, HandTyped, GitTyped
  <2>4. /\ \A u \in Trees : late[u] \subseteq late'[u]
        /\ Abortable(w) => stash[s] \subseteq late'[w]
    BY <2>1, ArrivesIs
  <2>5. CASE stash' = stash
    BY <1>1, <1>3, <1>4, <1>5, <2>1, <2>2, <2>4, <2>5, HeldStill
  <2>6. CASE stash' = Without({s})
    BY <1>1, <1>2, <1>4, <1>5, <2>1, <2>2, <2>3, <2>4, <2>6, HeldDropped
  <2> QED BY <2>1, <2>5, <2>6
<1>8. ASSUME NEW s \in Ids, DropsStash(s) PROVE Held(x)'
  <2>1. /\ stash' = Without({s}) /\ given' = given \cup stash[s] /\ UNCHANGED <<work, late>>
    BY <1>8 DEF DropsStash
  <2> QED BY <1>1, <1>2, <1>4, <1>5, <2>1, HeldDropped
<1> QED BY <1>6, <1>7, <1>8

\* Every step leaves what is safe safe.
LEMMA HeldKeeps ==
  ASSUME BaseInv, [Next]_handVars, NEW x, Held(x)
  PROVE  Held(x)'
<1>1. ASSUME UNCHANGED <<work, stash, marker, late, given, pc, move, source, dest, todo>> PROVE Held(x)'
  BY <1>1 DEF Held, At, GoesBack, Abortable, Marked
<1>2. ASSUME \/ \E w \in Trees, b \in Branches : Switches(w, b)
             \/ \E w \in Trees : Resolves(w)
             \/ UNCHANGED handVars
      PROVE  UNCHANGED <<work, stash, marker, late, given, pc, move, source, dest, todo>>
  BY <1>2 DEF Switches, Resolves, handVars, gitVars, jobVars
<1>3. Detaches \/ ChecksOut \/ Reattaches \/ CarriesWork \/ Marks \/ RolledBack \/ Stops => Locked
  BY DEF Detaches, ChecksOut, Reattaches, CarriesWork, Marks, RolledBack, Stops, Locked
<1>4. HandNext => Held(x)'
  BY <1>3, BeginHolds, SourceHolds, DestHolds, MoveHolds, RestoreHolds, DropHolds DEF HandNext
<1>5. UserNext => Held(x)'
  BY <1>1, <1>2, EditHolds, HealHolds, ContinueHolds, AbortHolds, StashHolds DEF UserNext
<1> QED BY <1>1, <1>2, <1>4, <1>5 DEF Next

\* Where a written change is.
LEMMA WrittenAt ==
  ASSUME NEW x
  PROVE  /\ x \in Written <=> (\E w \in Trees : x \in work[w]) \/ (\E s \in Ids : x \in stash[s])
         /\ x \in Written' <=> (\E w \in Trees : x \in work'[w]) \/ (\E s \in Ids : x \in stash'[s])
<1>1. x \in Written <=> (\E w \in Trees : x \in work[w]) \/ (\E s \in Ids : x \in stash[s])
  BY DEF Written
<1>2. x \in Written' <=> (\E w \in Trees : x \in work'[w]) \/ (\E s \in Ids : x \in stash'[s])
  BY DEF Written
<1> QED BY <1>1, <1>2

\* Nothing new is written but by an edit.
LEMMA WrittenIs ==
  ASSUME BaseInv, [Next]_handVars, NEW x \in Written'
  PROVE  x \in Written \/ \E w \in Trees : x \in Works /\ Edits(w, x)
<1> DEFINE Old == \A y : \/ \E w \in Trees : y \in work'[w]
                         \/ \E s \in Ids : y \in stash'[s]
                         => y \in Written
<1>0. /\ \A w \in Trees : work[w] \subseteq Written
      /\ \A s \in Ids : stash[s] \subseteq Written
      /\ \A y \in Written' : (\E w \in Trees : y \in work'[w]) \/ (\E s \in Ids : y \in stash'[s])
  BY WrittenAt
<1>1. /\ work \in [Trees -> SUBSET Works] /\ stash \in [Ids -> SUBSET Works]
      /\ Locked => move.from \in Trees /\ move.to \in Trees
  BY MoveIs DEF BaseInv, HandTyped, GitTyped
<1>2. ASSUME \A s \in Ids : stash'[s] \subseteq stash[s],
             \A w \in Trees : \/ work'[w] \subseteq work[w]
                              \/ \E s \in Ids : work'[w] \subseteq work[w] \cup stash[s]
      PROVE  Old
  BY <1>0, <1>2
<1>3. ASSUME NEW w \in Trees, Pushes(w) \/ PushFails(w) PROVE Old
  <2>1. \/ UNCHANGED <<stash, work>>
        \/ Stores(w) /\ \E rest \in SUBSET work[w] : work' = [work EXCEPT ![w] = rest]
    BY <1>3 DEF Pushes, PushFails
  <2>2. CASE UNCHANGED <<stash, work>>
    BY <1>2, <2>2
  <2>3. CASE Stores(w) /\ \E rest \in SUBSET work[w] : work' = [work EXCEPT ![w] = rest]
    <3>1. \A u \in Trees : work'[u] \subseteq work[u]
      BY <1>1, <2>3
    <3>2. \A s \in Ids : stash'[s] = stash[s] \/ stash'[s] = work[w]
      BY <2>3, StoresIs
    <3> QED BY <1>0, <3>1, <3>2
  <2> QED BY <2>1, <2>2, <2>3
<1>4. ASSUME UNCHANGED <<stash, work>> PROVE Old
  BY <1>2, <1>4
<1>5. ASSUME \E b \in Branches, f, t \in Trees : Begins(b, f, t) PROVE Old
  BY <1>4, <1>5 DEF Begins, gitVars
<1>6. ASSUME \/ Detaches \/ ChecksOut \/ Reattaches \/ Marks \/ RolledBack \/ Stops
             \/ \E w \in Trees : Heals(w) \/ Resolves(w) \/ \E b \in Branches : Switches(w, b)
             \/ UNCHANGED handVars
      PROVE  Old
  BY <1>4, <1>6 DEF Detaches, ChecksOut, Reattaches, Marks, RolledBack, Stops, Heals, Resolves,
                    Switches, gitVars, handVars
<1>7. ASSUME StashesSource PROVE Old
  <2>1. UNCHANGED <<stash, work>> \/ Pushes(move.from) \/ PushFails(move.from)
    BY <1>7 DEF StashesSource
  <2> QED BY <1>1, <1>3, <1>4, <1>7, <2>1 DEF StashesSource, Locked
<1>8. ASSUME StashesDest PROVE Old
  <2>1. UNCHANGED <<stash, work>> \/ Pushes(move.to) \/ PushFails(move.to)
    BY <1>8 DEF StashesDest
  <2> QED BY <1>1, <1>3, <1>4, <1>8, <2>1 DEF StashesDest, Locked
<1>9. ASSUME NEW w \in Trees, StashesAll(w) PROVE Old
  BY <1>3, <1>9 DEF StashesAll
<1>10. ASSUME Restores PROVE Old
  <2>1. PICK e \in Entry :
          /\ work' \in {work, [work EXCEPT ![e.tree] = @ \cup stash[e.id]]}
          /\ stash' \in {stash, Without({e.id})}
    BY <1>10, RestoreIs
  <2>2. e.tree \in Trees /\ e.id \in Ids
    BY DEF Entry
  <2>3. \A w \in Trees : work'[w] \subseteq work[w] \/ work'[w] \subseteq work[w] \cup stash[e.id]
    BY <1>1, <2>1, <2>2
  <2>4. \A s \in Ids : stash'[s] \subseteq stash[s]
    BY <2>1, WithoutIs
  <2> QED BY <1>2, <2>2, <2>3, <2>4
<1>11. ASSUME CarriesWork PROVE Old
  <2>1. stash' = stash /\ Locked
    BY <1>11 DEF CarriesWork, Locked
  <2>2. PICK id \in {source, dest} :
          \/ work' = work
          \/ id # 0 /\ work' = [work EXCEPT ![move.to] = @ \cup stash[id]]
    BY <1>11 DEF CarriesWork, Carries, Applies, Conflicts, Refuses
  <2>3. id # 0 => id \in Ids
    BY MoveIs DEF BaseInv, HandTyped, MoveTyped, Ids
  <2>4. CASE work' = work
    BY <1>4, <2>1, <2>4
  <2>5. CASE id # 0 /\ work' = [work EXCEPT ![move.to] = @ \cup stash[id]]
    <3>1. \A w \in Trees : work'[w] \subseteq work[w] \cup stash[id]
      BY <1>1, <2>1, <2>5
    <3> QED BY <1>2, <2>1, <2>3, <2>5, <3>1
  <2> QED BY <2>2, <2>4, <2>5
<1>12. ASSUME Drops \/ (\E w \in Trees : Continues(w)) \/ (\E s \in Ids : DropsStash(s)) PROVE Old
  <2>1. work' = work /\ \E gone : stash' = Without(gone)
    BY <1>12 DEF Drops, Continues, DropsStash
  <2>2. \A s \in Ids : stash'[s] \subseteq stash[s]
    BY <2>1, WithoutIs
  <2> QED BY <1>2, <2>1, <2>2
<1>13. ASSUME NEW w \in Trees, Aborts(w) PROVE Old
  <2>1. stash' = stash /\ \E gone : work' = [work EXCEPT ![w] = @ \ gone]
    BY <1>13 DEF Aborts
  <2>2. \A u \in Trees : work'[u] \subseteq work[u]
    BY <1>1, <2>1
  <2> QED BY <1>2, <2>1, <2>2
<1>14. ASSUME NEW w \in Trees, NEW s \in Ids, Pops(w, s) PROVE Old
  <2>1. stash' \in {stash, Without({s})} /\ work' = [work EXCEPT ![w] = @ \cup stash[s]]
    BY <1>14 DEF Pops, Applies, Conflicts
  <2>2. \A u \in Trees : work'[u] \subseteq work[u] \cup stash[s]
    BY <1>1, <2>1
  <2>3. \A r \in Ids : stash'[r] \subseteq stash[r]
    BY <2>1, WithoutIs
  <2> QED BY <1>2, <2>2, <2>3
<1>15. ASSUME NEW w \in Trees, NEW y \in Works, Edits(w, y)
       PROVE  x \in Written \/ \E u \in Trees : x \in Works /\ Edits(u, x)
  <2>1. stash' = stash /\ work' = [work EXCEPT ![w] = @ \cup {y}]
    BY <1>15 DEF Edits
  <2>2. \A u \in Trees : work'[u] \subseteq work[u] \cup {y}
    BY <1>1, <2>1
  <2>3. x \in Written \/ x = y
    BY <1>0, <2>1, <2>2
  <2> QED BY <1>15, <2>3
<1>16. Old => x \in Written
  BY <1>0
<1> HIDE DEF Old
<1>17. HandNext => Old
  BY <1>5, <1>6, <1>7, <1>8, <1>10, <1>11, <1>12 DEF HandNext
<1>18. UserNext => x \in Written \/ \E u \in Trees : x \in Works /\ Edits(u, x)
  BY <1>6, <1>9, <1>12, <1>13, <1>14, <1>15, <1>16 DEF UserNext
<1> QED BY <1>6, <1>16, <1>17, <1>18 DEF Next

\* Every change keeps a safe copy.
LEMMA HeldFitKeeps ==
  ASSUME BaseInv, HeldFit, [Next]_handVars
  PROVE  HeldFit'
<1> SUFFICES ASSUME NEW x \in Written' PROVE Held(x)'
  BY DEF HeldFit
<1>1. CASE x \in Written
  <2>1. Held(x)
    BY <1>1 DEF HeldFit
  <2> QED BY <2>1, HeldKeeps
<1>2. CASE \E w \in Trees : x \in Works /\ Edits(w, x)
  BY <1>2, EditHolds
<1> QED BY <1>1, <1>2, WrittenIs

\* So none disappears that was not given up.
LEMMA HeldIsWritten ==
  ASSUME BaseInv, HeldFit, [Next]_handVars
  PROVE  Written \subseteq Written' \cup given'
<1> SUFFICES ASSUME NEW x \in Written PROVE x \in Written' \cup given'
  OBVIOUS
<1>1. Held(x)
  BY DEF HeldFit
<1>2. Held(x)'
  BY <1>1, HeldKeeps
<1>3. \/ x \in given'
      \/ \E w \in Trees : x \in work'[w]
      \/ \E s \in Ids : x \in stash'[s]
  BY <1>2 DEF Held
<1> QED BY <1>3, WrittenAt

-----------------------------------------------------------------------------
(* A failure that is rolled back leaves what there was.                      *)

\* The steps of a move that may yet fail, and of one that has.
Undoable == {"stashSource", "restore", "failed"} \cup Reversible

\* The record is kept by a step after which each worktree has what it had.
LEMMA WorkStill ==
  ASSUME WorkFit, pc \in Undoable, clean, UNCHANGED before,
         \A w \in Trees : At(w)' = At(w),
         \A s \in Ids : \/ /\ \A w \in Trees : ~GoesBack(s, w)
                           /\ \A w \in Trees : ~GoesBack(s, w)'
                           /\ stash'[s] = stash[s]
                        \/ (\E w \in Trees : GoesBack(s, w)) /\ (\E w \in Trees : GoesBack(s, w)')
                        \/ /\ stash[s] = {} \/ \E w \in Trees : GoesBack(s, w)
                           /\ (stash'[s] = {} \/ \E w \in Trees : GoesBack(s, w)')
  PROVE  WorkFit'
<1>1. /\ \A w \in Trees : before.work[w] = At(w)
      /\ \A s \in Ids :
           before.stash[s] = IF \E w \in Trees : GoesBack(s, w) THEN {} ELSE stash[s]
  BY DEF WorkFit, Undoable
<1>2. \A w \in Trees : before'.work[w] = At(w)'
  BY <1>1
<1>3. ASSUME NEW s \in Ids
      PROVE  before'.stash[s] = IF \E w \in Trees : GoesBack(s, w)' THEN {} ELSE stash'[s]
  BY <1>1
<1> QED BY <1>2, <1>3 DEF WorkFit

\* It is by one that touches neither worktrees nor stack.
LEMMA WorkSame ==
  ASSUME WorkFit, pc \in Undoable, clean, UNCHANGED <<before, work, stash>>,
         \A s \in Ids, w \in Trees : GoesBack(s, w)' <=> GoesBack(s, w)
  PROVE  WorkFit'
<1>1. ASSUME NEW w \in Trees PROVE At(w)' = At(w)
  BY AtIs
<1>2. ASSUME NEW s \in Ids
      PROVE  (\E w \in Trees : GoesBack(s, w)') <=> (\E w \in Trees : GoesBack(s, w))
  OBVIOUS
<1> QED BY <1>1, <1>2, WorkStill

\* It is by one that puts the changes of a worktree aside.
LEMMA WorkPushed ==
  ASSUME BaseInv, WorkFit, pc \in Undoable, clean, UNCHANGED before,
         NEW n, n = made + 1, NEW w \in Trees, Stores(w), work' = [work EXCEPT ![w] = {}],
         \A s \in Ids : ~GoesBack(s, w), GoesBack(n, w)',
         \A s \in Ids, u \in Trees : s # n => (GoesBack(s, u)' <=> GoesBack(s, u)),
         \A u \in Trees : GoesBack(n, u)' => u = w
  PROVE  WorkFit'
<1>1. /\ n \in Ids /\ stash'[n] = work[w] /\ \A s \in Ids : s # n => stash'[s] = stash[s]
  BY StoresIs
<1>2. made \in Nat /\ \A s \in Ids : s \in Nat
  BY MoveIs
<1>3. stash[n] = {} /\ \A u \in Trees : ~GoesBack(n, u)
  <2>1. stash[n] = {}
    BY <1>1, <1>2 DEF BaseInv, StashesFit
  <2>2. ASSUME NEW u \in Trees, GoesBack(n, u) PROVE FALSE
    <3>1. n <= made
      BY <2>2, GoesBackIs
    <3> QED BY <1>2, <3>1
  <2> QED BY <2>1, <2>2
<1>4. work'[w] = {} /\ \A u \in Trees : u # w => work'[u] = work[u]
  BY DEF BaseInv, HandTyped, GitTyped
<1>5. ASSUME NEW u \in Trees PROVE At(u)' = At(u)
  <2>1. ASSUME NEW x PROVE x \in At(u)' <=> x \in At(u)
    <3>1. CASE u = w
      <4>1. x \in At(u)' <=> x \in stash'[n]
        BY <1>1, <1>4, <3>1, AtIs
      <4>2. x \in At(u) <=> x \in work[w]
        BY <3>1, AtIs
      <4> QED BY <1>1, <4>1, <4>2
    <3>2. CASE u # w
      <4>1. \A s \in Ids : (x \in stash'[s] /\ GoesBack(s, u)') <=> (x \in stash[s] /\ GoesBack(s, u))
        BY <1>1, <1>3, <3>2
      <4> QED BY <1>4, <3>2, <4>1, AtIs
    <3> QED BY <3>1, <3>2
  <2> QED BY <2>1
<1>6. ASSUME NEW s \in Ids
      PROVE  \/ /\ \A u \in Trees : ~GoesBack(s, u)
                /\ \A u \in Trees : ~GoesBack(s, u)'
                /\ stash'[s] = stash[s]
             \/ (\E u \in Trees : GoesBack(s, u)) /\ (\E u \in Trees : GoesBack(s, u)')
             \/ /\ stash[s] = {} \/ \E u \in Trees : GoesBack(s, u)
                /\ (stash'[s] = {} \/ \E u \in Trees : GoesBack(s, u)')
  <2>1. CASE s = n
    BY <1>3, <2>1
  <2>2. CASE s # n
    BY <1>1, <2>2
  <2> QED BY <2>1, <2>2
<1> QED BY <1>5, <1>6, WorkStill

\* It is by one that puts a stash back where it belongs.
LEMMA WorkRestored ==
  ASSUME BaseInv, WorkFit, clean, NEW e \in Entry, pc = "restore", UNCHANGED before,
         GoesBack(e.id, e.tree), \A s, w : GoesBack(s, w)' <=> GoesBack(s, w) /\ s # e.id,
         work' = [work EXCEPT ![e.tree] = @ \cup stash[e.id]], stash' = Without({e.id})
  PROVE  WorkFit'
<1>1. /\ e.tree \in Trees /\ e.id \in Ids
      /\ \A w : GoesBack(e.id, w) => w = e.tree
      /\ stash'[e.id] = {} /\ \A s \in Ids : s # e.id => stash'[s] = stash[s]
  BY WithoutIs, GoesBackIs DEF Entry
<1>2. /\ work'[e.tree] = work[e.tree] \cup stash[e.id]
      /\ \A u \in Trees : u # e.tree => work'[u] = work[u]
  BY <1>1 DEF BaseInv, HandTyped, GitTyped
<1>3. ASSUME NEW u \in Trees PROVE At(u)' = At(u)
  <2>1. ASSUME NEW x PROVE x \in At(u)' <=> x \in At(u)
    <3>1. x \in At(u) <=> \/ x \in work[u] \/ (u = e.tree /\ x \in stash[e.id])
                          \/ \E s \in Ids : x \in stash[s] /\ GoesBack(s, u) /\ s # e.id
      BY <1>1, AtIs
    <3>2. x \in At(u)' <=> \/ x \in work'[u]
                           \/ \E s \in Ids : x \in stash[s] /\ GoesBack(s, u) /\ s # e.id
      BY <1>1, AtIs
    <3>3. x \in work'[u] <=> x \in work[u] \/ (u = e.tree /\ x \in stash[e.id])
      BY <1>2
    <3> QED BY <3>1, <3>2, <3>3
  <2> QED BY <2>1
<1>4. ASSUME NEW s \in Ids
      PROVE  \/ /\ \A u \in Trees : ~GoesBack(s, u)
                /\ \A u \in Trees : ~GoesBack(s, u)'
                /\ stash'[s] = stash[s]
             \/ (\E u \in Trees : GoesBack(s, u)) /\ (\E u \in Trees : GoesBack(s, u)')
             \/ /\ stash[s] = {} \/ \E u \in Trees : GoesBack(s, u)
                /\ (stash'[s] = {} \/ \E u \in Trees : GoesBack(s, u)')
  <2>1. CASE s = e.id
    BY <1>1, <2>1
  <2>2. CASE s # e.id
    BY <1>1, <2>2
  <2> QED BY <2>1, <2>2
<1>5. pc \in Undoable
  BY DEF Undoable
<1> QED BY <1>3, <1>4, <1>5, WorkStill

\* What was there is kept, or put aside, by every step of a move that may fail.
LEMMA WorkFitKeeps ==
  ASSUME BaseInv, WorkFit, BranchFit, [Next]_handVars
  PROVE  WorkFit'
<1>1. ASSUME pc' \notin Undoable \/ ~clean' PROVE WorkFit'
  BY <1>1 DEF WorkFit, Undoable
<1>2. ASSUME UNCHANGED <<before, work, stash, clean, pc, todo, move, source, dest>> PROVE WorkFit'
  BY <1>2 DEF WorkFit, At, GoesBack
<1>3. ASSUME NEW b, NEW f, NEW t, Begins(b, f, t) PROVE WorkFit'
  <2>1. /\ UNCHANGED <<work, stash>> /\ pc = "idle" /\ pc' = "stashSource"
        /\ before' = [branch |-> branch, work |-> work, stash |-> stash]
    BY <1>3 DEF Begins, gitVars, Locked
  <2>2. \A s, w : ~GoesBack(s, w)'
    BY <2>1, NoneGoes DEF Reversible
  <2>3. ASSUME NEW w \in Trees PROVE At(w)' = work'[w]
    <3>1. \A x : x \in At(w)' <=> x \in work'[w]
      BY <2>2, AtIs
    <3> QED BY <3>1
  <2> QED BY <2>1, <2>2, <2>3 DEF WorkFit
<1>4. CASE StashesSource
  <2>1. /\ pc = "stashSource" /\ pc \in Undoable /\ clean /\ source = 0 /\ dest = 0
        /\ UNCHANGED <<before, move, dest>> /\ move.from \in Trees /\ made \in Nat
    BY <1>4, MoveIs DEF StashesSource, Undoable, BranchFit, BaseInv, MoveFit, Locked
  <2>2. \A s, u : ~GoesBack(s, u)
    BY <2>1, NoneGoes DEF Reversible
  <2>3. CASE UNCHANGED <<work, stash, source>> /\ pc' \in {"stashDest", "failed"}
    <3>1. \A s, u : ~GoesBack(s, u)'
      BY <2>1, <2>3 DEF GoesBack
    <3> QED BY <2>1, <2>2, <2>3, <3>1, WorkSame
  <2>4. CASE Pushes(move.from) /\ source' = made' /\ pc' = "stashDest"
    <3>1. PICK n : n = made + 1
      OBVIOUS
    <3>2. n # 0 /\ source' = n
      BY <2>1, <2>4, <3>1 DEF Pushes, Stores
    <3>3. /\ GoesBack(n, move.from)' /\ \A s, u : GoesBack(s, u)' => s = n /\ u = move.from
      BY <2>1, <2>4, <3>2 DEF GoesBack, Reversible
    <3>4. PICK w \in Trees : w = move.from
      BY <2>1
    <3>5. Stores(w) /\ work' = [work EXCEPT ![w] = {}]
      BY <2>4, <3>4 DEF Pushes
    <3>6. \A s \in Ids, u \in Trees : s # n => (GoesBack(s, u)' <=> GoesBack(s, u))
      BY <2>2, <3>3
    <3>7. GoesBack(n, w)' /\ \A u \in Trees : GoesBack(n, u)' => u = w
      BY <2>1, <3>3, <3>4
    <3> QED BY <2>1, <2>2, <3>1, <3>5, <3>6, <3>7, WorkPushed
  <2>5. CASE PushFails(move.from) /\ clean' = (made' = made) /\ pc' = "failed" /\ source' = source
    <3>1. Stores(move.from) => made' # made
      BY <2>1 DEF Stores
    <3>2. CASE Stores(move.from)
      BY <1>1, <2>5, <3>1, <3>2
    <3>3. CASE UNCHANGED <<stash, made, work>>
      BY <2>3, <2>5, <3>3
    <3> QED BY <2>5, <3>2, <3>3 DEF PushFails
  <2> QED BY <1>4, <2>3, <2>4, <2>5 DEF StashesSource
<1>5. CASE StashesDest
  <2>1. /\ pc = "stashDest" /\ pc \in Undoable /\ clean /\ dest = 0 /\ source \in 0..made
        /\ UNCHANGED <<before, move, source>> /\ move.to \in Trees /\ move.from # move.to
        /\ made \in Nat
    BY <1>5, MoveIs DEF StashesDest, Undoable, Reversible, BranchFit, BaseInv, MoveFit, Locked,
                        HandTyped, MoveTyped
  <2>2. \A s, u : GoesBack(s, u) <=> s # 0 /\ s = source /\ u = move.from
    BY <2>1 DEF GoesBack, Reversible
  <2>3. CASE UNCHANGED <<work, stash, dest>> /\ pc' = "detach"
    <3>1. \A s, u : GoesBack(s, u)' <=> GoesBack(s, u)
      BY <2>1, <2>2, <2>3 DEF GoesBack, Reversible
    <3> QED BY <2>1, <2>3, <3>1, WorkSame
  <2>4. CASE Pushes(move.to) /\ dest' = made' /\ pc' = "detach"
    <3>1. PICK n : n = made + 1
      OBVIOUS
    <3>2. n # 0 /\ dest' = n /\ n # source
      BY <2>1, <2>4, <3>1 DEF Pushes, Stores
    <3>3. \A s, u : GoesBack(s, u)' <=>
            \/ s # 0 /\ s = source /\ u = move.from
            \/ s = n /\ u = move.to
      BY <2>1, <2>4, <3>2 DEF GoesBack, Reversible
    <3>4. PICK w \in Trees : w = move.to
      BY <2>1
    <3>5. Stores(w) /\ work' = [work EXCEPT ![w] = {}]
      BY <2>4, <3>4 DEF Pushes
    <3>6. \A s \in Ids, u \in Trees : s # n => (GoesBack(s, u)' <=> GoesBack(s, u))
      BY <2>2, <3>3
    <3>7. GoesBack(n, w)' /\ \A u \in Trees : GoesBack(n, u)' => u = w
      BY <3>2, <3>3, <3>4
    <3>8. \A s \in Ids : ~GoesBack(s, w)
      BY <2>1, <2>2, <3>4
    <3> QED BY <2>1, <3>1, <3>5, <3>6, <3>7, <3>8, WorkPushed
  <2>5. CASE PushFails(move.to) /\ Restore(OfSource) /\ clean' = (made' = made) /\ dest' = dest
    <3>1. Stores(move.to) => made' # made
      BY <2>1 DEF Stores
    <3>2. CASE Stores(move.to)
      BY <1>1, <2>5, <3>1, <3>2
    <3>3. CASE UNCHANGED <<stash, made, work>>
      <4>1. \A s, w : GoesBack(s, w)' <=> GoesBack(s, w)
        BY <2>1, <2>5, RestoreGoes DEF Restore, Reversible
      <4> QED BY <2>1, <3>3, <4>1, WorkSame
    <3> QED BY <2>5, <3>2, <3>3 DEF PushFails
  <2> QED BY <1>5, <2>3, <2>4, <2>5 DEF StashesDest
<1>6. CASE Detaches
  <2>1. /\ UNCHANGED <<before, work, stash, move, source, dest>> /\ pc = "detach"
        /\ \/ pc' = "checkout"
           \/ pc' = "restore" /\ todo' = OfDest \o OfSource
    BY <1>6 DEF Detaches, Restore
  <2>2. \A s, w : GoesBack(s, w)' <=> GoesBack(s, w)
    <3>1. CASE pc' = "checkout"
      BY <2>1, <3>1 DEF GoesBack, Reversible
    <3>2. CASE pc' = "restore" /\ todo' = OfDest \o OfSource
      BY <2>1, <3>2, RestoreGoes DEF Reversible
    <3> QED BY <2>1, <3>1, <3>2
  <2>3. pc \in Undoable /\ clean
    BY <2>1 DEF Undoable, Reversible, BranchFit
  <2> QED BY <2>1, <2>2, <2>3, WorkSame
<1>7. CASE ChecksOut
  <2>1. /\ UNCHANGED <<before, work, stash, move, source, dest>> /\ pc = "checkout"
        /\ pc' \in {"applySource", "reattach"}
    BY <1>7 DEF ChecksOut
  <2>2. pc' = "reattach" => \A s, w : GoesBack(s, w)' <=> GoesBack(s, w)
    BY <2>1 DEF GoesBack, Reversible
  <2>3. pc \in Undoable /\ "applySource" \notin Undoable /\ clean
    BY <2>1 DEF Undoable, Reversible, BranchFit
  <2> QED BY <1>1, <2>1, <2>2, <2>3, WorkSame
<1>8. CASE Reattaches
  <2>1. /\ UNCHANGED <<before, work, stash, move, source, dest>> /\ pc = "reattach"
        /\ pc' = "restore" /\ todo' = OfSource \o OfDest /\ clean' \in {clean, FALSE}
    BY <1>8 DEF Reattaches, Restore
  <2>2. \A s, w : GoesBack(s, w)' <=> GoesBack(s, w)
    BY <2>1, RestoreGoes DEF Reversible
  <2>3. pc \in Undoable
    BY <2>1 DEF Undoable, Reversible
  <2> QED BY <1>1, <2>1, <2>2, <2>3, WorkSame
<1>9. CASE Restores
  <2>1. PICK e \in Entry :
          /\ pc = "restore" /\ before' = before /\ GoesBack(e.id, e.tree)
          /\ \A s, w : GoesBack(s, w)' <=> GoesBack(s, w) /\ s # e.id
          /\ \/ /\ work' = [work EXCEPT ![e.tree] = @ \cup stash[e.id]]
                /\ stash' = Without({e.id}) /\ clean' = clean
             \/ clean' = FALSE
    BY <1>9, RestoreIs
  <2>2. CASE ~clean'
    BY <1>1, <2>2
  <2>3. CASE clean /\ work' = [work EXCEPT ![e.tree] = @ \cup stash[e.id]] /\ stash' = Without({e.id})
    BY <2>1, <2>3, WorkRestored
  <2> QED BY <2>1, <2>2, <2>3
<1>10. CASE RolledBack
  <2>1. /\ pc = "restore" /\ todo = <<>> /\ pc' = "failed" /\ UNCHANGED <<before, work, stash, clean>>
    BY <1>10 DEF RolledBack, gitVars
  <2>2. \A s, w : ~GoesBack(s, w) /\ ~GoesBack(s, w)'
    BY <2>1 DEF GoesBack, Reversible
  <2>3. pc \in Undoable
    BY <2>1 DEF Undoable
  <2> QED BY <1>1, <2>1, <2>2, <2>3, WorkSame
<1>11. CASE CarriesWork \/ Marks \/ Drops \/ Stops
  <2>1. pc' \in {"applyDest", "mark", "drop", "idle"} \/ ~clean'
    BY <1>11 DEF CarriesWork, Carries, Marks, Drops, Stops, Ends
  <2> QED BY <1>1, <2>1 DEF Undoable, Reversible
<1>12. CASE ~Locked /\ pc' = pc
  BY <1>1, <1>12 DEF Locked, Undoable, Reversible
<1>13. ASSUME NEW w \in Trees, NEW y \in Works, Edits(w, y) PROVE WorkFit'
  <2>1. /\ UNCHANGED <<stash, pc, todo, move, source, dest, clean>>
        /\ work' = [work EXCEPT ![w] = @ \cup {y}]
        /\ Locked => before' = [before EXCEPT !.work[w] = @ \cup {y}]
    BY <1>13 DEF Edits, jobVars
  <2>2. CASE Locked /\ pc \in Undoable /\ clean
    <3>1. /\ \A u \in Trees : before'.work[u] = IF u = w THEN before.work[u] \cup {y} ELSE before.work[u]
          /\ before'.stash = before.stash
      <4>1. /\ before'.work = [before.work EXCEPT ![w] = @ \cup {y}]
            /\ before'.stash = before.stash /\ before.work \in [Trees -> SUBSET Works]
        BY <2>1, <2>2 DEF BaseInv, HandTyped, PastTyped
      <4> QED BY <4>1
    <3>2. \A u \in Trees : work'[u] = IF u = w THEN work[u] \cup {y} ELSE work[u]
      BY <2>1 DEF BaseInv, HandTyped, GitTyped
    <3>3. \A s, u : GoesBack(s, u)' <=> GoesBack(s, u)
      BY <2>1 DEF GoesBack
    <3>4. /\ \A u \in Trees : before.work[u] = At(u)
          /\ \A s \in Ids :
               before.stash[s] = IF \E u \in Trees : GoesBack(s, u) THEN {} ELSE stash[s]
      BY <2>2 DEF WorkFit, Undoable
    <3>5. ASSUME NEW u \in Trees PROVE before'.work[u] = At(u)'
      <4>1. ASSUME NEW x PROVE x \in At(u)' <=> x \in At(u) \/ (u = w /\ x = y)
        BY <2>1, <3>2, <3>3, AtIs
      <4> QED BY <3>1, <3>4, <4>1
    <3>6. ASSUME NEW s \in Ids
          PROVE  before'.stash[s] = IF \E u \in Trees : GoesBack(s, u)' THEN {} ELSE stash'[s]
      BY <2>1, <3>1, <3>3, <3>4
    <3> QED BY <3>5, <3>6 DEF WorkFit
  <2> QED BY <1>1, <1>12, <2>1, <2>2
<1>14. ASSUME NEW w \in Trees, NEW b \in Branches, Switches(w, b) PROVE WorkFit'
  <2>1. /\ UNCHANGED <<work, stash, pc, todo, move, source, dest, clean>>
        /\ before'.work = before.work /\ before'.stash = before.stash
    BY <1>14 DEF Switches, jobVars, BaseInv, HandTyped, PastTyped
  <2> QED BY <2>1 DEF WorkFit, At, GoesBack
<1>15. ASSUME (\E w \in Trees : Heals(w)) \/ UNCHANGED handVars PROVE WorkFit'
  BY <1>2, <1>15 DEF Heals, handVars, gitVars, jobVars
<1>16. ASSUME \/ \E w \in Trees : Resolves(w) \/ Continues(w) \/ Aborts(w) \/ StashesAll(w)
              \/ \E s \in Ids : DropsStash(s) \/ \E w \in Trees : Pops(w, s)
       PROVE  WorkFit'
  BY <1>12, <1>16 DEF Resolves, Continues, Aborts, StashesAll, DropsStash, Pops, jobVars
<1>17. HandNext => WorkFit'
  BY <1>3, <1>4, <1>5, <1>6, <1>7, <1>8, <1>9, <1>10, <1>11 DEF HandNext
<1>18. UserNext => WorkFit'
  BY <1>13, <1>14, <1>15, <1>16 DEF UserNext
<1> QED BY <1>15, <1>17, <1>18 DEF Next

\* The branches are what they were, or the step that puts them back is to come.
LEMMA BranchFitKeeps ==
  ASSUME BaseInv, BranchFit, [Next]_handVars
  PROVE  BranchFit'
<1>0. /\ branch \in [Trees -> Branches \cup {None}]
      /\ before \in [branch : [Trees -> Branches \cup {None}], work : [Trees -> SUBSET Works],
                     stash : [Ids -> SUBSET Works]]
      /\ Locked => move.from \in Trees /\ move.to \in Trees /\ move.from # move.to
  BY MoveIs DEF BaseInv, HandTyped, GitTyped, PastTyped, MoveFit
<1>1. ASSUME UNCHANGED <<branch, before, move, clean, pc>> PROVE BranchFit'
  BY <1>1 DEF BranchFit
<1>2. ASSUME \/ pc' \in {"idle", "applySource", "applyDest", "mark", "drop"}
             \/ pc' \in {"reattach", "restore", "failed"} /\ ~clean'
      PROVE  BranchFit'
  BY <1>2 DEF BranchFit
<1>3. ASSUME NEW b, NEW f, NEW t, Begins(b, f, t) PROVE BranchFit'
  BY <1>3 DEF Begins, BranchFit, gitVars
<1>4. CASE StashesSource
  <2>1. UNCHANGED <<branch, before, move>> /\ pc = "stashSource"
    BY <1>4 DEF StashesSource
  <2>2. pc' \in {"stashDest", "failed"} /\ (pc' = "stashDest" => clean' = clean) /\ clean
    BY <1>4, <2>1 DEF StashesSource, BranchFit
  <2> QED BY <2>1, <2>2 DEF BranchFit
<1>5. CASE StashesDest
  <2>1. /\ UNCHANGED <<branch, before, move>> /\ pc = "stashDest" /\ clean
        /\ pc' = "restore" \/ (pc' = "detach" /\ clean' = clean)
    BY <1>5 DEF StashesDest, Restore, BranchFit
  <2> QED BY <2>1 DEF BranchFit
<1>6. CASE Detaches
  <2>1. UNCHANGED <<before, move>> /\ pc = "detach" /\ Locked
    BY <1>6 DEF Detaches, Locked
  <2>2. branch[move.from] = move.branch /\ clean /\ branch = before.branch
    BY <2>1 DEF BranchFit
  <2>3. CASE pc' = "restore" /\ branch' = branch
    BY <2>1, <2>2, <2>3 DEF BranchFit
  <2>4. CASE pc' = "checkout" /\ branch' = [branch EXCEPT ![move.from] = None] /\ clean' = clean
    <3>1. [branch' EXCEPT ![move.from] = move.branch] = branch /\ branch'[move.from] = None
      BY <1>0, <2>1, <2>2, <2>4
    <3> QED BY <2>1, <2>2, <2>4, <3>1 DEF BranchFit
  <2>5. CASE pc' = "restore" /\ ~clean'
    BY <1>2, <2>5
  <2> QED BY <1>6, <2>3, <2>4, <2>5 DEF Detaches, Restore
<1>7. CASE ChecksOut
  <2>1. UNCHANGED <<before, move>> /\ pc = "checkout"
    BY <1>7 DEF ChecksOut
  <2>2. \/ pc' = "applySource" \/ (pc' = "reattach" /\ ~clean')
        \/ pc' = "reattach" /\ branch' = branch /\ clean' = clean
    BY <1>7 DEF ChecksOut
  <2> QED BY <1>2, <2>1, <2>2 DEF BranchFit
<1>8. CASE Reattaches
  <2>1. /\ UNCHANGED <<before, move>> /\ pc = "reattach" /\ pc' = "restore"
        /\ \/ branch' = [branch EXCEPT ![move.from] = move.branch] /\ clean' = clean
           \/ ~clean'
    BY <1>8 DEF Reattaches, Restore
  <2>2. clean => before.branch = [branch EXCEPT ![move.from] = move.branch]
    BY <2>1 DEF BranchFit
  <2> QED BY <2>1, <2>2 DEF BranchFit
<1>9. CASE Restores \/ RolledBack
  <2>1. /\ UNCHANGED <<branch, before, move>> /\ pc = "restore" /\ pc' \in {"restore", "failed"}
        /\ clean' => clean
    BY <1>9 DEF Restores, RolledBack, gitVars
  <2> QED BY <2>1 DEF BranchFit
<1>10. CASE CarriesWork \/ Marks \/ Drops \/ Stops
  <2>1. pc' \in {"idle", "applyDest", "mark", "drop"} \/ (pc' = "failed" /\ ~clean')
    BY <1>10 DEF CarriesWork, Carries, Marks, Drops, Stops, Ends
  <2> QED BY <1>2, <2>1
<1>11. CASE ~Locked /\ pc' = pc
  BY <1>2, <1>11 DEF Locked
<1>12. ASSUME NEW w \in Trees, NEW y \in Works, Edits(w, y) PROVE BranchFit'
  <2>1. UNCHANGED <<branch, pc, move, clean>> /\ before'.branch = before.branch
    BY <1>0, <1>12 DEF Edits, jobVars
  <2> QED BY <2>1 DEF BranchFit
<1>13. ASSUME NEW w \in Trees, NEW b \in Branches, Switches(w, b) PROVE BranchFit'
  <2>1. UNCHANGED <<pc, move, clean>> /\ branch' = [branch EXCEPT ![w] = b]
    BY <1>13 DEF Switches, jobVars
  <2>2. CASE Locked
    <3>1. w # move.from /\ before'.branch = [before.branch EXCEPT ![w] = b]
      BY <1>0, <1>13, <2>2 DEF Switches
    <3>2. /\ branch'[move.from] = branch[move.from]
          /\ branch = before.branch => branch' = before'.branch
      BY <1>0, <2>1, <2>2, <3>1
    <3>3. [branch' EXCEPT ![move.from] = move.branch]
            = [[branch EXCEPT ![move.from] = move.branch] EXCEPT ![w] = b]
      BY <1>0, <2>1, <2>2, <3>1
    <3>4. before.branch = [branch EXCEPT ![move.from] = move.branch] =>
            before'.branch = [branch' EXCEPT ![move.from] = move.branch]
      BY <3>1, <3>3
    <3> QED BY <2>1, <3>2, <3>4 DEF BranchFit
  <2> QED BY <1>11, <2>1, <2>2
<1>14. ASSUME (\E w \in Trees : Heals(w)) \/ UNCHANGED handVars PROVE BranchFit'
  BY <1>1, <1>14 DEF Heals, handVars, gitVars, jobVars
<1>15. ASSUME \/ \E w \in Trees : Resolves(w) \/ Continues(w) \/ Aborts(w) \/ StashesAll(w)
              \/ \E s \in Ids : DropsStash(s) \/ \E w \in Trees : Pops(w, s)
       PROVE  BranchFit'
  BY <1>11, <1>15 DEF Resolves, Continues, Aborts, StashesAll, DropsStash, Pops, jobVars
<1>16. HandNext => BranchFit'
  BY <1>3, <1>4, <1>5, <1>6, <1>7, <1>8, <1>9, <1>10 DEF HandNext
<1>17. UserNext => BranchFit'
  BY <1>12, <1>13, <1>14, <1>15 DEF UserNext
<1> QED BY <1>14, <1>16, <1>17 DEF Next

-----------------------------------------------------------------------------
(* A move that is done has what it carried, whether or not it can say so.    *)

\* Where a stash of the move was put aside, it is what goes back there.
LEMMA KeptIs ==
  ASSUME BaseInv, pc \in Reversible
  PROVE  /\ At(move.from) = work[move.from] \cup Kept(source)
         /\ At(move.to) = work[move.to] \cup Kept(dest)
         /\ \A s \in Ids \ {source, dest} : \A w : ~GoesBack(s, w)
<1>1. move.from # move.to /\ source \in Ids \cup {0} /\ dest \in Ids \cup {0} /\ 0 \notin Ids
  <2>1. Locked
    BY DEF Locked, Reversible
  <2> QED BY <2>1, MoveIs DEF BaseInv, HandTyped, MoveTyped, MoveFit, Ids
<1>2. \A s, w : GoesBack(s, w) <=> \/ s # 0 /\ s = source /\ w = move.from
                                   \/ s # 0 /\ s = dest /\ w = move.to
  BY DEF GoesBack, Reversible
<1>3. \A x : x \in At(move.from) <=> x \in work[move.from] \cup Kept(source)
  <2>1. \A x : (\E s \in Ids : x \in stash[s] /\ GoesBack(s, move.from)) <=> x \in Kept(source)
    BY <1>1, <1>2 DEF Kept
  <2> QED BY <2>1, AtIs
<1>4. \A x : x \in At(move.to) <=> x \in work[move.to] \cup Kept(dest)
  <2>1. \A x : (\E s \in Ids : x \in stash[s] /\ GoesBack(s, move.to)) <=> x \in Kept(dest)
    BY <1>1, <1>2 DEF Kept
  <2> QED BY <2>1, AtIs
<1> QED BY <1>1, <1>2, <1>3, <1>4

\* It has from the checkout on.
LEMMA LandFitKeeps ==
  ASSUME BaseInv, WorkFit, BranchFit, LandFit, [Next]_handVars
  PROVE  LandFit'
<1> DEFINE Landing == pc \in {"applySource", "applyDest", "mark"} \/ Landed
<1>0. /\ branch \in [Trees -> Branches \cup {None}] /\ work \in [Trees -> SUBSET Works]
      /\ before \in [branch : [Trees -> Branches \cup {None}], work : [Trees -> SUBSET Works],
                     stash : [Ids -> SUBSET Works]]
      /\ Locked => move.from \in Trees /\ move.to \in Trees /\ move.from # move.to
      /\ Landing => Locked
  BY MoveIs DEF BaseInv, HandTyped, GitTyped, PastTyped, MoveFit, Locked, Landed
<1>1. ASSUME ~Landing' PROVE LandFit'
  BY <1>1 DEF LandFit
<1>2. ASSUME Landing' => Landing,
             UNCHANGED <<branch, work, stash, before, move, source, dest>>
      PROVE  LandFit'
  BY <1>2 DEF LandFit, Kept
<1>3. ASSUME NEW b, NEW f, NEW t, Begins(b, f, t) PROVE LandFit'
  BY <1>1, <1>3 DEF Begins, Landed
<1>4. CASE StashesSource \/ StashesDest \/ Detaches \/ Reattaches \/ Restores \/ RolledBack
  <2>1. pc \in {"stashSource", "restore"} \cup Reversible /\ applied' = applied
    BY <1>4 DEF StashesSource, StashesDest, Detaches, Reattaches, Restores, RolledBack, Reversible
  <2>2. applied' = {}
    BY <2>1 DEF BaseInv, AppliedFit
  <2>3. pc' \notin {"applySource", "applyDest", "mark"}
    BY <1>4 DEF StashesSource, StashesDest, Detaches, Reattaches, Restores, RolledBack, Restore
  <2> QED BY <1>1, <2>2, <2>3 DEF Landed
<1>5. CASE ChecksOut
  <2>1. /\ pc = "checkout" /\ pc \in Reversible /\ Locked /\ UNCHANGED <<before, work, stash, move, source, dest>>
        /\ \/ pc' = "applySource" /\ branch' = [branch EXCEPT ![move.to] = move.branch]
           \/ pc' = "reattach"
    BY <1>5 DEF ChecksOut, Reversible, Locked
  <2>2. CASE pc' = "reattach"
    BY <1>1, <2>2 DEF Landed
  <2>3. CASE pc' = "applySource" /\ branch' = [branch EXCEPT ![move.to] = move.branch]
    <3>1. clean /\ branch[move.from] = None /\ before.branch = [branch EXCEPT ![move.from] = move.branch]
      BY <2>1 DEF BranchFit
    <3>2. branch' = [before.branch EXCEPT ![move.from] = None, ![move.to] = move.branch]
      BY <1>0, <2>1, <2>3, <3>1
    <3>3. /\ before.work[move.from] = At(move.from) /\ before.work[move.to] = At(move.to)
          /\ \A s \in Ids :
               before.stash[s] = IF \E w \in Trees : GoesBack(s, w) THEN {} ELSE stash[s]
      BY <1>0, <2>1, <3>1 DEF WorkFit
    <3>4. /\ before.work[move.from] = work[move.from] \cup Kept(source)
          /\ before.work[move.to] \subseteq work[move.to] \cup Kept(dest)
          /\ \A s \in Ids \ {source, dest} : stash[s] = before.stash[s]
      BY <2>1, <3>3, KeptIs
    <3> QED BY <2>1, <3>2, <3>4 DEF LandFit, Kept
  <2> QED BY <2>1, <2>2, <2>3
<1>6. CASE CarriesWork
  <2>1. /\ pc \in {"applySource", "applyDest"} /\ Locked
        /\ UNCHANGED <<branch, before, stash, move, source, dest>>
    BY <1>6 DEF CarriesWork, Locked
  <2>2. work'[move.from] = work[move.from] /\ work[move.to] \subseteq work'[move.to]
    BY <1>0, <1>6, <2>1 DEF CarriesWork, Carries, Applies, Conflicts, Refuses
  <2> QED BY <2>1, <2>2 DEF LandFit, Kept
<1>7. CASE Marks \/ Drops \/ Stops
  <2>1. \/ pc' = "idle"
        \/ pc = "mark" /\ UNCHANGED <<branch, work, stash, before, move, source, dest>>
    BY <1>7 DEF Marks, Drops, Stops, Ends, gitVars
  <2> QED BY <1>1, <1>2, <2>1 DEF Landed
<1>8. CASE ~Locked /\ pc' = pc
  BY <1>1, <1>8 DEF Locked, Landed
<1>9. ASSUME NEW w \in Trees, NEW y \in Works, Edits(w, y) PROVE LandFit'
  <2>1. /\ UNCHANGED <<branch, stash, pc, applied, move, source, dest>>
        /\ work' = [work EXCEPT ![w] = @ \cup {y}]
        /\ Locked => before' = [before EXCEPT !.work[w] = @ \cup {y}]
    BY <1>9 DEF Edits, jobVars
  <2>2. CASE Landing
    <3>1. /\ before'.branch = before.branch /\ before'.stash = before.stash
          /\ before'.work = [before.work EXCEPT ![w] = @ \cup {y}]
          /\ before.work \in [Trees -> SUBSET Works]
      BY <1>0, <2>1, <2>2
    <3>2. \A u \in Trees : /\ work'[u] = IF u = w THEN work[u] \cup {y} ELSE work[u]
                           /\ before'.work[u] = IF u = w THEN before.work[u] \cup {y} ELSE before.work[u]
      BY <1>0, <2>1, <3>1
    <3>3. /\ before.work[move.from] = work[move.from] \cup Kept(source)
          /\ before.work[move.to] \subseteq work[move.to] \cup Kept(dest)
      BY <2>2 DEF LandFit
    <3>4. /\ before'.work[move.from] = work'[move.from] \cup Kept(source)
          /\ before'.work[move.to] \subseteq work'[move.to] \cup Kept(dest)
      BY <1>0, <2>2, <3>2, <3>3
    <3> QED BY <2>1, <2>2, <3>1, <3>4 DEF LandFit, Kept
  <2>3. CASE ~Landing
    BY <1>1, <2>1, <2>3 DEF Landed
  <2> QED BY <2>2, <2>3
<1>10. ASSUME NEW w \in Trees, NEW b \in Branches, Switches(w, b) PROVE LandFit'
  <2>1. /\ UNCHANGED <<work, stash, pc, applied, move, source, dest>>
        /\ branch' = [branch EXCEPT ![w] = b]
    BY <1>10 DEF Switches, jobVars
  <2>2. CASE Landing
    <3>1. /\ w # move.from /\ w # move.to
          /\ before'.work = before.work /\ before'.stash = before.stash
          /\ before'.branch = [before.branch EXCEPT ![w] = b]
          /\ before.branch \in [Trees -> Branches \cup {None}]
      BY <1>0, <1>10, <2>2 DEF Switches
    <3>2. branch = [before.branch EXCEPT ![move.from] = None, ![move.to] = move.branch]
      BY <2>2 DEF LandFit
    <3>3. branch' = [before'.branch EXCEPT ![move.from] = None, ![move.to] = move.branch]
      BY <1>0, <2>1, <2>2, <3>1, <3>2
    <3> QED BY <2>1, <2>2, <3>1, <3>3 DEF LandFit, Kept
  <2>3. CASE ~Landing
    BY <1>1, <2>1, <2>3 DEF Landed
  <2> QED BY <2>2, <2>3
<1>11. ASSUME (\E w \in Trees : Heals(w)) \/ UNCHANGED handVars PROVE LandFit'
  BY <1>2, <1>11 DEF Heals, handVars, gitVars, jobVars, Landed
<1>12. ASSUME \/ \E w \in Trees : Resolves(w) \/ Continues(w) \/ Aborts(w) \/ StashesAll(w)
              \/ \E s \in Ids : DropsStash(s) \/ \E w \in Trees : Pops(w, s)
       PROVE  LandFit'
  BY <1>8, <1>12 DEF Resolves, Continues, Aborts, StashesAll, DropsStash, Pops, jobVars
<1> HIDE DEF Landing
<1>13. HandNext => LandFit'
  BY <1>3, <1>4, <1>5, <1>6, <1>7 DEF HandNext
<1>14. UserNext => LandFit'
  BY <1>9, <1>10, <1>11, <1>12 DEF UserNext
<1> QED BY <1>11, <1>13, <1>14 DEF Next

-----------------------------------------------------------------------------
(* The theorems.                                                             *)

\* The invariant holds before the first hand-off.
LEMMA HandStarts ==
  ASSUME Init
  PROVE  HandInv
<1> USE DEF Init, HandInit, NoWork, NoStash
<1>1. MaxStashes \in Nat /\ MaxMoves \in Nat /\ \A s \in Ids : s \in Nat
  BY HandoffBounds DEF Ids
<1>2. HandTyped
  <2>1. GitTyped
    BY <1>1, HomeAssumption DEF GitTyped
  <2>2. MoveTyped
    BY <1>1 DEF MoveTyped, Steps
  <2>3. PastTyped
    BY HomeAssumption DEF PastTyped
  <2> QED BY <2>1, <2>2, <2>3 DEF HandTyped
<1>3. MoveFit /\ StashesFit /\ TodoFit /\ AppliedFit
  <2>1. MoveFit /\ TodoFit
    BY DEF MoveFit, TodoFit, Locked
  <2>2. StashesFit
    BY DEF StashesFit
  <2>3. AppliedFit
    BY DEF AppliedFit
  <2> QED BY <2>1, <2>2, <2>3
<1>4. HeldFit
  <2>1. Written = {}
    <3>1. \A x : x \notin Written
      BY WrittenAt
    <3> QED BY <3>1
  <2> QED BY <2>1 DEF HeldFit
<1>5. WorkFit /\ BranchFit /\ LandFit
  BY DEF WorkFit, BranchFit, LandFit, Landed, Reversible
<1> QED BY <1>2, <1>3, <1>4, <1>5 DEF HandInv

\* And every step keeps it.
LEMMA HandKeeps ==
  ASSUME HandInv, [Next]_handVars
  PROVE  HandInv'
<1>1. BaseInv /\ HeldFit /\ WorkFit /\ BranchFit /\ LandFit
  BY DEF HandInv, BaseInv
<1>2. BaseInv'
  BY <1>1, MoveKeeps
<1>3. HeldFit' /\ WorkFit' /\ BranchFit' /\ LandFit'
  BY <1>1, HeldFitKeeps, WorkFitKeeps, BranchFitKeeps, LandFitKeeps
<1> QED BY <1>2, <1>3 DEF HandInv, BaseInv

\* It is an invariant of every hand-off and of every command of the user.
THEOREM HandInvariant == Spec => []HandInv
<1>1. Init => HandInv
  BY HandStarts
<1>2. HandInv /\ [Next]_handVars => HandInv'
  BY HandKeeps
<1> QED BY <1>1, <1>2, PTL DEF Spec

\* What git, the move and the history record stay of their types.
THEOREM HandTypeCorrect == Spec => []HandTypeOK
<1>1. HandInv => HandTypeOK
  BY DEF HandInv, HandTyped, GitTyped, MoveTyped, HandTypeOK
<1> QED BY <1>1, HandInvariant, PTL

\* Whatever fails, conflicts or is killed, a change leaves the worktrees and the
\* stash stack only by a deliberate step of the user.
THEOREM NothingIsLost == Spec => NothingDisappears
<1>1. HandInv /\ [Next]_handVars => [Written \subseteq Written' \cup given']_handVars
  BY HeldIsWritten DEF HandInv, BaseInv
<1> QED BY <1>1, HandInvariant, PTL DEF Spec, NothingDisappears

\* A hand-off that reports a failure, and could undo its steps, has undone them all;
\* one that was done and could not write its marker has lost nothing it carried.
THEOREM FailuresRollBack == Spec => []FailureRollsBack
<1>1. ASSUME HandInv, pc = "failed", clean
      PROVE  branch = before.branch /\ work = before.work /\ stash = before.stash
  <2>1. branch = before.branch
    BY <1>1 DEF HandInv, BranchFit
  <2>2. \A s, w : ~GoesBack(s, w)
    BY <1>1, NoneGoes DEF Reversible
  <2>3. /\ \A w \in Trees : before.work[w] = At(w)
        /\ \A s \in Ids :
             before.stash[s] = IF \E w \in Trees : GoesBack(s, w) THEN {} ELSE stash[s]
    BY <1>1 DEF HandInv, WorkFit
  <2>4. /\ work \in [Trees -> SUBSET Works] /\ stash \in [Ids -> SUBSET Works]
        /\ before.work \in [Trees -> SUBSET Works] /\ before.stash \in [Ids -> SUBSET Works]
    BY <1>1 DEF HandInv, HandTyped, GitTyped, PastTyped
  <2>5. ASSUME NEW w \in Trees PROVE before.work[w] = work[w]
    <3>1. \A x : x \in At(w) <=> x \in work[w]
      BY <2>2, AtIs
    <3>2. At(w) = work[w]
      BY <3>1
    <3> QED BY <2>3, <3>2
  <2>6. ASSUME NEW s \in Ids PROVE before.stash[s] = stash[s]
    BY <2>2, <2>3
  <2> QED BY <2>1, <2>4, <2>5, <2>6
<1>2. ASSUME HandInv, Landed
      PROVE  /\ branch = [before.branch EXCEPT ![move.from] = None, ![move.to] = move.branch]
             /\ before.work[move.from] = work[move.from] \cup Kept(source)
             /\ before.work[move.to] \subseteq work[move.to] \cup Kept(dest)
             /\ \A s \in Ids \ {source, dest} : stash[s] = before.stash[s]
  BY <1>2 DEF HandInv, LandFit
<1>3. HandInv => FailureRollsBack
  BY <1>1, <1>2 DEF FailureRollsBack
<1> QED BY <1>3, HandInvariant, PTL
=============================================================================
