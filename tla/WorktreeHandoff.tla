--------------------------- MODULE WorktreeHandoff ---------------------------
(***************************************************************************)
(* Moving a branch from one worktree to another with the work in both        *)
(* (src/src-tauri/src/git/write/worktrees/handoff_move.rs, worktrees/stash.rs,*)
(* stash_push.rs), the carry it may leave open (git/handoff.rs,              *)
(* git/write/conflict_resolution.rs) and the stash commands of the user      *)
(* (git/write/stashes.rs).                                                   *)
(*                                                                         *)
(* Each git command is a step that may succeed, fail, fail although it has    *)
(* done its work (a post-checkout hook decides what git switch answers) or    *)
(* stop on conflicts, and the app may be killed between any two. A change is a name: what it    *)
(* changes and whether it applies somewhere is left to the outcome. The list *)
(* and the drop that drop_stash_by_oid runs are one step: a terminal that     *)
(* changes the stack between them is outside (stashes.rs says so too).       *)
(***************************************************************************)
EXTENDS Naturals, FiniteSets, Sequences

CONSTANTS
  Trees,       \* worktrees of one repository
  Branches,
  Works,       \* uncommitted changes
  None,        \* no branch: a detached HEAD
  Home,        \* the branch each worktree starts on
  MaxStashes,  \* bound: stash entries made
  MaxMoves     \* bound: hand-offs

ASSUME HomeAssumption ==
  /\ Home \in [Trees -> Branches] /\ None \notin Branches
  /\ \A v, w \in Trees : Home[v] = Home[w] => v = w
ASSUME HandoffBounds == {MaxStashes, MaxMoves} \subseteq Nat

Ids == 1..MaxStashes

VARIABLES
  branch,    \* per worktree, the branch of its HEAD
  work,      \* per worktree, its uncommitted changes
  unmerged,  \* worktrees with unmerged index entries
  stash,     \* per stash commit, the changes of its entry on the stack, if any
  made,      \* stash commits made
  marker,    \* per worktree, the stashes its handoff marker names
  pc, move,  \* the hand-off: its next step; its branch, source and destination
  source, dest, \* its two stashes, 0 for none
  applied,   \* stashes it applied and still keeps
  todo,      \* what its rollback has left to restore, in order
  moves,
  before,    \* history: what there would be, had the hand-off never begun
  clean,     \* history: what failed left nothing behind, and no step of its rollback failed
  late,      \* history: what only an Abort of a marked worktree would take: put there by
             \* the user, or by a stash dropped since
  given      \* history: changes the user gave up

gitVars == <<branch, work, unmerged, stash, made>>
jobVars == <<pc, move, source, dest, applied, todo, moves>>
handVars == <<gitVars, marker, jobVars, before, clean, late, given>>

\* The index and stash locks of the common directory, held for the whole move.
Locked == pc # "idle"

Written == (UNION {work[w] : w \in Trees}) \cup (UNION {stash[s] : s \in Ids})
OnStack == {s \in Ids : stash[s] # {}}
Marked(w) == marker[w] # {}

-----------------------------------------------------------------------------
(* What git does.                                                            *)

Stores(w) ==
  made < MaxStashes /\ made' = made + 1 /\ stash' = [stash EXCEPT ![made + 1] = work[w]]

Pushes(w) == Stores(w) /\ work' = [work EXCEPT ![w] = {}]

\* The entry may be stored although clearing the tree stopped half way.
PushFails(w) ==
  \/ UNCHANGED <<stash, made, work>>
  \/ Stores(w) /\ \E rest \in SUBSET work[w] : work' = [work EXCEPT ![w] = rest]

Applies(w, s) == work' = [work EXCEPT ![w] = @ \cup stash[s]] /\ UNCHANGED unmerged
Conflicts(w, s) ==
  work' = [work EXCEPT ![w] = @ \cup stash[s]] /\ unmerged' = unmerged \cup {w}
Refuses == UNCHANGED <<work, unmerged>>

Without(gone) == [s \in Ids |-> IF s \in gone THEN {} ELSE stash[s]]

Free(b) == \A w \in Trees : branch[w] # b

-----------------------------------------------------------------------------
(* move_branch_to_worktree.                                                  *)

NoMove == [branch |-> None, from |-> None, to |-> None]
NoWork == [w \in Trees |-> {}]
NoStash == [s \in Ids |-> {}]

HandInit ==
  /\ branch = Home /\ work = NoWork /\ unmerged = {} /\ stash = NoStash /\ made = 0
  /\ marker = [w \in Trees |-> {}]
  /\ pc = "idle" /\ move = NoMove /\ source = 0 /\ dest = 0 /\ applied = {} /\ todo = <<>>
  /\ moves = 0 /\ before = [branch |-> Home, work |-> NoWork, stash |-> NoStash]
  /\ clean = TRUE /\ late = NoWork /\ given = {}

\* The call is over, whatever it was doing; what it kept was its own.
Ends ==
  /\ pc' = "idle" /\ move' = NoMove /\ source' = 0 /\ dest' = 0 /\ applied' = {} /\ todo' = <<>>
  /\ before' = [branch |-> Home, work |-> NoWork, stash |-> NoStash] /\ clean' = TRUE

Begins(b, f, t) ==
  /\ ~Locked /\ moves < MaxMoves
  /\ f # t /\ branch[f] = b /\ {f, t} \cap unmerged = {}
  /\ pc' = "stashSource" /\ move' = [branch |-> b, from |-> f, to |-> t]
  /\ source' = 0 /\ dest' = 0 /\ applied' = {} /\ todo' = <<>> /\ moves' = moves + 1
  /\ before' = [branch |-> branch, work |-> work, stash |-> stash] /\ clean' = TRUE
  /\ late' = IF Marked(t) THEN late ELSE [late EXCEPT ![t] = {}]
  /\ UNCHANGED <<gitVars, marker, given>>

Restore(list) == pc' = "restore" /\ todo' = list
OfSource == IF source = 0 THEN <<>> ELSE <<[tree |-> move.from, id |-> source]>>
OfDest == IF dest = 0 THEN <<>> ELSE <<[tree |-> move.to, id |-> dest]>>

StashesSource ==
  /\ pc = "stashSource"
  /\ \/ /\ work[move.from] = {} /\ pc' = "stashDest"
        /\ UNCHANGED <<work, stash, made, source, clean>>
     \/ /\ work[move.from] # {} /\ Pushes(move.from)
        /\ source' = made' /\ pc' = "stashDest" /\ UNCHANGED clean
     \/ /\ work[move.from] # {} /\ PushFails(move.from)
        /\ pc' = "failed" /\ clean' = (made' = made) /\ UNCHANGED source
  /\ UNCHANGED <<branch, unmerged, marker, move, dest, applied, todo, moves, before, late, given>>

\* A failure puts the source's changes back before it is reported.
StashesDest ==
  /\ pc = "stashDest"
  /\ \/ /\ work[move.to] = {} /\ pc' = "detach"
        /\ UNCHANGED <<work, stash, made, dest, todo, clean>>
     \/ /\ work[move.to] # {} /\ Pushes(move.to)
        /\ dest' = made' /\ pc' = "detach" /\ UNCHANGED <<todo, clean>>
     \/ /\ PushFails(move.to) /\ Restore(OfSource)
        /\ clean' = (made' = made) /\ UNCHANGED dest
  /\ UNCHANGED <<branch, unmerged, marker, move, source, applied, moves, before, late, given>>

\* Mutant: the rollback forgets the destination's stash.
DetachesForgetting ==
  /\ pc = "detach"
  /\ \/ /\ branch' = [branch EXCEPT ![move.from] = None]
        /\ pc' = "checkout" /\ UNCHANGED todo
     \/ Restore(OfSource) /\ UNCHANGED branch
  /\ UNCHANGED <<work, unmerged, stash, made, marker, move, source, dest, applied, moves,
                 before, clean, late, given>>

\* A switch that fails once HEAD has moved leaves the source detached.
Detaches ==
  /\ pc = "detach"
  /\ \/ /\ branch' = [branch EXCEPT ![move.from] = None]
        /\ pc' = "checkout" /\ UNCHANGED <<todo, clean>>
     \/ /\ Restore(OfDest \o OfSource)
        /\ \/ UNCHANGED <<branch, clean>>
           \/ branch' = [branch EXCEPT ![move.from] = None] /\ clean' = FALSE
  /\ UNCHANGED <<work, unmerged, stash, made, marker, move, source, dest, applied, moves,
                 before, late, given>>

\* One here leaves the branch in the destination, where it is not free to go back.
ChecksOut ==
  /\ pc = "checkout"
  /\ \/ /\ Free(move.branch) /\ branch' = [branch EXCEPT ![move.to] = move.branch]
        /\ \/ pc' = "applySource" /\ UNCHANGED clean
           \/ pc' = "reattach" /\ clean' = FALSE
     \/ pc' = "reattach" /\ UNCHANGED <<branch, clean>>
  /\ UNCHANGED <<work, unmerged, stash, made, marker, move, source, dest, applied, todo, moves,
                 before, late, given>>

\* What this switch answers is not looked at.
Reattaches ==
  /\ pc = "reattach"
  /\ \/ /\ Free(move.branch) /\ branch' = [branch EXCEPT ![move.from] = move.branch]
        /\ UNCHANGED clean
     \/ UNCHANGED branch /\ clean' = FALSE
  /\ Restore(OfSource \o OfDest)
  /\ UNCHANGED <<work, unmerged, stash, made, marker, move, source, dest, applied, moves,
                 before, late, given>>

\* restore_stash: an entry that does not apply, or does not drop, stays.
Restores ==
  /\ pc = "restore" /\ todo # <<>> /\ todo' = Tail(todo)
  /\ LET e == Head(todo)
     IN \/ Applies(e.tree, e.id) /\ stash' = Without({e.id}) /\ UNCHANGED clean
        \/ /\ Applies(e.tree, e.id) \/ Conflicts(e.tree, e.id) \/ Refuses
           /\ UNCHANGED stash /\ clean' = FALSE
  /\ UNCHANGED <<branch, made, marker, pc, move, source, dest, applied, moves, before, late, given>>

\* Mutant: a stash that was refused is dropped with the others.
CarriesBlindly(id, next) ==
  \/ id = 0 /\ pc' = next /\ UNCHANGED <<work, unmerged, applied>>
  \/ id # 0 /\ Applies(move.to, id) /\ applied' = applied \cup {id} /\ pc' = next
  \/ id # 0 /\ Conflicts(move.to, id) /\ applied' = applied \cup {id} /\ pc' = "mark"
  \/ id # 0 /\ Refuses /\ applied' = applied \cup {id} /\ pc' = "drop"

\* The step that applies a stash in the destination goes on to "next".
Carries(id, next) ==
  \/ id = 0 /\ pc' = next /\ UNCHANGED <<work, unmerged, applied>>
  \/ id # 0 /\ Applies(move.to, id) /\ applied' = applied \cup {id} /\ pc' = next
  \/ id # 0 /\ Conflicts(move.to, id) /\ applied' = applied \cup {id} /\ pc' = "mark"
  \/ id # 0 /\ Refuses /\ pc' = "drop" /\ UNCHANGED applied

CarriesWork ==
  /\ \/ pc = "applySource" /\ Carries(source, "applyDest")
     \/ pc = "applyDest" /\ Carries(dest, "drop")
  /\ UNCHANGED <<branch, stash, made, marker, move, source, dest, todo, moves, before, clean,
                 late, given>>

\* carry_conflict: the marker names what was applied and what conflicted. If it
\* cannot be written, or only in part, that is an error, although the move is done.
Marks ==
  /\ pc = "mark"
  /\ \/ Ends /\ marker' = [marker EXCEPT ![move.to] = applied]
     \/ /\ pc' = "failed" /\ clean' = FALSE
        /\ \E kept \in SUBSET applied : marker' \in {marker, [marker EXCEPT ![move.to] = kept]}
        /\ UNCHANGED <<move, source, dest, applied, todo, before>>
  /\ UNCHANGED <<gitVars, moves, late, given>>

\* drop_all: each drop may fail. Work handed to a worktree that an earlier carry has
\* marked then has no copy but there.
Drops ==
  /\ pc = "drop" /\ Ends
  /\ \E gone \in SUBSET applied :
        /\ stash' = Without(gone)
        /\ late' = IF Marked(move.to)
                     THEN [late EXCEPT ![move.to] = @ \cup UNION {stash[s] : s \in gone}]
                     ELSE late
  /\ UNCHANGED <<branch, work, unmerged, made, marker, moves, given>>

RolledBack ==
  /\ pc = "restore" /\ todo = <<>> /\ pc' = "failed"
  /\ UNCHANGED <<gitVars, marker, move, source, dest, applied, todo, moves, before, clean,
                 late, given>>

\* The error is returned, or the app quits or is killed; git keeps what it has.
Stops ==
  /\ Locked /\ Ends
  /\ UNCHANGED <<gitVars, marker, moves, late, given>>

HandNext ==
  \/ \E b \in Branches, f, t \in Trees : Begins(b, f, t)
  \/ StashesSource \/ StashesDest \/ Detaches \/ ChecksOut \/ Reattaches \/ Restores
  \/ CarriesWork \/ Marks \/ Drops \/ RolledBack \/ Stops

-----------------------------------------------------------------------------
(* The user: an editor at any time, commands under the same locks.           *)

\* What the user puts into a worktree while it is marked, or a carry is coming.
Arrives(w, what) ==
  late' = IF Marked(w) \/ (Locked /\ w = move.to)
            THEN [late EXCEPT ![w] = @ \cup what] ELSE late

Edits(w, x) ==
  /\ x \notin Written \cup given
  /\ work' = [work EXCEPT ![w] = @ \cup {x}] /\ Arrives(w, {x})
  /\ before' = IF Locked THEN [before EXCEPT !.work[w] = @ \cup {x}] ELSE before
  /\ UNCHANGED <<branch, unmerged, stash, made, marker, jobVars, clean, given>>

\* switch_branch, or git switch in a terminal on a worktree the move is not about;
\* the changes stay in the tree.
Switches(w, b) ==
  /\ ~Locked \/ w \notin {move.from, move.to}
  /\ w \notin unmerged /\ Free(b)
  /\ branch' = [branch EXCEPT ![w] = b]
  /\ before' = IF Locked THEN [before EXCEPT !.branch[w] = b] ELSE before
  /\ UNCHANGED <<work, unmerged, stash, made, marker, jobVars, clean, late, given>>

\* Every conflicted path is resolved and staged.
Resolves(w) ==
  /\ ~Locked /\ w \in unmerged /\ unmerged' = unmerged \ {w}
  /\ UNCHANGED <<branch, work, stash, made, marker, jobVars, before, clean, late, given>>

Unmarks(w) == marker' = [marker EXCEPT ![w] = {}] /\ late' = [late EXCEPT ![w] = {}]

\* continue_carry: the first drop that fails leaves the marker, and so does a
\* clear_marker that fails unnoticed.
Continues(w) ==
  /\ ~Locked /\ w \notin unmerged /\ Marked(w)
  /\ \E gone \in SUBSET marker[w] :
        /\ stash' = Without(gone)
        /\ \/ marker[w] \cap OnStack \subseteq gone /\ Unmarks(w)
           \/ /\ late' = [late EXCEPT ![w] = @ \cup UNION {stash[s] : s \in gone}]
              /\ UNCHANGED marker
  /\ UNCHANGED <<branch, work, unmerged, made, jobVars, before, clean, given>>

\* abort_carry, of any marker: reset --hard, which leaves what is untracked and may
\* fail, and then the marker is cleared, or silently not.
Aborts(w) ==
  /\ ~Locked /\ Marked(w)
  /\ \E gone \in SUBSET work[w] :
        /\ work' = [work EXCEPT ![w] = @ \ gone]
        /\ \/ /\ unmerged' = unmerged \ {w} /\ Unmarks(w)
              /\ given' = given \cup (late[w] \cap gone)
           \/ /\ unmerged' \in {unmerged, unmerged \ {w}}
              /\ given' = given \cup gone /\ UNCHANGED <<marker, late>>
  /\ UNCHANGED <<branch, stash, made, jobVars, before, clean>>

\* operation_status: a marker is cleared when none of its stashes is on the stack,
\* and when the stack could not be read (carry_stashes_live passes over the error).
Heals(w) ==
  /\ Marked(w)
  /\ marker' = [marker EXCEPT ![w] = {}]
  /\ late' = IF Locked /\ w = move.to THEN late ELSE [late EXCEPT ![w] = {}]
  /\ UNCHANGED <<gitVars, jobVars, before, clean, given>>

\* stash_expected.
StashesAll(w) ==
  /\ ~Locked /\ work[w] # {} /\ w \notin unmerged
  /\ Pushes(w) \/ PushFails(w)
  /\ UNCHANGED <<branch, unmerged, marker, jobVars, before, clean, late, given>>

\* stash_pop: a conflicting apply keeps the entry, and so does a failed drop.
Pops(w, s) ==
  /\ ~Locked /\ w \notin unmerged /\ s \in OnStack
  /\ \/ Applies(w, s) /\ stash' \in {Without({s}), stash}
     \/ Conflicts(w, s) /\ UNCHANGED stash
  /\ Arrives(w, stash[s])
  /\ UNCHANGED <<branch, made, marker, jobVars, before, clean, given>>

\* stash_drop.
DropsStash(s) ==
  /\ ~Locked /\ s \in OnStack
  /\ stash' = Without({s}) /\ given' = given \cup stash[s]
  /\ UNCHANGED <<branch, work, unmerged, made, marker, jobVars, before, clean, late>>

UserNext ==
  \/ \E w \in Trees :
       \/ \E x \in Works : Edits(w, x)
       \/ \E b \in Branches : Switches(w, b)
       \/ Resolves(w) \/ Continues(w) \/ Aborts(w) \/ Heals(w) \/ StashesAll(w)
       \/ \E s \in Ids : Pops(w, s)
  \/ \E s \in Ids : DropsStash(s)

Init == HandInit
Next == HandNext \/ UserNext
Spec == Init /\ [][Next]_handVars

-----------------------------------------------------------------------------
(* Properties.                                                               *)

HandTypeOK ==
  /\ branch \in [Trees -> Branches \cup {None}] /\ unmerged \subseteq Trees
  /\ work \in [Trees -> SUBSET Works] /\ late \in [Trees -> SUBSET Works]
  /\ stash \in [Ids -> SUBSET Works] /\ made \in 0..MaxStashes
  /\ marker \in [Trees -> SUBSET Ids]
  /\ source \in 0..made /\ dest \in 0..made /\ applied \subseteq Ids
  /\ given \subseteq Works /\ moves \in 0..MaxMoves

\* No hand-off, however it ends, and no carry, continued or aborted, takes a
\* change out of both the worktrees and the stash stack, but what the user gave up:
\* dropped with its stash; put into a worktree before its marker was cleared, or
\* left to a Finish that dropped its stash and kept the marker, and then aborted; or
\* reset by an Abort that could not clear the marker.
NothingDisappears == [][Written \subseteq Written' \cup given']_handVars

\* The marker of a move that is done could not be written.
Landed == pc = "failed" /\ applied # {}

Kept(s) == IF s = 0 THEN {} ELSE stash[s]

\* A hand-off that reports a failure leaves both worktrees and the stack as if it had
\* never begun, unless a command failed half way (a stash stored but the tree not
\* cleared, a switch answered as failed with HEAD moved) or its rollback failed too.
\* One that fails because its marker cannot be written has moved the branch, and has
\* every change it carried still in its worktree or on the stack.
FailureRollsBack ==
  /\ pc = "failed" /\ clean =>
       branch = before.branch /\ work = before.work /\ stash = before.stash
  /\ Landed =>
       /\ branch = [before.branch EXCEPT ![move.from] = None, ![move.to] = move.branch]
       /\ before.work[move.from] = work[move.from] \cup Kept(source)
       /\ before.work[move.to] \subseteq work[move.to] \cup Kept(dest)
       /\ \A s \in Ids \ {source, dest} : stash[s] = before.stash[s]
=============================================================================
