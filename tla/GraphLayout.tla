----------------------------- MODULE GraphLayout -----------------------------
(***************************************************************************)
(* The lanes of the commit graph (src/src-tauri/src/git/graph/layout/        *)
(* build.rs and lanes.rs). The order of the walk is given: a commit is named *)
(* by the row it will have, so that its parents are greater, and a parent    *)
(* beyond the last row is outside the loaded window. An in-window stash is an *)
(* entry like a commit nobody descends from, with its base as only parent.   *)
(* Which parents a commit has is found out when its row comes.               *)
(*                                                                         *)
(* Lanes and rows count from 1 here and from 0 in the code.                  *)
(***************************************************************************)
EXTENDS Naturals, Sequences, FiniteSets

CONSTANTS
  Rows,     \* entries of the window
  Outside   \* bound: commits outside the window

ASSUME WindowAssumption == Rows \in Nat /\ Outside \in Nat

Free == [waiting |-> 0, kind |-> "free"]
Cont(p) == [waiting |-> p, kind |-> "cont"]
Root(p) == [waiting |-> p, kind |-> "root"]
Blocked(p) == [waiting |-> p, kind |-> "blocked"]

VARIABLES
  head,     \* head_target: HEAD's commit if it is in the window, else 0
  lanes,    \* what each column is reserved for
  lane,     \* lane_of: the column of each row so far
  parents,  \* the parents of each row so far, the first parent first
  todo      \* merge parents of the last row that are not reserved yet

vars == <<head, lanes, lane, parents, todo>>

row == Len(lane)
Slots == 1..Len(lanes)
Least(S) == CHOOSE l \in S : \A k \in S : l <= k

\* The lanes that would render a commit; a blocked one renders nothing.
Awaiting(p) == {l \in Slots : lanes[l].waiting = p /\ lanes[l].kind \in {"cont", "root"}}
RootsFor(p) == {l \in Awaiting(p) : lanes[l].kind = "root"}

\* alloc_lane: the lowest gap, or a new column.
Gaps == {l \in Slots : lanes[l] = Free}
Alloc == IF Gaps = {} THEN Len(lanes) + 1 ELSE Least(Gaps)

\* A branch root wins over a continuation, the lowest of a kind over the others.
Claimed(o) ==
  IF RootsFor(o) # {} THEN Least(RootsFor(o))
  ELSE IF Awaiting(o) # {} THEN Least(Awaiting(o))
  ELSE Alloc

Put(l, what) == IF l = Len(lanes) + 1 THEN Append(lanes, what) ELSE [lanes EXCEPT ![l] = what]

\* Mutant: HEAD's own column is released at the hand-off.
OnwardReleased(o, l, ps) ==
  IF ps = <<>> \/ (head = o /\ Awaiting(ps[1]) \ {l} # {}) THEN Free ELSE Cont(ps[1])

\* HEAD hands its first parent to the lane that awaits it and keeps its own
\* column blocked until that parent renders.
Onward(o, l, ps) ==
  IF ps = <<>> THEN Free
  ELSE IF head = o /\ Awaiting(ps[1]) \ {l} # {} THEN Blocked(ps[1])
  ELSE Cont(ps[1])

\* The other lanes that waited for the commit are released.
Released(o, l, what) ==
  [k \in 1..Len(Put(l, what)) |->
     IF k = l THEN what ELSE IF lanes[k].waiting = o THEN Free ELSE lanes[k]]

Older == (row + 2)..(Rows + Outside)

Init ==
  /\ head \in 0..Rows
  /\ lanes = IF head = 0 THEN <<>> ELSE <<Cont(head)>>
  /\ lane = <<>> /\ parents = <<>> /\ todo = <<>>

Lays(ps) ==
  /\ row < Rows /\ todo = <<>>
  /\ LET o == row + 1
         l == Claimed(o)
     IN /\ lane' = Append(lane, l)
        /\ lanes' = Released(o, l, Onward(o, l, ps))
  /\ parents' = Append(parents, ps)
  /\ todo' = IF ps = <<>> THEN <<>> ELSE Tail(ps)
  /\ UNCHANGED head

\* Mutant: a lane that awaits the merge parent is not promoted.
ReservesUnpromoted ==
  /\ todo # <<>> /\ todo' = Tail(todo)
  /\ LET p == Head(todo)
     IN lanes' = IF Awaiting(p) # {} THEN lanes ELSE Put(Alloc, Root(p))
  /\ UNCHANGED <<head, lane, parents>>

\* A merge parent that is awaited keeps that lane, now as a branch root; another
\* one opens a lane of its own.
Reserves ==
  /\ todo # <<>> /\ todo' = Tail(todo)
  /\ LET p == Head(todo)
     IN lanes' = IF Awaiting(p) # {}
                   THEN [lanes EXCEPT ![Least(Awaiting(p))] = Root(p)]
                   ELSE Put(Alloc, Root(p))
  /\ UNCHANGED <<head, lane, parents>>

\* A root, a commit or a stash, a merge of two.
Histories ==
  {<<>>} \cup {<<p>> : p \in Older} \cup
  {<<e[1], e[2]>> : e \in {d \in Older \X Older : d[1] # d[2]}}

Next == (\E ps \in Histories : Lays(ps)) \/ Reserves

Spec == Init /\ [][Next]_vars

-----------------------------------------------------------------------------
(* Properties.                                                               *)

TypeOK ==
  /\ head \in 0..Rows /\ row <= Rows
  /\ lanes \in Seq([waiting : 0..(Rows + Outside), kind : {"free", "cont", "root", "blocked"}])
  /\ lane \in Seq(Nat)
  /\ parents \in Seq(Seq(1..(Rows + Outside)))
  /\ todo \in Seq(1..(Rows + Outside))

\* The line from a commit to its first parent runs down the commit's own column
\* (GraphLayer.tsx bends it at the parent's row): nothing else is laid out there
\* until the parent is, or it would read as an ancestor of the commit.
FirstParentLinesRunFree ==
  \A i \in 1..row : parents[i] # <<>> =>
    \A j \in (i + 1)..row : j < parents[i][1] => lane[j] # lane[i]

\* The checked-out commit is the mainline: it takes the first column whatever
\* merges or stacked branches await it, and the column above it is empty, where
\* the line of the working copy comes down (wip_lane).
HeadLeads ==
  head # 0 =>
    /\ \A i \in 1..row : i < head => lane[i] # 1
    /\ row >= head => lane[head] = 1

MergedBy(p) == {i \in 1..row : \E k \in 2..Len(parents[i]) : parents[i][k] = p}

\* The line from a merge to a merged parent runs down the parent's column. The
\* promotion of Reserves keeps that column free for the lowest of its merges.
LastMergeLinesRunFree ==
  \A p \in 1..row : \A i \in MergedBy(p) :
    (\A k \in MergedBy(p) : k <= i) => \A j \in (i + 1)..(p - 1) : lane[j] # lane[p]
=============================================================================
