----------------------------- MODULE GraphPaint -----------------------------
(***************************************************************************)
(* What the history view computes from a finished layout: the lane of the    *)
(* stashes whose base is outside the window (src/src/features/graph/         *)
(* historyRows.ts) and the commits and edges a viewport paints               *)
(* (graphPaintIndex.ts). The list has more rows than the graph: the          *)
(* working-copy row above all, and the rows of a stash somewhere between two *)
(* commits. Rows count from 0 in the list, as in the code. A viewport has     *)
(* bounds between rows there; here it is given by the first and the last row *)
(* it lets in.                                                             *)
(*                                                                         *)
(* A tree kept in an array is walked down in the code, from the root 1 to    *)
(* the children 2n and 2n + 1 of n. Here what holds of a node is said from    *)
(* what holds of its parent, n \div 2.                                       *)
(***************************************************************************)
EXTENDS GraphLayout, FiniteSetsExt

CONSTANT Context  \* bound: context rows of a stash

ASSUME ContextAssumption == Context \in Nat

Finished == row = Rows /\ todo = <<>>

\* The edges the layout returns: to the parents inside the window.
Edges ==
  {[from |-> e[1], to |-> e[2], lane |-> lane[e[1]], toLane |-> lane[e[2]]] :
     e \in {d \in (1..row) \X (1..row) : \E k \in 1..Len(parents[d[1]]) : parents[d[1]][k] = d[2]}}

\* visualRowByGraphRow: a stash and its context rows come before graph row s.
Visual(s, extra) == [i \in 1..row |-> IF i < s THEN i ELSE i + extra]
ListRows(extra) == 1 + row + extra

Larger(a, b) == IF a >= b THEN a ELSE b
Smaller(a, b) == IF a <= b THEN a ELSE b

-----------------------------------------------------------------------------
(* buildLaneOccupancy: a tree of maxima over ranges of rows.                 *)

Middle(left, right) == (left + right) \div 2

\* The array the tree is kept in, for so many rows.
Heap(count) == 1..(4 * count - 1)

\* The rows of each node: the parent's, halved.
Halves(count) ==
  LET half[n \in Heap(count)] ==
        IF n = 1 THEN [left |-> 0, right |-> count - 1]
        ELSE LET up == half[n \div 2]
                 middle == Middle(up.left, up.right)
             IN IF n % 2 = 0 THEN [left |-> up.left, right |-> middle]
                ELSE [left |-> middle + 1, right |-> up.right]
  IN [n \in Heap(count) |-> half[n]]

\* A leaf has no children, whatever the array holds there.
IsNode(half, n) == n = 1 \/ half[n \div 2].left < half[n \div 2].right

Within(rows, s) == s.first <= rows.left /\ rows.right <= s.last

\* update, for the rows of s: the nodes it is called on.
Called(half, s) ==
  LET called[n \in DOMAIN half] ==
        IF n = 1 THEN TRUE
        ELSE LET up == half[n \div 2]
                 middle == Middle(up.left, up.right)
             IN /\ called[n \div 2] /\ ~Within(up, s)
                /\ IF n % 2 = 0 THEN s.first <= middle ELSE s.last > middle
  IN called

\* Mutant: an edge counts in the column where it ends only.
SpansEnding(visual) ==
  {[first |-> visual[i], last |-> visual[i], lane |-> lane[i]] : i \in 1..row} \cup
  {[first |-> visual[e.from], last |-> visual[e.to], lane |-> e.toLane] : e \in Edges}

\* What occupies the list: each node its row, each edge the rows it crosses.
Spans(visual) ==
  {[first |-> visual[i], last |-> visual[i], lane |-> lane[i]] : i \in 1..row} \cup
  {[first |-> Smaller(visual[e.from], visual[e.to]), last |-> Larger(visual[e.from], visual[e.to]),
    lane |-> Larger(e.lane, e.toLane)] : e \in Edges}

\* An update raises the nodes it is called on that lie within its rows.
Raises(half, s, n) == Within(half[n], s) /\ Called(half, s)[n]

\* Updates take the larger lane, so their order makes no difference.
Updated(half, spans) ==
  [n \in DOMAIN half |-> Max({-1} \cup {s.lane : s \in {t \in spans : Raises(half, t, n)}})]

\* materialize: the largest lane from the root down to a node.
Materialized(tree) ==
  LET value[n \in DOMAIN tree] ==
        Larger(IF n = 1 THEN -1 ELSE value[n \div 2], tree[n])
  IN value

LaneOccupancy(half, spans) ==
  LET value == Materialized(Updated(half, spans))
  IN [r \in half[1].left..half[1].right |->
        value[CHOOSE n \in DOMAIN half : half[n] = [left |-> r, right |-> r] /\ IsNode(half, n)]]

\* maxLaneInSpan over the rows of the stash, and the lane right of it.
MarkerLane(occupancy, first, last, anchor) ==
  Larger(lane[anchor], Max({-1} \cup {occupancy[r] : r \in first..last})) + 1

-----------------------------------------------------------------------------
(* graphPaintIndex: a balanced tree of the edges' intervals, sorted by start, *)
(* and the commits by row.                                                   *)

Interval(visual, e) ==
  [start |-> Smaller(visual[e.from], visual[e.to]), end |-> Larger(visual[e.from], visual[e.to])]

Before(a, b) == a.start < b.start \/ (a.start = b.start /\ a.end < b.end)

Sorted(S) ==
  [i \in 1..Cardinality(S) |-> CHOOSE a \in S : Cardinality({b \in S : Before(b, a)}) = i - 1]

\* Mutation: the end of a subtree is the end of its last interval.
MaxEndOfLast(ivs, low, high) == ivs[high].end

\* A subtree is a range of the sorted intervals, its node the one in the middle.
MaxEnd(ivs, low, high) == Max({ivs[i].end : i \in (low + 1)..high})

\* queryIntervalNode: left of low..high are the starts too low, then the node.
Query(ivs, min, max) ==
  LET query[at \in (0..Len(ivs)) \X (0..Len(ivs))] ==
        LET low == at[1]
            high == at[2]
            mid == Middle(low, high)
            entry == ivs[mid + 1]
            lefts == IF low < mid /\ MaxEnd(ivs, low, mid) >= min
                       THEN query[<<low, mid>>] ELSE {}
            rights == IF mid + 1 < high /\ entry.start <= max /\ MaxEnd(ivs, mid + 1, high) >= min
                        THEN query[<<mid + 1, high>>] ELSE {}
        IN IF low >= high THEN {}
           ELSE lefts \cup rights \cup IF entry.start <= max /\ entry.end >= min THEN {entry} ELSE {}
  IN query[<<0, Len(ivs)>>]

\* lowerBoundCommit and upperBoundCommit: how many commits come before a row.
Bound(ivs, passed) ==
  LET bound[at \in (0..Len(ivs)) \X (0..Len(ivs))] ==
        LET low == at[1]
            high == at[2]
            mid == Middle(low, high)
        IN IF low >= high THEN low
           ELSE IF ivs[mid + 1] \in passed THEN bound[<<mid + 1, high>>]
           ELSE bound[<<low, mid>>]
  IN bound[<<0, Len(ivs)>>]

LowerBound(ivs, min) == Bound(ivs, {v \in Range(ivs) : v.start < min})
UpperBound(ivs, max) == Bound(ivs, {v \in Range(ivs) : v.start <= max})

\* commitsByRow: injected stashes are rows of the list and no commits.
CommitRows(visual, stashed) == {[start |-> visual[i], end |-> visual[i]] : i \in (1..row) \ stashed}

CommitsBetween(ivs, min, max) ==
  {ivs[i] : i \in (LowerBound(ivs, min) + 1)..UpperBound(ivs, max)}

-----------------------------------------------------------------------------
(* Properties.                                                               *)

\* The columns in use on the rows from first to last: those of the nodes there and,
\* for a line that crosses them, the columns it may run down.
ColumnsAt(visual, first, last) ==
  {lane[i] : i \in {j \in 1..row : visual[j] \in first..last}} \cup
  UNION {{e.lane, e.toLane} : e \in {d \in Edges : visual[d.from] <= last /\ visual[d.to] >= first}}

\* The marker of a stash outside the window stands right of every node and line
\* that crosses its rows, and no further right than that or its anchor asks.
MarkersStandClear ==
  Finished =>
    \A s \in 1..(row + 1), context \in 0..Context :
      LET visual == Visual(s, 1 + context)
          columns == ColumnsAt(visual, s, s + context)
      IN \A half \in {Halves(ListRows(1 + context))} :
         \A occupancy \in {LaneOccupancy(half, Spans(visual))} :
         \A anchor \in 1..row :
           LET marker == MarkerLane(occupancy, s, s + context, anchor)
           IN /\ \A c \in columns : c < marker
              /\ marker - 1 \in columns \cup {lane[anchor]}

\* Entries that may be injected stashes: one parent, and no child.
Stashable == {i \in 1..row : Len(parents[i]) = 1 /\ \A e \in Edges : e.to # i}

\* The index finds the edges that cross a viewport and the commits in it, all of
\* them and no other.
QueryIsExact ==
  Finished =>
    LET visual == Visual(row + 1, 0)
        ivs == {Interval(visual, e) : e \in Edges}
    IN /\ \A sorted \in {Sorted(ivs)}, min, max \in -1..(row + 1) :
            Query(sorted, min, max) = {v \in ivs : v.start <= max /\ v.end >= min}
       /\ \A stashed \in SUBSET Stashable :
            LET commits == CommitRows(visual, stashed)
            IN \A sorted \in {Sorted(commits)}, min, max \in -1..(row + 1) :
                 CommitsBetween(sorted, min, max) = {v \in commits : v.start \in min..max}
=============================================================================
