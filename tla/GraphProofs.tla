----------------------------- MODULE GraphProofs -----------------------------
(***************************************************************************)
(* Proofs about GraphLayout and GraphPaint, for windows of any size and any  *)
(* history: the columns of the layout first, then what the history view      *)
(* computes from them, in lists of any number of rows.                       *)
(*                                                                         *)
(* A recursive function is a CHOOSE, so that it satisfies its own equation    *)
(* has to be proved: RecursionDefines does it for any recursion along which  *)
(* a size decreases, and SizeInduction is the induction that goes with it.   *)
(***************************************************************************)
EXTENDS GraphPaint, FiniteSetTheorems, SequenceTheorems, WellFoundedInduction, TLAPS

LessThan == {ss \in Nat \X Nat : ss[1] < ss[2]}

\* The order of the columns is well founded on the naturals.
LEMMA LessThanWellFounded == IsWellFoundedOn(LessThan, Nat)
  BY NatLessThanWellFounded DEF LessThan, OpToRel

\* A set of columns that is not empty has a least one.
LEMMA LeastProperties ==
  ASSUME NEW S, S \subseteq Nat, S # {}
  PROVE  Least(S) \in S /\ \A k \in S : Least(S) <= k
<1>1. PICK x \in S : \A y \in S : ~ (<<y, x>> \in LessThan)
  BY WFMin, LessThanWellFounded, Zenon
<1>2. ASSUME NEW y \in S  PROVE x <= y
  <2>1. x \in Nat /\ y \in Nat
    OBVIOUS
  <2>2. ~ (y < x)
    <3>1. SUFFICES ASSUME y < x  PROVE <<y, x>> \in LessThan
      BY <1>1
    <3>2. <<y, x>> \in Nat \X Nat /\ <<y, x>>[1] < <<y, x>>[2]
      BY <2>1, <3>1
    <3> QED
      BY <3>2 DEF LessThan
  <2> QED
    BY <2>1, <2>2
<1> QED
  BY <1>2 DEF Least

-----------------------------------------------------------------------------
(* Recursion and maxima.                                                     *)

\* Induction on a size: what holds of all that is smaller than x holds of x too.
LEMMA SizeInduction ==
  ASSUME NEW S, NEW size \in [S -> Nat], NEW P,
         \A x \in S : (\A y \in S : size[y] < size[x] => y \in P) => x \in P
  PROVE  \A x \in S : x \in P
<1> DEFINE T == {size[x] : x \in S \ P}
<1>1. SUFFICES ASSUME T # {} PROVE FALSE
  OBVIOUS
<1>2. PICK n \in T : \A k \in T : n <= k
  <2>1. T \subseteq Nat
    OBVIOUS
  <2> HIDE DEF T
  <2> QED BY <1>1, <2>1, LeastProperties
<1>3. PICK x \in S \ P : size[x] = n
  OBVIOUS
<1>4. ASSUME NEW y \in S, size[y] < size[x] PROVE y \in P
  <2>1. ~(n <= size[y])
    BY <1>3, <1>4
  <2> QED BY <1>2, <2>1
<1> QED BY <1>3, <1>4

\* What G makes of a function at x looks at it only where the size is less than x's.
Descends(S, V, size, G) ==
  /\ V # {} /\ size \in [S -> Nat] /\ G \in [[S -> V] -> [S -> V]]
  /\ \A f, g \in [S -> V], x \in S :
       (\A y \in S : size[y] < size[x] => f[y] = g[y]) => G[f][x] = G[g][x]

\* Then G has a fixed point: the function that a recursive definition defines exists.
LEMMA RecursionDefines ==
  ASSUME NEW S, NEW V, NEW size, NEW G, Descends(S, V, size, G)
  PROVE  \E f \in [S -> V] : f = G[f]
<1> USE DEF Descends
<1> DEFINE Upto(n) == {f \in [S -> V] : \A x \in S : size[x] < n => f[x] = G[f][x]}
<1>1. \A n \in Nat : Upto(n) # {}
  <2> DEFINE T == {n \in Nat : Upto(n) = {}}
  <2> HIDE DEF Upto
  <2>1. SUFFICES ASSUME T # {} PROVE FALSE
    OBVIOUS
  <2>2. PICK n \in T : \A k \in T : n <= k
    <3>1. T \subseteq Nat
      OBVIOUS
    <3> HIDE DEF T
    <3> QED BY <2>1, <3>1, LeastProperties
  <2> USE DEF Upto
  <2>3. n # 0
    <3>1. PICK v \in V : TRUE
      OBVIOUS
    <3>2. [x \in S |-> v] \in Upto(0)
      OBVIOUS
    <3> QED BY <3>2, <2>2
  <2>4. PICK f \in Upto(n - 1) : TRUE
    <3>1. n - 1 \in Nat /\ n - 1 \notin T
      BY <2>2, <2>3
    <3> QED BY <3>1
  <2>5. G[f] \in Upto(n)
    <3>1. ASSUME NEW x \in S, size[x] < n PROVE G[f][x] = G[G[f]][x]
      <4>1. ASSUME NEW y \in S, size[y] < size[x] PROVE f[y] = G[f][y]
        <5>1. size[y] < n - 1
          BY <2>2, <3>1, <4>1
        <5> QED BY <5>1
      <4>2. G[f] \in [S -> V]
        OBVIOUS
      <4> QED BY <4>1, <4>2
    <3> QED BY <3>1
  <2> QED BY <2>2, <2>5
<1>2. ASSUME NEW n \in Nat, NEW f \in Upto(n), NEW g \in Upto(n), NEW x \in S, size[x] < n
      PROVE  f[x] = g[x]
  <2> DEFINE T == {size[y] : y \in {z \in S : size[z] < n /\ f[z] # g[z]}}
  <2>1. SUFFICES ASSUME T # {} PROVE FALSE
    BY <1>2
  <2>2. PICK k \in T : \A m \in T : k <= m
    <3>1. T \subseteq Nat
      OBVIOUS
    <3> HIDE DEF T
    <3> QED BY <2>1, <3>1, LeastProperties
  <2>3. PICK y \in S : size[y] = k /\ size[y] < n /\ f[y] # g[y]
    OBVIOUS
  <2>4. ASSUME NEW z \in S, size[z] < size[y] PROVE f[z] = g[z]
    <3>1. size[z] < n
      BY <2>3, <2>4
    <3>2. ~(k <= size[z])
      BY <2>3, <2>4
    <3> QED BY <2>2, <3>1, <3>2
  <2>5. f[y] = G[f][y] /\ g[y] = G[g][y]
    BY <2>3
  <2> QED BY <2>3, <2>4, <2>5
<1> DEFINE pick(n) == CHOOSE f \in Upto(n) : TRUE
           h == [x \in S |-> pick(size[x] + 1)[x]]
<1>3. \A n \in Nat : pick(n) \in Upto(n)
  <2> HIDE DEF Upto
  <2> QED BY <1>1
<1>4. \A n \in Nat : pick(n) \in [S -> V]
  <2> HIDE DEF pick
  <2> QED BY <1>3
<1> HIDE DEF pick
<1>5. h \in [S -> V]
  BY <1>4
<1>6. ASSUME NEW x \in S PROVE h[x] = G[h][x]
  <2> DEFINE f == pick(size[x] + 1)
  <2>1. f \in Upto(size[x] + 1) /\ f \in [S -> V]
    <3> HIDE DEF Upto
    <3> QED BY <1>3, <1>4
  <2>2. f[x] = G[f][x]
    <3> HIDE DEF f
    <3> QED BY <2>1
  <2>3. ASSUME NEW y \in S, size[y] < size[x] PROVE h[y] = f[y]
    <3>1. pick(size[y] + 1) \in Upto(size[y] + 1)
      <4> HIDE DEF Upto
      <4> QED BY <1>3
    <3>2. f \in Upto(size[y] + 1)
      <4> HIDE DEF f
      <4> QED BY <2>1, <2>3
    <3>3. size[y] + 1 \in Nat /\ size[y] < size[y] + 1
      OBVIOUS
    <3>4. h[y] = pick(size[y] + 1)[y]
      OBVIOUS
    <3> HIDE DEF Upto, h, f
    <3> QED BY <1>2, <3>1, <3>2, <3>3, <3>4
  <2>4. h[x] = f[x]
    OBVIOUS
  <2> HIDE DEF h, f
  <2> QED BY <1>5, <2>1, <2>2, <2>3, <2>4
<1> HIDE DEF h
<1> QED BY <1>5, <1>6

\* A bounded set of integers that is not empty has a greatest one.
LEMMA MaxProperties ==
  ASSUME NEW S, S \subseteq Int, S # {}, NEW b \in Int, \A x \in S : x <= b
  PROVE  Max(S) \in S /\ \A x \in S : Max(S) >= x
<1> DEFINE T == {b - x : x \in S}
<1>1. T \subseteq Nat /\ T # {}
  OBVIOUS
<1>2. PICK t \in T : \A k \in T : t <= k
  <2> HIDE DEF T
  <2> QED BY <1>1, LeastProperties
<1>3. PICK m \in S : t = b - m
  OBVIOUS
<1>4. \A x \in S : m >= x
  <2> TAKE x \in S
  <2>1. b - x \in T
    OBVIOUS
  <2>2. b - m <= b - x
    BY <1>2, <1>3, <2>1
  <2> HIDE DEF T
  <2> QED BY <2>2
<1> QED BY <1>3, <1>4 DEF Max

-----------------------------------------------------------------------------
(* The inductive invariant.                                                  *)

Slot == [waiting : 0..(Rows + Outside), kind : {"free", "cont", "root", "blocked"}]

\* Parents are older, each row has its column, a column that is not free waits
\* for a row to come, and only a second parent of the last row may be unreserved.
Shape ==
  /\ Len(parents) = row
  /\ \A i \in 1..row :
       /\ lane[i] \in Slots
       /\ Len(parents[i]) <= 2
       /\ \A k \in 1..Len(parents[i]) : parents[i][k] > i
  /\ \A l \in Slots : lanes[l] = Free \/ lanes[l].waiting > row
  /\ todo # <<>> =>
       row > 0 /\ Len(parents[row]) = 2 /\ todo = <<parents[row][2]>>

\* The column of a commit waits for its first parent until that comes.
Held ==
  \A i \in 1..row :
    parents[i] # <<>> /\ parents[i][1] > row => lanes[lane[i]].waiting = parents[i][1]

\* Until HEAD comes the first column awaits it, as a branch root if any does.
HeadAwaited ==
  head > row =>
    /\ 1 \in Awaiting(head)
    /\ RootsFor(head) # {} => 1 \in RootsFor(head)

\* Once reserved, the column that will render a merged commit has been free
\* since the lowest of its merges.
MergeAwaited ==
  \A p \in 1..(Rows + Outside) : \A i \in MergedBy(p) :
    /\ p > row /\ (\A k \in MergedBy(p) : k <= i)
    /\ todo = <<>> \/ todo # <<p>>
    => /\ RootsFor(p) # {}
       /\ \A j \in (i + 1)..row : lane[j] # Least(RootsFor(p))

IInv ==
  /\ TypeOK /\ Shape /\ Held /\ HeadAwaited /\ MergeAwaited
  /\ FirstParentLinesRunFree /\ HeadLeads /\ LastMergeLinesRunFree

-----------------------------------------------------------------------------
(* What the steps do to the columns.                                         *)

\* The lane allocated is free, or one past the last.
LEMMA AllocIsFree ==
  ASSUME TypeOK
  PROVE  /\ Alloc \in 1..(Len(lanes) + 1)
         /\ Alloc \in Slots => lanes[Alloc] = Free
<1>1. Len(lanes) \in Nat
  BY DEF TypeOK
<1>2. CASE Gaps = {}
  BY <1>1, <1>2 DEF Alloc, Slots
<1>3. CASE Gaps # {}
  <2>1. Gaps \subseteq Nat
    BY <1>1 DEF Gaps, Slots
  <2>2. Least(Gaps) \in Gaps
    BY <1>3, <2>1, LeastProperties
  <2> QED
    BY <1>1, <1>3, <2>2 DEF Alloc, Gaps, Slots
<1> QED
  BY <1>2, <1>3

\* The lanes that wait for an entry are columns.
LEMMA AwaitingIsNat ==
  ASSUME TypeOK, NEW p
  PROVE  Awaiting(p) \subseteq Nat /\ RootsFor(p) \subseteq Awaiting(p)
BY DEF TypeOK, Awaiting, RootsFor, Slots

\* The lane an entry claims is a new one, a free one or one that waits for it.
LEMMA ClaimedAwaits ==
  ASSUME TypeOK, NEW o
  PROVE  /\ Claimed(o) \in 1..(Len(lanes) + 1)
         /\ Claimed(o) \in Slots =>
              lanes[Claimed(o)] = Free \/ lanes[Claimed(o)].waiting = o
<1>1. CASE RootsFor(o) # {}
  <2>1. Least(RootsFor(o)) \in RootsFor(o)
    BY <1>1, AwaitingIsNat, LeastProperties
  <2>2. Claimed(o) \in RootsFor(o)
    BY <1>1, <2>1 DEF Claimed
  <2> QED
    BY <2>2 DEF RootsFor, Awaiting, Slots, TypeOK
<1>2. CASE RootsFor(o) = {} /\ Awaiting(o) # {}
  <2>1. Least(Awaiting(o)) \in Awaiting(o)
    BY <1>2, AwaitingIsNat, LeastProperties
  <2>2. Claimed(o) \in Awaiting(o)
    BY <1>2, <2>1 DEF Claimed
  <2> QED
    BY <2>2 DEF Awaiting, Slots, TypeOK
<1>3. CASE RootsFor(o) = {} /\ Awaiting(o) = {}
  BY <1>3, AllocIsFree DEF Claimed
<1> QED
  BY <1>1, <1>2, <1>3

\* What storing into a lane changes.
LEMMA PutPuts ==
  ASSUME TypeOK, NEW l \in 1..(Len(lanes) + 1), NEW what \in Slot
  PROVE  /\ Put(l, what) \in Seq(Slot)
         /\ Len(Put(l, what)) = IF l \in Slots THEN Len(lanes) ELSE Len(lanes) + 1
         /\ l \in 1..Len(Put(l, what)) /\ Put(l, what)[l] = what
         /\ \A k \in 1..Len(Put(l, what)) : k # l => k \in Slots /\ Put(l, what)[k] = lanes[k]
         /\ \A k \in Slots : k \in 1..Len(Put(l, what))
<1>1. lanes \in Seq(Slot) /\ Len(lanes) \in Nat
  BY DEF TypeOK, Slot
<1>2. CASE l = Len(lanes) + 1
  BY <1>1, <1>2 DEF Put, Slots
<1>3. CASE l # Len(lanes) + 1
  BY <1>1, <1>3 DEF Put, Slots
<1> QED
  BY <1>2, <1>3

\* The parents chosen for the next entry are typed and come after it.
LEMMA HistoryShape ==
  ASSUME TypeOK, NEW ps \in Histories
  PROVE  /\ ps \in Seq(1..(Rows + Outside)) /\ Len(ps) \in 0..2
         /\ \A k \in 1..Len(ps) : ps[k] > row + 1
         /\ ps # <<>> => 1 \in 1..Len(ps) /\ ps[1] \in 1..(Rows + Outside)
         /\ Len(ps) = 2 => ps[2] \in 1..(Rows + Outside)
         /\ ps # <<>> => Tail(ps) = IF Len(ps) = 2 THEN <<ps[2]>> ELSE <<>>
<1>1. Older \subseteq 1..(Rows + Outside) /\ row \in Nat /\ \A p \in Older : p > row + 1
  BY WindowAssumption DEF Older, TypeOK, row
<1>2. CASE ps = <<>>
  BY <1>2
<1>3. CASE \E p \in Older : ps = <<p>>
  BY <1>1, <1>3
<1>4. CASE \E p, q \in Older : ps = <<p, q>>
  BY <1>1, <1>4
<1> QED
  BY <1>2, <1>3, <1>4 DEF Histories

\* What the lane of an entry holds next: nothing, or its first parent, not as a root.
LEMMA OnwardIsSlot ==
  ASSUME TypeOK, NEW ps \in Histories, NEW o, NEW l
  PROVE  /\ Onward(o, l, ps) \in Slot /\ Onward(o, l, ps).kind # "root"
         /\ ps = <<>> => Onward(o, l, ps) = Free
         /\ ps # <<>> => Onward(o, l, ps).waiting = ps[1] /\ ps[1] > row + 1
<1>1. CASE ps = <<>>
  BY <1>1, WindowAssumption DEF Onward, Free, Slot
<1>2. CASE ps # <<>>
  <2>1. ps[1] \in 1..(Rows + Outside) /\ ps[1] > row + 1
    BY <1>2, HistoryShape
  <2>2. ps[1] \in 0..(Rows + Outside)
    BY <2>1, WindowAssumption
  <2>3. Onward(o, l, ps) \in {Blocked(ps[1]), Cont(ps[1])}
    BY <1>2 DEF Onward
  <2>4. /\ Blocked(ps[1]) \in Slot /\ Cont(ps[1]) \in Slot
        /\ Blocked(ps[1]).kind # "root" /\ Cont(ps[1]).kind # "root"
        /\ Blocked(ps[1]).waiting = ps[1] /\ Cont(ps[1]).waiting = ps[1]
    BY <2>2 DEF Blocked, Cont, Slot
  <2> QED
    BY <1>2, <2>1, <2>3, <2>4
<1> QED
  BY <1>1, <1>2

\* Laying an entry out moves its lane on, frees the others that waited for it and
\* keeps the rest.
LEMMA LaysColumns ==
  ASSUME TypeOK, NEW ps \in Histories, Lays(ps)
  PROVE  /\ lanes' \in Seq(Slot) /\ Len(lanes') \in Nat /\ Len(lanes) <= Len(lanes')
         /\ Claimed(row + 1) \in 1..Len(lanes')
         /\ lanes'[Claimed(row + 1)] = Onward(row + 1, Claimed(row + 1), ps)
         /\ \A k \in 1..Len(lanes') : k # Claimed(row + 1) =>
              /\ k \in Slots
              /\ lanes'[k] = IF lanes[k].waiting = row + 1 THEN Free ELSE lanes[k]
<1> DEFINE o == row + 1
           l == Claimed(o)
           what == Onward(o, l, ps)
           put == Put(l, what)
<1>1. l \in 1..(Len(lanes) + 1) /\ what \in Slot
  BY ClaimedAwaits, OnwardIsSlot
<1>2. /\ put \in Seq(Slot)
      /\ Len(put) = IF l \in Slots THEN Len(lanes) ELSE Len(lanes) + 1
      /\ l \in 1..Len(put)
      /\ \A k \in 1..Len(put) : k # l => k \in Slots
  BY <1>1, PutPuts
<1>3. lanes' = [k \in 1..Len(put) |->
                 IF k = l THEN what ELSE IF lanes[k].waiting = o THEN Free ELSE lanes[k]]
  BY DEF Lays, Released
<1> HIDE DEF put, what, l, o
<1>4. Len(put) \in Nat /\ lanes \in Seq(Slot) /\ Len(lanes) \in Nat /\ Free \in Slot
  BY <1>2, WindowAssumption DEF TypeOK, Slot, Free
<1>5. \A k \in 1..Len(put) :
        (IF k = l THEN what ELSE IF lanes[k].waiting = o THEN Free ELSE lanes[k]) \in Slot
  BY <1>1, <1>2, <1>4 DEF Slots
<1>6. lanes' \in Seq(Slot) /\ Len(lanes') = Len(put)
  BY <1>3, <1>4, <1>5
<1>7. Len(lanes) <= Len(put)
  BY <1>2, <1>4
<1>8. lanes'[l] = what /\ l \in 1..Len(lanes')
  BY <1>2, <1>3, <1>6
<1>9. \A k \in 1..Len(lanes') : k # l =>
        k \in Slots /\ lanes'[k] = IF lanes[k].waiting = o THEN Free ELSE lanes[k]
  BY <1>2, <1>3, <1>6
<1> QED
  BY <1>4, <1>6, <1>7, <1>8, <1>9 DEF l, o, what

\* Laying an entry out appends one row and keeps those above.
LEMMA LaysRows ==
  ASSUME TypeOK, Shape, NEW ps \in Histories, Lays(ps)
  PROVE  /\ row \in Nat /\ row < Rows /\ row' = row + 1 /\ head' = head /\ todo = <<>>
         /\ lane' \in Seq(Nat) /\ parents' \in Seq(Seq(1..(Rows + Outside)))
         /\ Len(parents') = row'
         /\ lane'[row + 1] = Claimed(row + 1) /\ parents'[row + 1] = ps
         /\ \A i \in 1..row : lane'[i] = lane[i] /\ parents'[i] = parents[i]
         /\ todo' = IF Len(ps) = 2 THEN <<ps[2]>> ELSE <<>>
<1>1. Claimed(row + 1) \in Nat
  BY ClaimedAwaits DEF TypeOK
<1>2. lane' = Append(lane, Claimed(row + 1)) /\ parents' = Append(parents, ps)
  BY DEF Lays
<1>3. lane \in Seq(Nat) /\ parents \in Seq(Seq(1..(Rows + Outside))) /\ Len(parents) = row
  BY DEF TypeOK, Shape
<1>4. ps \in Seq(1..(Rows + Outside)) /\ Len(ps) \in 0..2
      /\ (ps # <<>> => Tail(ps) = IF Len(ps) = 2 THEN <<ps[2]>> ELSE <<>>)
  BY HistoryShape
<1>5. row' = row + 1 /\ lane' \in Seq(Nat) /\ lane'[row + 1] = Claimed(row + 1)
      /\ (\A i \in 1..row : lane'[i] = lane[i]) /\ row \in Nat
  BY <1>1, <1>2, <1>3 DEF row
<1>6. /\ Len(parents') = row + 1 /\ parents' \in Seq(Seq(1..(Rows + Outside)))
      /\ parents'[row + 1] = ps /\ (\A i \in 1..row : parents'[i] = parents[i])
  BY <1>2, <1>3, <1>4, <1>5
<1>7. todo' = IF Len(ps) = 2 THEN <<ps[2]>> ELSE <<>>
  <2>1. CASE ps = <<>>
    BY <2>1 DEF Lays
  <2>2. CASE ps # <<>>
    BY <1>4, <2>2 DEF Lays
  <2> QED
    BY <2>1, <2>2
<1> QED
  BY <1>5, <1>6, <1>7 DEF Lays

\* What awaits a commit that comes later stays as it is.
LEMMA LaysKeeps ==
  ASSUME TypeOK, Shape, NEW ps \in Histories, Lays(ps)
  PROVE  /\ \A k \in Slots : lanes[k].waiting > row + 1 =>
              k # Claimed(row + 1) /\ k \in 1..Len(lanes') /\ lanes'[k] = lanes[k]
         /\ \A p \in 1..(Rows + Outside) : p > row + 1 => RootsFor(p)' = RootsFor(p)
<1>1. /\ Claimed(row + 1) \in 1..(Len(lanes) + 1)
      /\ Claimed(row + 1) \in Slots =>
           lanes[Claimed(row + 1)] = Free \/ lanes[Claimed(row + 1)].waiting = row + 1
  BY ClaimedAwaits
<1>2. row \in Nat /\ Len(lanes) \in Nat /\ lanes \in Seq(Slot)
  BY LaysRows DEF TypeOK, Slot
<1>3. /\ Len(lanes') \in Nat /\ Len(lanes) <= Len(lanes')
      /\ lanes'[Claimed(row + 1)] = Onward(row + 1, Claimed(row + 1), ps)
      /\ \A k \in 1..Len(lanes') : k # Claimed(row + 1) =>
           k \in Slots /\ lanes'[k] = IF lanes[k].waiting = row + 1 THEN Free ELSE lanes[k]
  BY LaysColumns
<1>4. Free.waiting = 0 /\ Free.kind = "free"
  BY DEF Free
<1>5. ASSUME NEW k \in Slots, lanes[k].waiting > row + 1
      PROVE  k # Claimed(row + 1) /\ k \in 1..Len(lanes') /\ lanes'[k] = lanes[k]
  <2>1. lanes[k].waiting \in Nat
    <3>1. lanes[k] \in Slot
      BY <1>2 DEF Slots
    <3> QED
      BY <3>1, WindowAssumption DEF Slot
  <2>2. k # Claimed(row + 1)
    BY <1>1, <1>2, <1>4, <1>5, <2>1
  <2>3. k \in 1..Len(lanes')
    BY <1>2, <1>3 DEF Slots
  <2> QED
    BY <1>2, <1>3, <1>5, <2>1, <2>2, <2>3
<1>6. ASSUME NEW p \in 1..(Rows + Outside), p > row + 1
      PROVE  RootsFor(p)' = RootsFor(p)
  <2>1. RootsFor(p) = {k \in Slots : lanes[k].waiting = p /\ lanes[k].kind = "root"}
    BY DEF RootsFor, Awaiting
  <2>2. RootsFor(p)' = {k \in 1..Len(lanes') : lanes'[k].waiting = p /\ lanes'[k].kind = "root"}
    BY DEF RootsFor, Awaiting, Slots
  <2>3. ASSUME NEW k \in RootsFor(p)  PROVE k \in RootsFor(p)'
    BY <1>5, <1>6, <2>1, <2>2, <2>3
  <2>4. ASSUME NEW k \in RootsFor(p)'  PROVE k \in RootsFor(p)
    <3>1. k \in 1..Len(lanes') /\ lanes'[k].waiting = p /\ lanes'[k].kind = "root"
      BY <2>2, <2>4
    <3>2. k # Claimed(row + 1)
      BY <1>3, <3>1, OnwardIsSlot
    <3>3. lanes'[k] # Free
      BY <1>4, <3>1
    <3> QED
      BY <1>3, <2>1, <3>1, <3>2, <3>3
  <2> QED
    BY <2>3, <2>4
<1> QED
  BY <1>5, <1>6

\* The entry laid out becomes a merge of its second parent, and of no other.
LEMMA LaysMerges ==
  ASSUME TypeOK, Shape, NEW ps \in Histories, Lays(ps), NEW p
  PROVE  /\ MergedBy(p) = MergedBy(p)' \ {row + 1}
         /\ row + 1 \in MergedBy(p)' => Len(ps) = 2 /\ p = ps[2] /\ p > row + 1
<1>1. /\ row \in Nat /\ row' = row + 1 /\ parents'[row + 1] = ps
      /\ \A i \in 1..row : parents'[i] = parents[i]
  BY LaysRows
<1>2. ps \in Seq(1..(Rows + Outside)) /\ Len(ps) \in 0..2 /\ \A k \in 1..Len(ps) : ps[k] > row + 1
  BY HistoryShape
<1>3. MergedBy(p)' = {i \in 1..(row + 1) : \E k \in 2..Len(parents'[i]) : parents'[i][k] = p}
  BY <1>1 DEF MergedBy
<1>4. MergedBy(p) = MergedBy(p)' \ {row + 1}
  BY <1>1, <1>3 DEF MergedBy
<1>5. ASSUME row + 1 \in MergedBy(p)'  PROVE Len(ps) = 2 /\ p = ps[2] /\ p > row + 1
  <2>1. PICK k \in 2..Len(ps) : ps[k] = p
    BY <1>1, <1>3, <1>5
  <2> QED
    BY <1>2, <2>1
<1> QED
  BY <1>4, <1>5

\* Reserving makes the lowest lane that waits for the merged parent, or a free or
\* new one, a root for it, and keeps the rest.
LEMMA ReservesColumns ==
  ASSUME TypeOK, Shape, Reserves
  PROVE  \E p \in 1..(Rows + Outside) : \E c \in 1..Len(lanes') :
           /\ todo = <<p>> /\ todo' = <<>> /\ row > 0 /\ Len(parents[row]) = 2 /\ parents[row][2] = p
           /\ lanes' \in Seq(Slot) /\ Len(lanes') \in Nat /\ Len(lanes) <= Len(lanes')
           /\ lanes'[c] = Root(p)
           /\ c \in Slots => lanes[c] = Free \/ lanes[c].waiting = p
           /\ Awaiting(p) # {} => c = Least(Awaiting(p))
           /\ \A k \in 1..Len(lanes') : k # c => k \in Slots /\ lanes'[k] = lanes[k]
<1> DEFINE p == parents[row][2]
<1>1. todo = <<p>> /\ row > 0 /\ Len(parents[row]) = 2 /\ todo' = <<>>
  BY DEF Reserves, Shape
<1>2. p \in 1..(Rows + Outside)
  BY <1>1 DEF TypeOK
<1>3. Root(p) \in Slot /\ lanes \in Seq(Slot) /\ Len(lanes) \in Nat
  BY <1>2 DEF Root, Slot, TypeOK
<1> DEFINE c == IF Awaiting(p) # {} THEN Least(Awaiting(p)) ELSE Alloc
<1>4. lanes' = IF Awaiting(p) # {} THEN [lanes EXCEPT ![Least(Awaiting(p))] = Root(p)]
                                   ELSE Put(Alloc, Root(p))
  BY <1>1 DEF Reserves
<1> HIDE DEF p
<1>5. /\ c \in 1..(Len(lanes) + 1) /\ lanes' = Put(c, Root(p))
      /\ c \in Slots => lanes[c] = Free \/ lanes[c].waiting = p
  <2>1. CASE Awaiting(p) # {}
    <3>1. c \in Awaiting(p)
      BY <2>1, AwaitingIsNat, LeastProperties
    <3>2. c \in Slots /\ lanes[c].waiting = p
      BY <3>1 DEF Awaiting
    <3>3. c # Len(lanes) + 1 /\ c \in 1..(Len(lanes) + 1)
      BY <1>3, <3>2 DEF Slots
    <3>4. lanes' = [lanes EXCEPT ![c] = Root(p)]
      BY <1>4, <2>1
    <3> QED
      BY <3>2, <3>3, <3>4 DEF Put
  <2>2. CASE Awaiting(p) = {}
    BY <1>4, <2>2, AllocIsFree
  <2> QED
    BY <2>1, <2>2
<1>6. Awaiting(p) # {} => c = Least(Awaiting(p))
  OBVIOUS
<1> HIDE DEF c
<1>7. /\ Put(c, Root(p)) \in Seq(Slot)
      /\ Len(Put(c, Root(p))) = IF c \in Slots THEN Len(lanes) ELSE Len(lanes) + 1
      /\ c \in 1..Len(Put(c, Root(p))) /\ Put(c, Root(p))[c] = Root(p)
      /\ \A k \in 1..Len(Put(c, Root(p))) :
           k # c => k \in Slots /\ Put(c, Root(p))[k] = lanes[k]
  <2>1. c \in 1..(Len(lanes) + 1)
    BY <1>5
  <2>2. Root(p) \in Slot
    BY <1>3
  <2> QED
    BY <2>1, <2>2, PutPuts, Zenon
<1>8. /\ lanes' \in Seq(Slot)
      /\ Len(lanes') = IF c \in Slots THEN Len(lanes) ELSE Len(lanes) + 1
      /\ c \in 1..Len(lanes') /\ lanes'[c] = Root(p)
      /\ \A k \in 1..Len(lanes') : k # c => k \in Slots /\ lanes'[k] = lanes[k]
  BY <1>5, <1>7
<1>9. Len(lanes') \in Nat /\ Len(lanes) <= Len(lanes')
  BY <1>3, <1>8
<1>10. parents[row][2] = p
  BY DEF p
<1> QED
  BY <1>1, <1>2, <1>5, <1>6, <1>8, <1>9, <1>10

-----------------------------------------------------------------------------
(* The steps preserve the invariant.                                         *)

\* Nothing is laid out yet, so nothing waits.
LEMMA InitHolds ==
  ASSUME Init
  PROVE  IInv
<1>1. row = 0 /\ lane = <<>> /\ parents = <<>> /\ todo = <<>>
  BY DEF Init, row
<1>2. head \in 0..(Rows + Outside) /\ head \in 0..Rows
  BY WindowAssumption DEF Init
<1>3. CASE head = 0
  <2>1. lanes = <<>>
    BY <1>3 DEF Init
  <2>2. TypeOK
    BY <1>1, <1>2, <2>1, WindowAssumption DEF TypeOK
  <2> QED
    BY <1>1, <1>3, <2>1, <2>2 DEF IInv, Shape, Held, HeadAwaited, MergeAwaited, MergedBy,
       FirstParentLinesRunFree, HeadLeads, LastMergeLinesRunFree, Slots
<1>4. CASE head # 0
  <2>1. lanes = <<Cont(head)>>
    BY <1>4 DEF Init
  <2>2. Cont(head) \in Slot /\ Cont(head).waiting = head /\ Cont(head).kind = "cont"
    BY <1>2 DEF Cont, Slot
  <2>3. lanes \in Seq(Slot) /\ Len(lanes) = 1 /\ lanes[1] = Cont(head)
    BY <2>1, <2>2
  <2>4. TypeOK
    BY <1>1, <1>2, <2>3, WindowAssumption DEF TypeOK, Slot
  <2>5. 1 \in Awaiting(head) /\ RootsFor(head) = {}
    BY <2>2, <2>3 DEF Awaiting, RootsFor, Slots
  <2>6. Shape
    BY <1>1, <1>2, <1>4, <2>2, <2>3 DEF Shape, Slots
  <2> QED
    BY <1>1, <1>2, <1>4, <2>4, <2>5, <2>6 DEF IInv, Held, HeadAwaited, MergeAwaited, MergedBy,
       FirstParentLinesRunFree, HeadLeads, LastMergeLinesRunFree
<1> QED
  BY <1>3, <1>4

\* Laying an entry out keeps the invariant.
LEMMA LaysPreserves ==
  ASSUME IInv, NEW ps \in Histories, Lays(ps)
  PROVE  IInv'
<1> DEFINE o == row + 1
           c == Claimed(o)
<1>0. TypeOK /\ Shape /\ Held /\ HeadAwaited /\ MergeAwaited
      /\ FirstParentLinesRunFree /\ HeadLeads /\ LastMergeLinesRunFree
  BY DEF IInv
<1>1. row \in Nat /\ row < Rows /\ row' = o /\ head' = head
  BY <1>0, LaysRows
<1>rows. /\ lane'[o] = c /\ parents'[o] = ps
         /\ \A i \in 1..row : lane'[i] = lane[i] /\ parents'[i] = parents[i]
  BY <1>0, LaysRows
<1>seqs. /\ lane' \in Seq(Nat) /\ parents' \in Seq(Seq(1..(Rows + Outside)))
         /\ Len(parents') = row'
  BY <1>0, LaysRows
<1>todo. todo = <<>> /\ todo' = IF Len(ps) = 2 THEN <<ps[2]>> ELSE <<>>
  BY <1>0, LaysRows
<1>2. /\ ps \in Seq(1..(Rows + Outside)) /\ Len(ps) \in 0..2
      /\ \A k \in 1..Len(ps) : ps[k] > o
      /\ ps # <<>> => 1 \in 1..Len(ps) /\ ps[1] \in 1..(Rows + Outside)
  BY <1>0, HistoryShape
<1>3. /\ lanes' \in Seq(Slot) /\ Len(lanes') \in Nat /\ Len(lanes) <= Len(lanes')
      /\ c \in 1..Len(lanes') /\ lanes'[c] = Onward(o, c, ps)
      /\ \A k \in 1..Len(lanes') : k # c =>
           k \in Slots /\ lanes'[k] = IF lanes[k].waiting = o THEN Free ELSE lanes[k]
  BY <1>0, LaysColumns
<1>4. /\ \A k \in Slots : lanes[k].waiting > o =>
           k # c /\ k \in 1..Len(lanes') /\ lanes'[k] = lanes[k]
      /\ \A p \in 1..(Rows + Outside) : p > o => RootsFor(p)' = RootsFor(p)
  BY <1>0, LaysKeeps
<1>5. \A p : /\ MergedBy(p) = MergedBy(p)' \ {o}
             /\ o \in MergedBy(p)' => Len(ps) = 2 /\ p = ps[2] /\ p > o
  BY <1>0, LaysMerges
<1>6. /\ Onward(o, c, ps) \in Slot
      /\ ps = <<>> => Onward(o, c, ps) = Free
      /\ ps # <<>> => Onward(o, c, ps).waiting = ps[1] /\ ps[1] > o
  BY <1>0, OnwardIsSlot
<1>7. Rows \in Nat /\ Outside \in Nat /\ Len(lanes) \in Nat /\ head \in Nat
  BY <1>0, WindowAssumption DEF TypeOK
<1>slots. /\ lanes \in Seq(Slot)
          /\ \A k \in Slots : lanes[k] \in Slot /\ lanes[k].waiting \in Nat
  <2>1. lanes \in Seq(Slot)
    BY <1>0 DEF TypeOK, Slot
  <2>2. \A k \in Slots : lanes[k] \in Slot
    BY <2>1 DEF Slots
  <2> QED
    BY <1>7, <2>1, <2>2 DEF Slot
<1>pars. Len(parents) = row /\ \A i \in 1..row : parents[i] \in Seq(Nat)
  <2>1. Len(parents) = row /\ \A i \in 1..row : parents[i] \in Seq(1..(Rows + Outside))
    BY <1>0 DEF TypeOK, Shape
  <2> QED
    BY <1>7, <2>1
<1>first. \A i \in 1..row : parents[i] # <<>> => parents[i][1] \in Nat
  BY <1>pars
<1> HIDE DEF c
<1>8. TypeOK'
  <2>1. todo' \in Seq(1..(Rows + Outside))
    <3>1. CASE Len(ps) = 2
      <4>1. ps[2] \in 1..(Rows + Outside)
        BY <1>0, <3>1, HistoryShape
      <4> QED
        BY <1>todo, <3>1, <4>1
    <3>2. CASE Len(ps) # 2
      BY <1>todo, <3>2
    <3> QED
      BY <3>1, <3>2
  <2> QED
    BY <1>0, <1>1, <1>3, <1>7, <1>seqs, <2>1 DEF TypeOK, Slot
<1>9. Shape'
  <2>1. ASSUME NEW i \in 1..o
        PROVE  /\ lane'[i] \in 1..Len(lanes')
               /\ Len(parents'[i]) <= 2
               /\ \A k \in 1..Len(parents'[i]) : parents'[i][k] > i
    <3>1. CASE i = o
      BY <1>2, <1>3, <1>rows, <3>1
    <3>2. CASE i # o
      <4>1. i \in 1..row
        BY <1>1, <3>2
      <4>2. /\ lane[i] \in Slots /\ Len(parents[i]) <= 2
            /\ \A k \in 1..Len(parents[i]) : parents[i][k] > i
        BY <1>0, <4>1 DEF Shape
      <4> QED
        BY <1>3, <1>7, <1>rows, <4>1, <4>2 DEF Slots
    <3> QED
      BY <3>1, <3>2
  <2>2. \A l \in 1..Len(lanes') : lanes'[l] = Free \/ lanes'[l].waiting > o
    <3>1. TAKE l \in 1..Len(lanes')
    <3>2. CASE l = c
      BY <1>3, <1>6, <3>2
    <3>3. CASE l # c
      <4>1. l \in Slots /\ lanes'[l] = IF lanes[l].waiting = o THEN Free ELSE lanes[l]
        BY <1>3, <3>3
      <4>2. lanes[l] = Free \/ lanes[l].waiting > row
        BY <1>0, <4>1 DEF Shape
      <4>3. lanes[l].waiting \in Nat
        BY <1>slots, <4>1
      <4> QED
        BY <1>1, <4>1, <4>2, <4>3
    <3> QED
      BY <3>2, <3>3
  <2>3. todo' # <<>> => o > 0 /\ Len(parents'[o]) = 2 /\ todo' = <<parents'[o][2]>>
    BY <1>1, <1>rows, <1>todo
  <2> QED
    BY <1>1, <1>seqs, <2>1, <2>2, <2>3 DEF Shape, Slots
<1>10. Held'
  <2>1. ASSUME NEW i \in 1..o, parents'[i] # <<>>, parents'[i][1] > o
        PROVE  lanes'[lane'[i]].waiting = parents'[i][1]
    <3>1. CASE i = o
      BY <1>3, <1>6, <1>rows, <2>1, <3>1
    <3>2. CASE i # o
      <4>1. i \in 1..row /\ parents'[i] = parents[i] /\ lane'[i] = lane[i]
        BY <1>1, <1>rows, <3>2
      <4>2. parents[i][1] > row
        BY <1>1, <1>first, <2>1, <4>1
      <4>3. lane[i] \in Slots /\ lanes[lane[i]].waiting = parents[i][1]
        BY <1>0, <2>1, <4>1, <4>2 DEF Held, Shape
      <4> QED
        BY <1>4, <2>1, <4>1, <4>3
    <3> QED
      BY <3>1, <3>2
  <2> QED
    BY <1>1, <2>1 DEF Held
<1>11. HeadAwaited'
  <2>1. SUFFICES ASSUME head > o
                 PROVE  1 \in Awaiting(head)' /\ (RootsFor(head)' # {} => 1 \in RootsFor(head)')
    BY <1>1 DEF HeadAwaited
  <2>2. 1 \in Awaiting(head) /\ (RootsFor(head) # {} => 1 \in RootsFor(head))
    BY <1>0, <1>1, <1>7, <2>1 DEF HeadAwaited
  <2>3. 1 \in Slots /\ lanes[1].waiting = head /\ lanes[1].kind \in {"cont", "root"}
    BY <2>2 DEF Awaiting
  <2>4. 1 \in 1..Len(lanes') /\ lanes'[1] = lanes[1]
    BY <1>4, <2>1, <2>3
  <2>5. head \in 1..(Rows + Outside)
    BY <1>0, <1>1, <1>7, <2>1 DEF TypeOK
  <2>6. RootsFor(head)' = RootsFor(head)
    <3>1. RootsFor(head)' = {k \in 1..Len(lanes') : lanes'[k].waiting = head' /\ lanes'[k].kind = "root"}
      BY DEF RootsFor, Awaiting, Slots
    <3> QED
      BY <1>1, <1>4, <2>1, <2>5, <3>1 DEF RootsFor, Awaiting, Slots
  <2>7. 1 \in Awaiting(head)'
    BY <1>1, <2>3, <2>4 DEF Awaiting, Slots
  <2> QED
    BY <2>2, <2>6, <2>7
<1>12. MergeAwaited'
  <2>1. SUFFICES ASSUME NEW p \in 1..(Rows + Outside), NEW i \in MergedBy(p)',
                        p > o, \A k \in MergedBy(p)' : k <= i,
                        todo' = <<>> \/ todo' # <<p>>
                 PROVE  /\ RootsFor(p)' # {}
                        /\ \A j \in (i + 1)..o : lane'[j] # Least(RootsFor(p)')
    BY <1>1 DEF MergeAwaited, Least
  <2>2. o \notin MergedBy(p)'
    BY <1>5, <1>todo, <2>1
  <2>3. MergedBy(p) = MergedBy(p)' /\ i \in MergedBy(p)
    BY <1>5, <2>1, <2>2
  <2>4. RootsFor(p) # {} /\ \A j \in (i + 1)..row : lane[j] # Least(RootsFor(p))
    BY <1>0, <1>1, <1>7, <1>todo, <2>1, <2>3 DEF MergeAwaited
  <2>5. Least(RootsFor(p)) \in RootsFor(p)
    BY <1>0, <2>4, AwaitingIsNat, LeastProperties
  <2>6. Least(RootsFor(p)) # c
    BY <1>4, <2>1, <2>5 DEF RootsFor, Awaiting
  <2>7. RootsFor(p)' = RootsFor(p) /\ i \in 1..row
    BY <1>4, <2>1, <2>3 DEF MergedBy
  <2>8. \A j \in (i + 1)..o : lane'[j] # Least(RootsFor(p))
    <3>1. TAKE j \in (i + 1)..o
    <3>2. CASE j = o
      BY <1>rows, <2>6, <3>2
    <3>3. CASE j # o
      <4>1. j \in (i + 1)..row /\ j \in 1..row
        BY <1>1, <2>7, <3>3
      <4> QED
        BY <1>rows, <2>4, <4>1
    <3> QED
      BY <3>2, <3>3
  <2> QED
    BY <2>4, <2>7, <2>8
<1>13. FirstParentLinesRunFree'
  <2>1. SUFFICES ASSUME NEW i \in 1..o, parents'[i] # <<>>, NEW j \in (i + 1)..o,
                        j < parents'[i][1]
                 PROVE  lane'[j] # lane'[i]
    BY <1>1 DEF FirstParentLinesRunFree
  <2>2. i \in 1..row
    BY <1>1, <2>1
  <2>3. parents'[i] = parents[i] /\ lane'[i] = lane[i]
    BY <1>rows, <2>2
  <2>4. CASE j = o
    <3>1. parents[i][1] > o /\ parents[i][1] > row
      BY <1>1, <1>first, <2>1, <2>2, <2>3, <2>4
    <3>2. lane[i] \in Slots /\ lanes[lane[i]].waiting = parents[i][1]
      BY <1>0, <2>1, <2>2, <2>3, <3>1 DEF Held, Shape
    <3> QED
      BY <1>4, <1>rows, <2>3, <2>4, <3>1, <3>2
  <2>5. CASE j # o
    <3>1. j \in 1..row /\ j \in (i + 1)..row
      BY <1>1, <2>1, <2>2, <2>5
    <3>2. lane'[j] = lane[j]
      BY <1>rows, <3>1
    <3> QED
      BY <1>0, <2>1, <2>2, <2>3, <3>1, <3>2 DEF FirstParentLinesRunFree
  <2> QED
    BY <2>4, <2>5
<1>14. HeadLeads'
  <2>1. SUFFICES ASSUME head # 0
                 PROVE  /\ \A i \in 1..o : i < head => lane'[i] # 1
                        /\ o >= head => lane'[head] = 1
    BY <1>1 DEF HeadLeads
  <2>2. (\A i \in 1..row : i < head => lane[i] # 1) /\ (row >= head => lane[head] = 1)
    BY <1>0, <2>1 DEF HeadLeads
  <2>3. CASE head > o
    <3>1. 1 \in Awaiting(head)
      BY <1>0, <1>1, <1>7, <2>3 DEF HeadAwaited
    <3>2. c # 1
      BY <1>4, <2>3, <3>1 DEF Awaiting
    <3>3. \A i \in 1..row : i < head => lane'[i] # 1
      BY <1>rows, <2>2
    <3> QED
      BY <1>1, <1>7, <1>rows, <2>3, <3>2, <3>3
  <2>4. CASE head = o
    <3>1. 1 \in Awaiting(o) /\ (RootsFor(o) # {} => 1 \in RootsFor(o))
      BY <1>0, <1>1, <1>7, <2>4 DEF HeadAwaited
    <3>2. Awaiting(o) \subseteq Nat /\ RootsFor(o) \subseteq Awaiting(o)
      BY <1>0, AwaitingIsNat
    <3>3. \A k \in Awaiting(o) : k >= 1
      BY <1>7 DEF Awaiting, Slots
    <3>4. c = 1
      <4>1. CASE RootsFor(o) # {}
        <5>1. Least(RootsFor(o)) \in RootsFor(o) /\ Least(RootsFor(o)) <= 1
          BY <3>1, <3>2, <4>1, LeastProperties
        <5>2. Least(RootsFor(o)) = 1
          BY <3>2, <3>3, <5>1
        <5> QED
          BY <4>1, <5>2 DEF c, Claimed
      <4>2. CASE RootsFor(o) = {}
        <5>1. Least(Awaiting(o)) \in Awaiting(o) /\ Least(Awaiting(o)) <= 1
          BY <3>1, <3>2, LeastProperties
        <5>2. Least(Awaiting(o)) = 1
          BY <3>2, <3>3, <5>1
        <5> QED
          BY <3>1, <4>2, <5>2 DEF c, Claimed
      <4> QED
        BY <4>1, <4>2
    <3>5. \A i \in 1..row : lane'[i] # 1
      BY <1>1, <1>rows, <2>2, <2>4
    <3> QED
      BY <1>1, <1>rows, <2>4, <3>4, <3>5
  <2>5. CASE head < o
    <3>1. head \in 1..row
      BY <1>1, <1>7, <2>1, <2>5
    <3> QED
      BY <1>1, <1>rows, <2>2, <2>5, <3>1
  <2> QED
    BY <1>1, <1>7, <2>3, <2>4, <2>5
<1>15. LastMergeLinesRunFree'
  <2>1. SUFFICES ASSUME NEW p \in 1..o, NEW i \in MergedBy(p)',
                        \A k \in MergedBy(p)' : k <= i,
                        NEW j \in (i + 1)..(p - 1)
                 PROVE  lane'[j] # lane'[p]
    BY <1>1 DEF LastMergeLinesRunFree
  <2>2. o \notin MergedBy(p)'
    BY <1>1, <1>5, <2>1
  <2>3. MergedBy(p) = MergedBy(p)' /\ i \in MergedBy(p)
    BY <1>5, <2>1, <2>2
  <2>4. i \in 1..row
    BY <2>3 DEF MergedBy
  <2>5. j \in 1..row /\ j \in (i + 1)..row
    BY <1>1, <2>1, <2>4
  <2>6. lane'[j] = lane[j]
    BY <1>rows, <2>5
  <2>7. CASE p = o
    <3>1. p \in 1..(Rows + Outside) /\ p > row
      BY <1>1, <1>7, <2>7
    <3>2. RootsFor(p) # {} /\ \A k \in (i + 1)..row : lane[k] # Least(RootsFor(p))
      BY <1>0, <1>todo, <2>1, <2>3, <3>1 DEF MergeAwaited
    <3>3. c = Least(RootsFor(p))
      BY <2>7, <3>2 DEF c, Claimed
    <3> QED
      BY <1>rows, <2>5, <2>6, <2>7, <3>2, <3>3
  <2>8. CASE p # o
    <3>1. p \in 1..row
      BY <1>1, <2>1, <2>8
    <3>2. lane[j] # lane[p]
      BY <1>0, <2>1, <2>3, <3>1 DEF LastMergeLinesRunFree
    <3> QED
      BY <1>rows, <2>6, <3>1, <3>2
  <2> QED
    BY <2>7, <2>8
<1> QED
  BY <1>8, <1>9, <1>10, <1>11, <1>12, <1>13, <1>14, <1>15 DEF IInv

\* Reserving the lane of a merged parent keeps the invariant.
LEMMA ReservesPreserves ==
  ASSUME IInv, Reserves
  PROVE  IInv'
<1>0. TypeOK /\ Shape /\ Held /\ HeadAwaited /\ MergeAwaited
      /\ FirstParentLinesRunFree /\ HeadLeads /\ LastMergeLinesRunFree
  BY DEF IInv
<1>1. PICK p \in 1..(Rows + Outside), c \in 1..Len(lanes') :
           /\ todo = <<p>> /\ todo' = <<>> /\ row > 0 /\ Len(parents[row]) = 2 /\ parents[row][2] = p
           /\ lanes' \in Seq(Slot) /\ Len(lanes') \in Nat /\ Len(lanes) <= Len(lanes')
           /\ lanes'[c] = Root(p)
           /\ c \in Slots => lanes[c] = Free \/ lanes[c].waiting = p
           /\ Awaiting(p) # {} => c = Least(Awaiting(p))
           /\ \A k \in 1..Len(lanes') : k # c => k \in Slots /\ lanes'[k] = lanes[k]
  BY <1>0, ReservesColumns
<1>2. lane' = lane /\ parents' = parents /\ head' = head /\ row' = row
  BY DEF Reserves, row
<1>3. /\ Rows \in Nat /\ Outside \in Nat /\ row \in Nat /\ Len(lanes) \in Nat
      /\ Len(parents) = row /\ head \in Nat
  BY <1>0, WindowAssumption DEF TypeOK, Shape, row
<1>4. Root(p).waiting = p /\ Root(p).kind = "root" /\ Free.waiting = 0 /\ Free.kind = "free"
  BY DEF Root, Free
<1>5. p \in Nat /\ p > row
  <2>1. row \in 1..row /\ 2 \in 1..Len(parents[row])
    BY <1>1, <1>3
  <2>2. parents[row][2] > row
    BY <1>0, <2>1 DEF Shape
  <2> QED
    BY <1>1, <1>3, <2>2
<1>6. Slots \subseteq 1..Len(lanes')
  BY <1>1, <1>3 DEF Slots
<1>7. \A k \in Slots : lanes'[k].waiting = lanes[k].waiting \/ (lanes[k] = Free /\ k = c)
  BY <1>1, <1>4, <1>6
<1>8. \A q \in Nat : q # p => Awaiting(q)' = Awaiting(q) /\ RootsFor(q)' = RootsFor(q)
  <2>1. ASSUME NEW q \in Nat, q # p, NEW k
        PROVE  /\ k \in Slots /\ lanes[k].waiting = q /\ lanes[k].kind \in {"cont", "root"}
                    => k \in 1..Len(lanes') /\ lanes'[k] = lanes[k]
               /\ k \in 1..Len(lanes') /\ lanes'[k].waiting = q
                    => k \in Slots /\ lanes'[k] = lanes[k]
    BY <1>1, <1>4, <1>6, <2>1
  <2> QED
    BY <2>1 DEF RootsFor, Awaiting, Slots
<1>9. c \in RootsFor(p)'
  BY <1>1, <1>4 DEF RootsFor, Awaiting, Slots
<1>10. TypeOK'
  BY <1>0, <1>1, <1>2 DEF TypeOK, Slot
<1>11. Shape'
  <2>1. \A i \in 1..row : /\ lane[i] \in 1..Len(lanes')
                          /\ Len(parents[i]) <= 2
                          /\ \A k \in 1..Len(parents[i]) : parents[i][k] > i
    BY <1>0, <1>6 DEF Shape
  <2>2. \A l \in 1..Len(lanes') : lanes'[l] = Free \/ lanes'[l].waiting > row
    BY <1>0, <1>1, <1>4, <1>5 DEF Shape
  <2> QED
    BY <1>1, <1>2, <1>3, <2>1, <2>2 DEF Shape, Slots
<1>12. Held'
  <2>1. ASSUME NEW i \in 1..row, parents[i] # <<>>, parents[i][1] > row
        PROVE  lanes'[lane[i]].waiting = parents[i][1]
    <3>1. lane[i] \in Slots /\ lanes[lane[i]].waiting = parents[i][1]
      BY <1>0, <2>1 DEF Held, Shape
    <3>2. lanes[lane[i]] # Free
      BY <1>3, <1>4, <2>1, <3>1
    <3> QED
      BY <1>7, <3>1, <3>2
  <2> QED
    BY <1>2, <2>1 DEF Held
<1>13. HeadAwaited'
  <2>1. SUFFICES ASSUME head > row
                 PROVE  1 \in Awaiting(head)' /\ (RootsFor(head)' # {} => 1 \in RootsFor(head)')
    BY <1>2 DEF HeadAwaited
  <2>2. 1 \in Awaiting(head) /\ (RootsFor(head) # {} => 1 \in RootsFor(head))
    BY <1>0, <2>1 DEF HeadAwaited
  <2>3. CASE head # p
    <3>1. Awaiting(head)' = Awaiting(head) /\ RootsFor(head)' = RootsFor(head)
      <4>1. \A k : /\ k \in Slots /\ lanes[k].waiting = head /\ lanes[k].kind \in {"cont", "root"}
                       => k \in 1..Len(lanes') /\ lanes'[k] = lanes[k]
                   /\ k \in 1..Len(lanes') /\ lanes'[k].waiting = head
                       => k \in Slots /\ lanes'[k] = lanes[k]
        BY <1>1, <1>3, <1>4, <1>6, <2>1, <2>3
      <4> QED
        BY <1>2, <4>1 DEF RootsFor, Awaiting, Slots
    <3> QED
      BY <2>2, <3>1
  <2>4. CASE head = p
    <3>1. Least(Awaiting(p)) = c /\ Awaiting(p) # {}
      BY <1>1, <2>2, <2>4
    <3>2. Awaiting(p) \subseteq Nat
      BY <1>0, AwaitingIsNat
    <3>3. c \in Awaiting(p) /\ c <= 1
      BY <2>2, <2>4, <3>1, <3>2, LeastProperties
    <3>4. c = 1
      BY <1>3, <3>3 DEF Awaiting, Slots
    <3>5. 1 \in RootsFor(head)'
      BY <1>1, <1>2, <1>4, <2>4, <3>4 DEF RootsFor, Awaiting, Slots
    <3> QED
      BY <3>5 DEF RootsFor
  <2> QED
    BY <2>3, <2>4
<1>14. MergeAwaited'
  <2>1. SUFFICES ASSUME NEW q \in 1..(Rows + Outside), NEW i \in MergedBy(q),
                        q > row, \A k \in MergedBy(q) : k <= i
                 PROVE  /\ RootsFor(q)' # {}
                        /\ \A j \in (i + 1)..row : lane[j] # Least(RootsFor(q)')
    BY <1>2 DEF MergeAwaited, MergedBy, Least
  <2>2. CASE q = p
    <3>1. row \in MergedBy(p)
      BY <1>1, <1>3 DEF MergedBy
    <3>2. i = row
      BY <1>3, <2>1, <2>2, <3>1 DEF MergedBy
    <3> QED
      BY <1>3, <1>9, <2>2, <3>2
  <2>3. CASE q # p
    <3>1. todo # <<q>>
      BY <1>1, <2>3
    <3>2. RootsFor(q) # {} /\ \A j \in (i + 1)..row : lane[j] # Least(RootsFor(q))
      BY <1>0, <2>1, <3>1 DEF MergeAwaited
    <3>3. RootsFor(q)' = RootsFor(q)
      BY <1>3, <1>8, <2>1, <2>3
    <3> QED
      BY <3>2, <3>3
  <2> QED
    BY <2>2, <2>3
<1>15. FirstParentLinesRunFree' /\ HeadLeads' /\ LastMergeLinesRunFree'
  BY <1>0, <1>2 DEF FirstParentLinesRunFree, HeadLeads, LastMergeLinesRunFree, MergedBy
<1> QED
  BY <1>10, <1>11, <1>12, <1>13, <1>14, <1>15 DEF IInv

\* A stuttering step keeps the invariant.
LEMMA StutterPreserves ==
  ASSUME IInv, UNCHANGED vars
  PROVE  IInv'
<1>1. /\ head' = head /\ lanes' = lanes /\ lane' = lane /\ parents' = parents
      /\ todo' = todo /\ row' = row /\ Slots' = Slots
  BY DEF vars, row, Slots
<1>2. TypeOK' /\ Shape' /\ Held'
  BY <1>1 DEF IInv, TypeOK, Shape, Held
<1>3. HeadAwaited' /\ MergeAwaited'
  BY <1>1 DEF IInv, HeadAwaited, MergeAwaited, MergedBy, Least, Awaiting, RootsFor
<1>4. FirstParentLinesRunFree' /\ HeadLeads' /\ LastMergeLinesRunFree'
  BY <1>1 DEF IInv, FirstParentLinesRunFree, HeadLeads, LastMergeLinesRunFree, MergedBy
<1> QED
  BY <1>2, <1>3, <1>4 DEF IInv

-----------------------------------------------------------------------------
(* Theorems.                                                                 *)

\* The invariant holds throughout the layout.
LEMMA Inductive == Spec => []IInv
<1>1. ASSUME IInv, [Next]_vars  PROVE IInv'
  BY <1>1, LaysPreserves, ReservesPreserves, StutterPreserves DEF Next
<1> QED
  BY InitHolds, <1>1, PTL DEF Spec

\* Nothing is laid out across the line from a commit to its first parent
\* (build.rs, the onward reservation), whatever the history and the window.
THEOREM FirstParentLinesAreFree == Spec => []FirstParentLinesRunFree
BY Inductive, PTL DEF IInv

\* HEAD takes the first column, and no row above it does (build.rs, head_target).
THEOREM HeadIsFirst == Spec => []HeadLeads
BY Inductive, PTL DEF IInv

\* The promotion of an awaited lane keeps the line of the lowest merge free
\* (build.rs, the merge parents).
THEOREM LastMergeLinesAreFree == Spec => []LastMergeLinesRunFree
BY Inductive, PTL DEF IInv

\* Columns, rows and parents keep their shape.
THEOREM LayoutIsTyped == Spec => []TypeOK
BY Inductive, PTL DEF IInv

-----------------------------------------------------------------------------
(* The tree of buildLaneOccupancy.                                           *)

Rowses == [left : Int, right : Int]

\* The rows of a node are half of its parent's.
Halving(half, count) ==
  /\ half \in [Heap(count) -> Rowses]
  /\ half[1] = [left |-> 0, right |-> count - 1]
  /\ \A n \in Heap(count) \ {1} :
       LET up == half[n \div 2]
           middle == Middle(up.left, up.right)
       IN half[n] = IF n % 2 = 0 THEN [left |-> up.left, right |-> middle]
                    ELSE [left |-> middle + 1, right |-> up.right]

\* The parent of every other node than the root is in the array too.
LEMMA ParentInHeap ==
  ASSUME NEW count \in Nat \ {0}
  PROVE  /\ 1 \in Heap(count) /\ Heap(count) \subseteq Nat
         /\ \A n \in Heap(count) \ {1} : n \div 2 \in Heap(count) /\ n \div 2 < n
BY DEF Heap

\* Halves computes such a tree.
LEMMA HalvesEquation ==
  ASSUME NEW count \in Nat \ {0}
  PROVE  Halving(Halves(count), count)
<1> DEFINE H == Heap(count)
           size == [n \in H |-> n]
           step(f) == [n \in H |->
             IF n = 1 THEN [left |-> 0, right |-> count - 1]
             ELSE LET up == f[n \div 2]
                      middle == Middle(up.left, up.right)
                  IN IF n % 2 = 0 THEN [left |-> up.left, right |-> middle]
                     ELSE [left |-> middle + 1, right |-> up.right]]
           G == [f \in [H -> Rowses] |-> step(f)]
<1>1. size \in [H -> Nat]
  BY ParentInHeap
<1>2. \A f \in [H -> Rowses] : step(f) \in [H -> Rowses]
  <2> TAKE f \in [H -> Rowses]
  <2> SUFFICES ASSUME NEW n \in H PROVE step(f)[n] \in Rowses
    OBVIOUS
  <2>1. n # 1 => f[n \div 2] \in Rowses
    BY ParentInHeap
  <2>2. \A u \in Rowses : Middle(u.left, u.right) \in Int
    BY DEF Rowses, Middle
  <2> QED BY <2>1, <2>2 DEF Rowses
<1>3. G \in [[H -> Rowses] -> [H -> Rowses]]
  <2> HIDE DEF step
  <2> QED BY <1>2
<1>4. ASSUME NEW f \in [H -> Rowses], NEW g \in [H -> Rowses], NEW n \in H,
             \A m \in H : size[m] < size[n] => f[m] = g[m]
      PROVE  G[f][n] = G[g][n]
  <2>1. n # 1 => f[n \div 2] = g[n \div 2]
    BY <1>4, ParentInHeap
  <2> QED BY <2>1
<1>5. Rowses # {}
  <2>1. [left |-> 0, right |-> 0] \in Rowses
    BY DEF Rowses
  <2> QED BY <2>1
<1>6. \E f \in [H -> Rowses] : f = G[f]
  <2>1. \A f, g \in [H -> Rowses], n \in H :
          (\A m \in H : size[m] < size[n] => f[m] = g[m]) => G[f][n] = G[g][n]
    <3> HIDE DEF G, size, H
    <3> QED BY <1>4
  <2> HIDE DEF G, size, H
  <2>2. Descends(H, Rowses, size, G)
    BY <1>1, <1>3, <1>5, <2>1 DEF Descends
  <2> QED BY <2>2, RecursionDefines
<1>7. \E f : f = step(f)
  BY <1>6
<1> DEFINE half == CHOOSE f : f = step(f)
<1>8. Halves(count) = [n \in H |-> half[n]]
  BY DEF Halves
<1>9. half = step(half)
  <2> HIDE DEF step
  <2> QED BY <1>7
<1> HIDE DEF half
<1>10. Halves(count) = half
  BY <1>8, <1>9
<1>11. half \in [H -> Rowses]
  <2> DEFINE Good == {n \in H : half[n] \in Rowses}
  <2>1. ASSUME NEW n \in H, \A m \in H : size[m] < size[n] => m \in Good PROVE n \in Good
    <3>1. n # 1 => half[n \div 2] \in Rowses
      BY <2>1, ParentInHeap
    <3>2. \A u \in Rowses : Middle(u.left, u.right) \in Int
      BY DEF Rowses, Middle
    <3> QED BY <1>9, <3>1, <3>2 DEF Rowses
  <2>2. \A n \in H : n \in Good
    <3> HIDE DEF Good, size, H
    <3> QED BY <1>1, <2>1, SizeInduction
  <2> QED BY <1>9, <2>2
<1> QED BY <1>9, <1>10, <1>11, ParentInHeap DEF Halving

\* The rows of a node that is no root are not empty, and lie in those of its parent,
\* which is a node too: only a leaf has a single row, and it has no children.
LEMMA NodeRows ==
  ASSUME NEW count \in Nat \ {0}, NEW half, Halving(half, count),
         NEW n \in Heap(count), IsNode(half, n), n # 1
  PROVE  LET up == half[n \div 2]
         IN /\ n \div 2 \in Heap(count) /\ IsNode(half, n \div 2)
            /\ up.left <= half[n].left /\ half[n].left <= half[n].right
            /\ half[n].right <= up.right
<1> DEFINE m == n \div 2
<1>1. m \in Heap(count) /\ half[n] \in Rowses /\ half[m] \in Rowses
  BY ParentInHeap DEF Halving
<1>2. half[m].left < half[m].right
  BY DEF IsNode
<1>3. CASE m = 1
  BY <1>1, <1>2, <1>3 DEF Halving, Middle, IsNode, Rowses
<1>4. CASE m # 1
  <2>1. half[m \div 2] \in Rowses
    BY <1>1, <1>4, ParentInHeap DEF Halving
  <2>2. half[m \div 2].left < half[m \div 2].right
    BY <1>1, <1>2, <1>4, <2>1 DEF Halving, Middle, Rowses
  <2> QED BY <1>1, <1>2, <2>1, <2>2 DEF Halving, Middle, IsNode, Rowses
<1> QED BY <1>3, <1>4

\* What the nodes of the tree have in common: their rows are rows of the list, and
\* the nodes of one depth come from P on, their rows halved as often as P is doubled.
LEMMA NodesFit ==
  ASSUME NEW count \in Nat \ {0}, NEW half, Halving(half, count)
  PROVE  \A n \in Heap(count) : IsNode(half, n) =>
           /\ 0 <= half[n].left /\ half[n].left <= half[n].right /\ half[n].right < count
           /\ \E P \in Nat \ {0} : /\ P <= n /\ n < 2 * P
                                   /\ (half[n].right - half[n].left) * P <= count - 1
<1> DEFINE H == Heap(count)
           size == [n \in H |-> n]
           Fits(n) == 
             /\ 0 <= half[n].left /\ half[n].left <= half[n].right /\ half[n].right < count
             /\ \E P \in Nat \ {0} : /\ P <= n /\ n < 2 * P
                                     /\ (half[n].right - half[n].left) * P <= count - 1
           Good == {n \in H : IsNode(half, n) => Fits(n)}
<1>1. size \in [H -> Nat]
  BY ParentInHeap
<1>2. ASSUME NEW n \in H, \A m \in H : size[m] < size[n] => m \in Good PROVE n \in Good
  <2>1. CASE n = 1
    <3>1. half[1] = [left |-> 0, right |-> count - 1]
      BY DEF Halving
    <3>2. (half[1].right - half[1].left) * 1 <= count - 1
      BY <3>1
    <3>3. 1 \in Nat \ {0} /\ 1 <= 1 /\ 1 < 2 * 1
      OBVIOUS
    <3>4. Fits(1)
      BY <3>1, <3>2, <3>3
    <3> QED BY <2>1, <3>4
  <2>2. CASE n # 1 /\ IsNode(half, n)
    <3> DEFINE m == n \div 2
    <3>1. m \in H /\ IsNode(half, m) /\ m < n
      BY <2>2, NodeRows, ParentInHeap
    <3>2. Fits(m)
      BY <1>2, <3>1
    <3>3. PICK P \in Nat \ {0} : /\ P <= m /\ m < 2 * P
                                 /\ (half[m].right - half[m].left) * P <= count - 1
      BY <3>2
    <3>4. half[n] \in Rowses /\ half[m] \in Rowses /\ half[m].left < half[m].right
      BY <2>2, <3>1 DEF Halving, IsNode
    <3>5. 2 * P <= n /\ n < 2 * (2 * P) /\ 2 * P \in Nat \ {0}
      <4>1. n \in Nat /\ m \in Nat /\ 2 * m <= n /\ n <= 2 * m + 1
        BY ParentInHeap, <3>1
      <4> HIDE DEF m
      <4> QED BY <3>3, <4>1
    <3>6. (half[n].right - half[n].left) * (2 * P) <= count - 1
      <4> DEFINE w == half[n].right - half[n].left
                 v == half[m].right - half[m].left
      <4>1. w \in Int /\ v \in Int /\ 2 * w <= v
        BY <2>2, <3>4 DEF Halving, Middle, Rowses
      <4>2. v * P <= count - 1
        BY <3>3
      <4> HIDE DEF w, v
      <4>3. (2 * w) * P <= v * P
        BY <4>1
      <4>4. w * (2 * P) = (2 * w) * P
        BY <4>1
      <4>5. v * P \in Int /\ w * (2 * P) \in Int
        BY <4>1
      <4>6. w * (2 * P) <= count - 1
        BY <4>2, <4>3, <4>4, <4>5
      <4> QED BY <4>6 DEF w
    <3>7. 0 <= half[n].left /\ half[n].left <= half[n].right /\ half[n].right < count
      BY <2>2, <3>2, <3>4, NodeRows DEF Rowses
    <3>8. Fits(n)
      BY <3>5, <3>6, <3>7
    <3> QED BY <3>8
  <2> QED BY <2>1, <2>2
<1>3. \A n \in H : n \in Good
  <2> HIDE DEF Good, H, size
  <2> QED BY <1>1, <1>2, SizeInduction
<1> QED BY <1>3

\* The array has room for the tree: the children of a node that has any are in it.
LEMMA TreeFits ==
  ASSUME NEW count \in Nat \ {0}, NEW half, Halving(half, count),
         NEW n \in Heap(count), IsNode(half, n), half[n].left < half[n].right
  PROVE  2 * n \in Heap(count) /\ 2 * n + 1 \in Heap(count)
<1>1. PICK P \in Nat \ {0} : /\ P <= n /\ n < 2 * P
                             /\ (half[n].right - half[n].left) * P <= count - 1
  BY NodesFit
<1> DEFINE w == half[n].right - half[n].left
<1>2. w \in Nat \ {0} /\ n \in Nat
  BY ParentInHeap DEF Halving, Rowses
<1>3. w * P <= count - 1
  BY <1>1
<1> HIDE DEF w
<1>4. P <= w * P /\ w * P \in Nat
  BY <1>2
<1>5. P <= count - 1
  BY <1>3, <1>4
<1>6. n < 2 * P
  BY <1>1
<1> QED BY <1>2, <1>5, <1>6 DEF Heap

\* Spans of the list, in columns up to the top one.
Spanning(count, top) ==
  {s \in [first : 0..(count - 1), last : 0..(count - 1), lane : 0..top] : s.first <= s.last}

\* update calls itself from the root on: a node if its parent is called, is not within
\* the span, and the span reaches into the node's half.
LEMMA CalledEquation ==
  ASSUME NEW count \in Nat \ {0}, NEW half, Halving(half, count), NEW s
  PROVE  /\ Called(half, s)[1]
         /\ \A n \in Heap(count) \ {1} :
              LET up == half[n \div 2]
                  middle == Middle(up.left, up.right)
              IN Called(half, s)[n] <=>
                   /\ Called(half, s)[n \div 2] /\ ~Within(up, s)
                   /\ IF n % 2 = 0 THEN s.first <= middle ELSE s.last > middle
<1> DEFINE H == Heap(count)
           size == [n \in H |-> n]
           Goes(n) == LET up == half[n \div 2]
                          middle == Middle(up.left, up.right)
                      IN ~Within(up, s) /\ IF n % 2 = 0 THEN s.first <= middle ELSE s.last > middle
           step(f) == [n \in H |-> IF n = 1 THEN TRUE ELSE f[n \div 2] /\ Goes(n)]
           G == [f \in [H -> BOOLEAN] |-> step(f)]
<1>1. size \in [H -> Nat] /\ 1 \in H
  BY ParentInHeap
<1>2. \A f \in [H -> BOOLEAN] : step(f) \in [H -> BOOLEAN]
  OBVIOUS
<1>3. G \in [[H -> BOOLEAN] -> [H -> BOOLEAN]]
  <2> HIDE DEF step
  <2> QED BY <1>2
<1>4. ASSUME NEW f \in [H -> BOOLEAN], NEW g \in [H -> BOOLEAN], NEW n \in H,
             \A m \in H : size[m] < size[n] => f[m] = g[m]
      PROVE  G[f][n] = G[g][n]
  <2>1. n # 1 => f[n \div 2] = g[n \div 2]
    BY <1>4, ParentInHeap
  <2> HIDE DEF Goes
  <2> QED BY <2>1
<1>5. \A f, g \in [H -> BOOLEAN], n \in H :
        (\A m \in H : size[m] < size[n] => f[m] = g[m]) => G[f][n] = G[g][n]
  <2> HIDE DEF G, size, H
  <2> QED BY <1>4
<1>6. \E f : f = step(f)
  <2>1. \E f \in [H -> BOOLEAN] : f = G[f]
    <3> HIDE DEF G, size, H
    <3>1. Descends(H, BOOLEAN, size, G)
      BY <1>1, <1>3, <1>5 DEF Descends
    <3> QED BY <3>1, RecursionDefines
  <2> QED BY <2>1
<1> DEFINE called == CHOOSE f : f = step(f)
<1>7. called = step(called)
  <2> HIDE DEF step
  <2> QED BY <1>6
<1>8. Called(half, s) = called
  <2>1. DOMAIN half = H
    BY DEF Halving
  <2> QED BY <2>1 DEF Called
<1> HIDE DEF called
<1>9. called[1]
  BY <1>1, <1>7
<1>10. ASSUME NEW n \in H \ {1} PROVE called[n] <=> called[n \div 2] /\ Goes(n)
  <2> HIDE DEF Goes
  <2> QED BY <1>7
<1> QED BY <1>8, <1>9, <1>10

\* materialize carries the larger lane down.
LEMMA MaterializedEquation ==
  ASSUME NEW count \in Nat \ {0}, NEW tree \in [Heap(count) -> Int]
  PROVE  LET value == Materialized(tree)
         IN /\ value \in [Heap(count) -> Int]
            /\ value[1] = Larger(-1, tree[1])
            /\ \A n \in Heap(count) \ {1} : value[n] = Larger(value[n \div 2], tree[n])
<1> DEFINE H == Heap(count)
           size == [n \in H |-> n]
           step(f) == [n \in H |-> Larger(IF n = 1 THEN -1 ELSE f[n \div 2], tree[n])]
           G == [f \in [H -> Int] |-> step(f)]
<1>1. size \in [H -> Nat] /\ 1 \in H
  BY ParentInHeap
<1>2. \A f \in [H -> Int] : step(f) \in [H -> Int]
  BY ParentInHeap DEF Larger
<1>3. G \in [[H -> Int] -> [H -> Int]]
  <2> HIDE DEF step
  <2> QED BY <1>2
<1>4. ASSUME NEW f \in [H -> Int], NEW g \in [H -> Int], NEW n \in H,
             \A m \in H : size[m] < size[n] => f[m] = g[m]
      PROVE  G[f][n] = G[g][n]
  <2>1. n # 1 => f[n \div 2] = g[n \div 2]
    BY <1>4, ParentInHeap
  <2> QED BY <2>1
<1>5. \A f, g \in [H -> Int], n \in H :
        (\A m \in H : size[m] < size[n] => f[m] = g[m]) => G[f][n] = G[g][n]
  <2> HIDE DEF G, size, H
  <2> QED BY <1>4
<1>6. \E f : f = step(f)
  <2>1. \E f \in [H -> Int] : f = G[f]
    <3>0. Int # {}
      OBVIOUS
    <3> HIDE DEF G, size, H
    <3>1. Descends(H, Int, size, G)
      BY <1>1, <1>3, <1>5, <3>0 DEF Descends
    <3> QED BY <3>1, RecursionDefines
  <2> QED BY <2>1
<1> DEFINE value == CHOOSE f : f = step(f)
<1>7. value = step(value)
  <2> HIDE DEF step
  <2> QED BY <1>6
<1>8. Materialized(tree) = value
  BY DEF Materialized
<1> HIDE DEF value
<1>9. value \in [H -> Int]
  <2> DEFINE Good == {n \in H : value[n] \in Int}
  <2>1. ASSUME NEW n \in H, \A m \in H : size[m] < size[n] => m \in Good PROVE n \in Good
    <3>1. n # 1 => value[n \div 2] \in Int
      BY <2>1, ParentInHeap
    <3> QED BY <1>7, <3>1 DEF Larger
  <2>2. \A n \in H : n \in Good
    <3> HIDE DEF Good, size, H
    <3> QED BY <1>1, <2>1, SizeInduction
  <2> QED BY <1>7, <2>2
<1> QED BY <1>1, <1>7, <1>8, <1>9

\* A node of the tree holds the largest lane of the spans that raise it.
LEMMA UpdatedProperties ==
  ASSUME NEW count \in Nat \ {0}, NEW half, Halving(half, count),
         NEW top \in Nat, NEW spans, spans \subseteq Spanning(count, top)
  PROVE  /\ Updated(half, spans) \in [Heap(count) -> Int]
         /\ \A n \in Heap(count) :
              /\ \A s \in spans : Raises(half, s, n) => Updated(half, spans)[n] >= s.lane
              /\ \/ Updated(half, spans)[n] = -1
                 \/ \E s \in spans : Raises(half, s, n) /\ Updated(half, spans)[n] = s.lane
<1> DEFINE Lanes(n) == {-1} \cup {s.lane : s \in {t \in spans : Raises(half, t, n)}}
<1>1. ASSUME NEW n \in Heap(count)
      PROVE  Max(Lanes(n)) \in Lanes(n) /\ \A x \in Lanes(n) : Max(Lanes(n)) >= x
  <2>1. Lanes(n) \subseteq Int /\ Lanes(n) # {} /\ \A x \in Lanes(n) : x <= top
    BY DEF Spanning
  <2> HIDE DEF Lanes
  <2> QED BY <2>1, MaxProperties
<1>2. \A n \in Heap(count) : Lanes(n) \subseteq Int
  BY DEF Spanning
<1>3. Updated(half, spans) = [n \in Heap(count) |-> Max(Lanes(n))]
  BY DEF Updated, Halving
<1>4. \A n \in Heap(count) : Max(Lanes(n)) \in Int
  <2> HIDE DEF Lanes
  <2> QED BY <1>1, <1>2
<1>5. ASSUME NEW n \in Heap(count)
      PROVE  /\ \A s \in spans : Raises(half, s, n) => Max(Lanes(n)) >= s.lane
             /\ Max(Lanes(n)) = -1 \/ \E s \in spans : Raises(half, s, n) /\ Max(Lanes(n)) = s.lane
  <2>1. \A s \in spans : Raises(half, s, n) => s.lane \in Lanes(n)
    OBVIOUS
  <2>2. \A x \in Lanes(n) : x = -1 \/ \E s \in spans : Raises(half, s, n) /\ x = s.lane
    OBVIOUS
  <2> HIDE DEF Lanes
  <2> QED BY <1>1, <2>1, <2>2
<1> HIDE DEF Lanes
<1> QED BY <1>3, <1>4, <1>5

\* Every row of the list has a leaf.
LEMMA LeafExists ==
  ASSUME NEW count \in Nat \ {0}, NEW half, Halving(half, count), NEW r \in 0..(count - 1)
  PROVE  \E n \in Heap(count) : half[n] = [left |-> r, right |-> r] /\ IsNode(half, n)
<1> DEFINE Above == {n \in Heap(count) : IsNode(half, n) /\ half[n].left <= r /\ r <= half[n].right}
           T == {half[n].right - half[n].left : n \in Above}
<1>1. \A n \in Heap(count) : half[n] \in Rowses
  BY DEF Halving
<1>2. T \subseteq Nat
  BY <1>1 DEF Rowses
<1>3. T # {}
  <2>1. 1 \in Above
    BY ParentInHeap DEF Halving, IsNode
  <2> QED BY <2>1
<1>4. PICK w \in T : \A v \in T : w <= v
  <2> HIDE DEF T
  <2> QED BY <1>2, <1>3, LeastProperties
<1>5. PICK n \in Above : w = half[n].right - half[n].left
  OBVIOUS
<1>6. half[n] \in Rowses /\ n \in Nat \ {0} /\ n \in Heap(count)
  BY <1>1, ParentInHeap DEF Heap
<1>7. ASSUME half[n].left < half[n].right PROVE FALSE
  <2>1. 2 * n \in Heap(count) \ {1} /\ 2 * n + 1 \in Heap(count) \ {1}
    BY <1>6, <1>7, TreeFits
  <2>2. /\ (2 * n) \div 2 = n /\ (2 * n + 1) \div 2 = n
        /\ (2 * n) % 2 = 0 /\ (2 * n + 1) % 2 = 1
    BY <1>6
  <2>3. IsNode(half, 2 * n) /\ IsNode(half, 2 * n + 1)
    BY <1>7, <2>2 DEF IsNode
  <2> DEFINE middle == Middle(half[n].left, half[n].right)
  <2>4. half[2 * n] = [left |-> half[n].left, right |-> middle]
    BY <2>1, <2>2 DEF Halving
  <2>5. half[2 * n + 1] = [left |-> middle + 1, right |-> half[n].right]
    BY <2>1, <2>2 DEF Halving
  <2>6. /\ middle \in Int /\ half[n].left <= middle /\ middle < half[n].right
        /\ half[n].left \in Int /\ half[n].right \in Int
    BY <1>6, <1>7 DEF Middle, Rowses
  <2> HIDE DEF middle
  <2>7. CASE r <= middle
    <3>1. 2 * n \in Above
      BY <2>1, <2>3, <2>4, <2>7, <1>5
    <3>2. middle - half[n].left \in T
      BY <3>1, <2>4
    <3>3. w <= middle - half[n].left
      BY <1>4, <3>2
    <3> QED BY <1>5, <2>6, <3>3
  <2>8. CASE middle < r
    <3>1. 2 * n + 1 \in Above
      BY <2>1, <2>3, <2>5, <2>6, <2>8, <1>5
    <3>2. half[n].right - (middle + 1) \in T
      BY <3>1, <2>5
    <3>3. w <= half[n].right - (middle + 1)
      BY <1>4, <3>2
    <3> QED BY <1>5, <2>6, <3>3
  <2> QED BY <2>6, <2>7, <2>8
<1>8. half[n].left = r /\ half[n].right = r
  BY <1>5, <1>6, <1>7 DEF Rowses
<1> QED BY <1>5, <1>6, <1>8 DEF Rowses

\* A span that covers a node has been counted above it, or its update comes by there.
LEMMA SpanIsCounted ==
  ASSUME NEW count \in Nat \ {0}, NEW half, Halving(half, count),
         NEW top \in Nat, NEW spans, spans \subseteq Spanning(count, top),
         NEW s \in spans, NEW r \in s.first..s.last
  PROVE  \A n \in Heap(count) :
           IsNode(half, n) /\ r \in half[n].left..half[n].right =>
             \/ Called(half, s)[n]
             \/ Materialized(Updated(half, spans))[n] >= s.lane
<1> DEFINE H == Heap(count)
           size == [n \in H |-> n]
           tree == Updated(half, spans)
           value == Materialized(tree)
           Counted(n) == Called(half, s)[n] \/ value[n] >= s.lane
           Good == {n \in H : IsNode(half, n) /\ r \in half[n].left..half[n].right => Counted(n)}
<1>1. size \in [H -> Nat] /\ 1 \in H
  BY ParentInHeap
<1>2. tree \in [H -> Int]
  BY UpdatedProperties
<1>3. /\ value \in [H -> Int]
      /\ value[1] = Larger(-1, tree[1])
      /\ \A n \in H \ {1} : value[n] = Larger(value[n \div 2], tree[n])
  BY <1>2, MaterializedEquation
<1>4. \A n \in H : Raises(half, s, n) => tree[n] >= s.lane
  BY UpdatedProperties
<1>5. s.lane \in Int /\ s.first \in Int /\ s.last \in Int
  BY DEF Spanning
<1> HIDE DEF tree, value
<1>6. ASSUME NEW n \in H PROVE value[n] >= tree[n] /\ (n # 1 => value[n] >= value[n \div 2])
  <2>1. n # 1 => n \div 2 \in H
    BY ParentInHeap
  <2> QED BY <1>2, <1>3, <2>1 DEF Larger
<1>7. ASSUME NEW n \in H, \A m \in H : size[m] < size[n] => m \in Good,
             IsNode(half, n), r \in half[n].left..half[n].right
      PROVE  Counted(n)
  <2>1. CASE n = 1
    BY <2>1, CalledEquation
  <2>2. CASE n # 1
    <3> DEFINE m == n \div 2
    <3>1. m \in H /\ m < n /\ IsNode(half, m)
      BY <1>7, <2>2, NodeRows, ParentInHeap
    <3>2. half[n] \in Rowses /\ half[m] \in Rowses
      BY <3>1 DEF Halving
    <3>3. r \in half[m].left..half[m].right
      BY <1>7, <2>2, <3>2, NodeRows DEF Rowses
    <3>4. Counted(m)
      BY <1>7, <3>1, <3>3
    <3>5. CASE value[m] >= s.lane
      BY <1>3, <1>5, <1>6, <2>2, <3>1, <3>5
    <3>6. CASE Called(half, s)[m] /\ Within(half[m], s)
      <4>1. tree[m] >= s.lane
        BY <1>4, <3>1, <3>6 DEF Raises
      <4> QED BY <1>2, <1>3, <1>5, <1>6, <2>2, <3>1, <4>1
    <3>7. CASE Called(half, s)[m] /\ ~Within(half[m], s)
      <4> DEFINE middle == Middle(half[m].left, half[m].right)
      <4>1. middle \in Int
        BY <3>2 DEF Middle, Rowses
      <4>2. IF n % 2 = 0 THEN half[n].right = middle ELSE half[n].left = middle + 1
        BY <2>2 DEF Halving
      <4>3. IF n % 2 = 0 THEN s.first <= middle ELSE s.last > middle
        <5> HIDE DEF middle
        <5> QED BY <1>5, <1>7, <3>2, <4>1, <4>2 DEF Rowses
      <4>4. Called(half, s)[n]
        BY <2>2, <3>7, <4>3, CalledEquation
      <4> QED BY <4>4
    <3> QED BY <3>4, <3>5, <3>6, <3>7
  <2> QED BY <2>1, <2>2
<1>8. \A n \in H : (\A m \in H : size[m] < size[n] => m \in Good) => n \in Good
  <2> HIDE DEF size, H, Counted
  <2> QED BY <1>7
<1>9. \A n \in H : n \in Good
  <2> HIDE DEF Good, size, H
  <2> QED BY <1>1, <1>8, SizeInduction
<1> QED BY <1>9 DEF value, tree

\* What a node hands down is the lane of a span that covers all its rows.
LEMMA OnlySpansCount ==
  ASSUME NEW count \in Nat \ {0}, NEW half, Halving(half, count),
         NEW top \in Nat, NEW spans, spans \subseteq Spanning(count, top)
  PROVE  LET value == Materialized(Updated(half, spans))
         IN \A n \in Heap(count) : IsNode(half, n) =>
              value[n] = -1 \/ \E s \in spans : Within(half[n], s) /\ value[n] = s.lane
<1> DEFINE H == Heap(count)
           size == [n \in H |-> n]
           tree == Updated(half, spans)
           value == Materialized(tree)
           Known(n, v) == v = -1 \/ \E s \in spans : Within(half[n], s) /\ v = s.lane
           Good == {n \in H : IsNode(half, n) => Known(n, value[n])}
<1>1. size \in [H -> Nat] /\ 1 \in H
  BY ParentInHeap
<1>2. tree \in [H -> Int]
  BY UpdatedProperties
<1>3. /\ value \in [H -> Int]
      /\ value[1] = Larger(-1, tree[1])
      /\ \A n \in H \ {1} : value[n] = Larger(value[n \div 2], tree[n])
  BY <1>2, MaterializedEquation
<1>4. \A n \in H : Known(n, tree[n])
  BY UpdatedProperties DEF Raises
<1> HIDE DEF tree, value
<1>5. ASSUME NEW n \in H, \A m \in H : size[m] < size[n] => m \in Good, IsNode(half, n)
      PROVE  Known(n, value[n])
  <2>1. CASE n = 1
    <3>1. value[1] = -1 \/ value[1] = tree[1]
      BY <1>3 DEF Larger
    <3> QED BY <1>1, <1>4, <2>1, <3>1
  <2>2. CASE n # 1
    <3> DEFINE m == n \div 2
    <3>1. m \in H /\ m < n /\ IsNode(half, m)
      BY <1>5, <2>2, NodeRows, ParentInHeap
    <3>2. half[n] \in Rowses /\ half[m] \in Rowses
      BY <3>1 DEF Halving
    <3>3. Known(m, value[m])
      BY <1>5, <3>1
    <3>4. ASSUME NEW s \in spans, Within(half[m], s) PROVE Within(half[n], s)
      <4>1. s.first \in Int /\ s.last \in Int
        BY DEF Spanning
      <4> QED BY <1>5, <2>2, <3>2, <3>4, <4>1, NodeRows DEF Within, Rowses
    <3>5. Known(n, value[m])
      BY <3>3, <3>4
    <3>6. value[n] = value[m] \/ value[n] = tree[n]
      BY <1>3, <2>2 DEF Larger
    <3> HIDE DEF Known
    <3> QED BY <1>4, <3>5, <3>6
  <2> QED BY <2>1, <2>2
<1>6. \A n \in H : (\A m \in H : size[m] < size[n] => m \in Good) => n \in Good
  <2> HIDE DEF size, H, Known
  <2> QED BY <1>5
<1>7. \A n \in H : n \in Good
  <2> HIDE DEF Good, size, H
  <2> QED BY <1>1, <1>6, SizeInduction
<1> QED BY <1>7 DEF value, tree

\* A row of the list is occupied by the largest lane of the spans that cover it.
LEMMA OccupancyProperties ==
  ASSUME NEW count \in Nat \ {0}, NEW half, Halving(half, count),
         NEW top \in Nat, NEW spans, spans \subseteq Spanning(count, top),
         NEW r \in 0..(count - 1)
  PROVE  LET occupied == LaneOccupancy(half, spans)[r]
         IN /\ \A s \in spans : r \in s.first..s.last => occupied >= s.lane
            /\ occupied = -1 \/ \E s \in spans : r \in s.first..s.last /\ occupied = s.lane
<1> DEFINE H == Heap(count)
           tree == Updated(half, spans)
           value == Materialized(tree)
           leaf == CHOOSE n \in H : half[n] = [left |-> r, right |-> r] /\ IsNode(half, n)
<1>1. leaf \in H /\ half[leaf] = [left |-> r, right |-> r] /\ IsNode(half, leaf)
  BY LeafExists
<1>2. LaneOccupancy(half, spans)[r] = value[leaf]
  <2>1. DOMAIN half = H /\ half[1].left = 0 /\ half[1].right = count - 1
    BY DEF Halving
  <2> QED BY <2>1 DEF LaneOccupancy
<1>3. tree \in [H -> Int] /\ \A n \in H, s \in spans : Raises(half, s, n) => tree[n] >= s.lane
  BY UpdatedProperties
<1>4. /\ value \in [H -> Int]
      /\ value[1] = Larger(-1, tree[1])
      /\ \A n \in H \ {1} : value[n] = Larger(value[n \div 2], tree[n])
  <2> HIDE DEF tree
  <2> QED BY <1>3, MaterializedEquation
<1>5. ASSUME NEW s \in spans, r \in s.first..s.last PROVE value[leaf] >= s.lane
  <2>0. r \in half[leaf].left..half[leaf].right /\ Within(half[leaf], s)
    BY <1>1, <1>5 DEF Within, Spanning
  <2>1. Called(half, s)[leaf] \/ value[leaf] >= s.lane
    <3> HIDE DEF leaf
    <3> QED BY <1>1, <1>5, <2>0, SpanIsCounted
  <2>2. CASE Called(half, s)[leaf]
    <3>1. tree[leaf] >= s.lane
      BY <1>1, <1>3, <2>0, <2>2 DEF Raises
    <3>2. s.lane \in Int
      BY DEF Spanning
    <3>3. leaf # 1 => leaf \div 2 \in H
      BY <1>1, ParentInHeap
    <3> HIDE DEF leaf, value, tree
    <3> QED BY <1>1, <1>3, <1>4, <3>1, <3>2, <3>3 DEF Larger
  <2> QED BY <2>1, <2>2
<1>6. value[leaf] = -1 \/ \E s \in spans : Within(half[leaf], s) /\ value[leaf] = s.lane
  <2> HIDE DEF leaf
  <2> QED BY <1>1, OnlySpansCount
<1>7. \A s \in spans : Within(half[leaf], s) => r \in s.first..s.last
  BY <1>1 DEF Within, Spanning
<1> HIDE DEF leaf, value
<1> QED BY <1>2, <1>5, <1>6, <1>7

-----------------------------------------------------------------------------
(* The spans of a layout.                                                    *)

\* A list of count rows shows the commits from top to bottom, its first row none.
Shows(visual, count) ==
  /\ visual \in [1..row -> 0..(count - 1)]
  /\ \A i, j \in 1..row : i < j => visual[i] < visual[j]

\* What the layout promises of the columns and of the edges.
LEMMA LaidOut ==
  ASSUME IInv
  PROVE  /\ row \in Nat /\ Len(lanes) \in Nat
         /\ \A i \in 1..row : lane[i] \in 1..Len(lanes)
         /\ \A e \in Edges : /\ e.from \in 1..row /\ e.to \in 1..row /\ e.from < e.to
                             /\ e.lane = lane[e.from] /\ e.toLane = lane[e.to]
<1>1. row \in Nat /\ Len(lanes) \in Nat
  BY DEF IInv, TypeOK, row
<1>2. \A i \in 1..row : lane[i] \in 1..Len(lanes)
  BY DEF IInv, Shape, Slots
<1>3. ASSUME NEW e \in Edges
      PROVE  /\ e.from \in 1..row /\ e.to \in 1..row /\ e.from < e.to
             /\ e.lane = lane[e.from] /\ e.toLane = lane[e.to]
  <2>1. PICK d \in (1..row) \X (1..row) :
               /\ \E k \in 1..Len(parents[d[1]]) : parents[d[1]][k] = d[2]
               /\ e = [from |-> d[1], to |-> d[2], lane |-> lane[d[1]], toLane |-> lane[d[2]]]
    BY DEF Edges
  <2>2. d[1] \in 1..row /\ d[2] \in 1..row
    OBVIOUS
  <2>3. d[2] > d[1]
    BY <2>1, <2>2 DEF IInv, Shape
  <2> QED BY <1>1, <2>1, <2>2, <2>3
<1> QED BY <1>1, <1>2, <1>3

\* So the nodes and the edges are spans of the list.
LEMMA SpansSpan ==
  ASSUME IInv, NEW count \in Nat, NEW visual, Shows(visual, count)
  PROVE  Spans(visual) \subseteq Spanning(count, Len(lanes))
<1>1. ASSUME NEW i \in 1..row
      PROVE  [first |-> visual[i], last |-> visual[i], lane |-> lane[i]]
               \in Spanning(count, Len(lanes))
  <2>1. visual[i] \in 0..(count - 1) /\ lane[i] \in 0..Len(lanes)
    BY LaidOut DEF Shows
  <2> QED BY <2>1 DEF Spanning
<1>2. ASSUME NEW e \in Edges
      PROVE  [first |-> Smaller(visual[e.from], visual[e.to]),
              last |-> Larger(visual[e.from], visual[e.to]),
              lane |-> Larger(e.lane, e.toLane)] \in Spanning(count, Len(lanes))
  <2>1. /\ visual[e.from] \in 0..(count - 1) /\ visual[e.to] \in 0..(count - 1)
        /\ visual[e.from] < visual[e.to]
    BY LaidOut DEF Shows
  <2>2. e.lane \in 0..Len(lanes) /\ e.toLane \in 0..Len(lanes)
    BY LaidOut
  <2> QED BY <2>1, <2>2 DEF Spanning, Smaller, Larger
<1> QED BY <1>1, <1>2 DEF Spans

\* A column in use on some rows is the lane of a span that reaches into them, or less;
\* and the lane of such a span is a column in use there.
LEMMA ColumnsAreSpanned ==
  ASSUME IInv, NEW count \in Nat, NEW visual, Shows(visual, count),
         NEW first \in Int, NEW last \in Int, first <= last
  PROVE  /\ \A c \in ColumnsAt(visual, first, last) :
              /\ c \in Nat
              /\ \E s \in Spans(visual), r \in first..last : r \in s.first..s.last /\ c <= s.lane
         /\ \A s \in Spans(visual), r \in first..last :
              r \in s.first..s.last => s.lane \in ColumnsAt(visual, first, last)
<1> DEFINE Nodes == {lane[i] : i \in {j \in 1..row : visual[j] \in first..last}}
           Lines == {d \in Edges : visual[d.from] <= last /\ visual[d.to] >= first}
           NodeSpan(i) == [first |-> visual[i], last |-> visual[i], lane |-> lane[i]]
           LineSpan(e) == [first |-> Smaller(visual[e.from], visual[e.to]),
                           last |-> Larger(visual[e.from], visual[e.to]),
                           lane |-> Larger(e.lane, e.toLane)]
<1>1. /\ ColumnsAt(visual, first, last) = Nodes \cup UNION {{e.lane, e.toLane} : e \in Lines}
      /\ Spans(visual) = {NodeSpan(i) : i \in 1..row} \cup {LineSpan(e) : e \in Edges}
  BY DEF ColumnsAt, Spans
<1>2. ASSUME NEW i \in 1..row PROVE visual[i] \in Int /\ lane[i] \in Nat
  BY LaidOut DEF Shows
<1>3. ASSUME NEW e \in Edges
      PROVE  /\ visual[e.from] \in Int /\ visual[e.to] \in Int /\ visual[e.from] < visual[e.to]
             /\ e.lane \in Nat /\ e.toLane \in Nat
             /\ LineSpan(e).first = visual[e.from] /\ LineSpan(e).last = visual[e.to]
             /\ LineSpan(e).lane \in {e.lane, e.toLane}
             /\ e.lane <= LineSpan(e).lane /\ e.toLane <= LineSpan(e).lane
  <2>1. e.from \in 1..row /\ e.to \in 1..row /\ e.from < e.to
    BY LaidOut
  <2>2. visual[e.from] \in Int /\ visual[e.to] \in Int /\ visual[e.from] < visual[e.to]
    BY <2>1 DEF Shows
  <2>3. e.lane \in Nat /\ e.toLane \in Nat
    BY <2>1, LaidOut
  <2> QED BY <2>2, <2>3 DEF Smaller, Larger
<1>4. ASSUME NEW c \in ColumnsAt(visual, first, last)
      PROVE  /\ c \in Nat
             /\ \E s \in Spans(visual), r \in first..last : r \in s.first..s.last /\ c <= s.lane
  <2>1. CASE c \in Nodes
    <3>1. PICK i \in 1..row : visual[i] \in first..last /\ c = lane[i]
      BY <2>1
    <3>2. NodeSpan(i) \in Spans(visual)
      BY <1>1
    <3>3. visual[i] \in NodeSpan(i).first..NodeSpan(i).last /\ c <= NodeSpan(i).lane
      BY <1>2, <3>1
    <3> HIDE DEF NodeSpan
    <3> QED BY <1>2, <3>1, <3>2, <3>3
  <2>2. CASE c \notin Nodes
    <3>1. PICK e \in Lines : c \in {e.lane, e.toLane}
      BY <1>1, <2>2
    <3>2. LineSpan(e) \in Spans(visual)
      BY <1>1
    <3> DEFINE r == Larger(visual[e.from], first)
    <3>3. visual[e.from] <= last /\ first <= visual[e.to]
      BY <1>3, <3>1
    <3>4. r \in first..last /\ r \in visual[e.from]..visual[e.to]
      BY <1>3, <3>3 DEF Larger
    <3>5. c <= LineSpan(e).lane /\ c \in Nat
      BY <1>3, <3>1
    <3> HIDE DEF LineSpan, r
    <3> QED BY <1>3, <3>2, <3>4, <3>5
  <2> QED BY <2>1, <2>2
<1>5. ASSUME NEW s \in Spans(visual), NEW r \in first..last, r \in s.first..s.last
      PROVE  s.lane \in ColumnsAt(visual, first, last)
  <2>1. CASE \E i \in 1..row : s = NodeSpan(i)
    <3>1. PICK i \in 1..row : s = NodeSpan(i)
      BY <2>1
    <3>2. visual[i] = r
      BY <1>2, <1>5, <3>1
    <3> QED BY <1>1, <3>1, <3>2
  <2>2. CASE \E e \in Edges : s = LineSpan(e)
    <3>1. PICK e \in Edges : s = LineSpan(e)
      BY <2>2
    <3>2. s.first = visual[e.from] /\ s.last = visual[e.to] /\ s.lane \in {e.lane, e.toLane}
      BY <1>3, <3>1
    <3>3. visual[e.from] <= last /\ visual[e.to] >= first
      BY <1>3, <1>5, <3>2
    <3> QED BY <1>1, <3>2, <3>3
  <2> HIDE DEF NodeSpan, LineSpan
  <2> QED BY <1>1, <2>1, <2>2
<1> HIDE DEF Nodes, Lines, NodeSpan, LineSpan
<1> QED BY <1>4, <1>5

\* In a list of any kind, the lane found for a range of rows and an anchor is the
\* lowest one right of them all.
THEOREM MarkerIsClear ==
  ASSUME IInv, NEW count \in Nat \ {0}, NEW visual, Shows(visual, count),
         NEW half, Halving(half, count),
         NEW first \in 0..(count - 1), NEW last \in 0..(count - 1), first <= last,
         NEW anchor \in 1..row
  PROVE  LET marker == MarkerLane(LaneOccupancy(half, Spans(visual)), first, last, anchor)
             columns == ColumnsAt(visual, first, last)
         IN /\ \A c \in columns : c < marker
            /\ marker - 1 \in columns \cup {lane[anchor]}
<1> DEFINE occupancy == LaneOccupancy(half, Spans(visual))
           columns == ColumnsAt(visual, first, last)
           O == {-1} \cup {occupancy[r] : r \in first..last}
           marker == Larger(lane[anchor], Max(O)) + 1
<1>1. Len(lanes) \in Nat /\ lane[anchor] \in 1..Len(lanes)
  BY LaidOut
<1>2. Spans(visual) \subseteq Spanning(count, Len(lanes))
  BY SpansSpan
<1>3. ASSUME NEW r \in first..last
      PROVE  /\ \A s \in Spans(visual) : r \in s.first..s.last => occupancy[r] >= s.lane
             /\ \/ occupancy[r] = -1
                \/ \E s \in Spans(visual) : r \in s.first..s.last /\ occupancy[r] = s.lane
  <2>1. r \in 0..(count - 1)
    OBVIOUS
  <2> QED BY <1>1, <1>2, <2>1, OccupancyProperties
<1>4. ASSUME NEW s \in Spans(visual) PROVE s.lane \in 0..Len(lanes)
  BY <1>2 DEF Spanning
<1> HIDE DEF occupancy
<1>5. ASSUME NEW r \in first..last PROVE occupancy[r] \in Int /\ occupancy[r] <= Len(lanes)
  BY <1>1, <1>3, <1>4
<1>6. O \subseteq Int /\ O # {} /\ \A x \in O : x <= Len(lanes)
  BY <1>1, <1>5
<1>7. Max(O) \in O /\ \A x \in O : Max(O) >= x
  <2> HIDE DEF O, marker, columns
  <2>1. Len(lanes) \in Int
    BY <1>1
  <2>2. \E top \in Int : \A x \in O : x <= top
    BY <1>6, <2>1, Zenon
  <2> QED BY <1>6, <2>2, MaxProperties
<1>8. Max(O) \in Int
  BY <1>6, <1>7
<1>9. ASSUME NEW c \in columns PROVE c < marker
  <2>1. PICK s \in Spans(visual), r \in first..last : r \in s.first..s.last /\ c <= s.lane
    BY ColumnsAreSpanned
  <2>2. c \in Nat
    BY ColumnsAreSpanned
  <2>3. occupancy[r] >= s.lane /\ occupancy[r] \in O
    BY <1>3, <2>1
  <2>4. Max(O) >= occupancy[r]
    BY <1>7, <2>3
  <2> HIDE DEF O
  <2> QED BY <1>1, <1>4, <1>5, <1>8, <2>1, <2>2, <2>3, <2>4 DEF Larger
<1>10. marker - 1 \in columns \cup {lane[anchor]}
  <2>1. marker - 1 = lane[anchor] \/ (marker - 1 = Max(O) /\ Max(O) # -1)
    <3> HIDE DEF O
    <3> QED BY <1>1, <1>8 DEF Larger
  <2>2. ASSUME Max(O) # -1 PROVE Max(O) \in columns
    <3>1. PICK r \in first..last : Max(O) = occupancy[r]
      BY <1>7, <2>2
    <3>2. PICK s \in Spans(visual) : r \in s.first..s.last /\ occupancy[r] = s.lane
      BY <1>3, <2>2, <3>1
    <3>3. s.lane \in columns
      BY <3>2, ColumnsAreSpanned
    <3> QED BY <3>1, <3>2, <3>3
  <2> HIDE DEF O, marker, columns
  <2> QED BY <2>1, <2>2
<1>11. marker = MarkerLane(LaneOccupancy(half, Spans(visual)), first, last, anchor)
  BY DEF MarkerLane, occupancy
<1> HIDE DEF marker, columns
<1> QED BY <1>9, <1>10, <1>11 DEF columns

\* The rows of a stash in the list leave the commits in their order.
LEMMA VisualShows ==
  ASSUME row \in Nat, NEW s \in 1..(row + 1), NEW extra \in Nat
  PROVE  Shows(Visual(s, extra), ListRows(extra))
BY DEF Shows, Visual, ListRows

\* So it is for every marker of the list view.
LEMMA MarkersHold == IInv => MarkersStandClear
<1> SUFFICES ASSUME IInv, NEW s \in 1..(row + 1), NEW context \in 0..Context,
                    NEW anchor \in 1..row
             PROVE  LET visual == Visual(s, 1 + context)
                        columns == ColumnsAt(visual, s, s + context)
                        half == Halves(ListRows(1 + context))
                        marker == MarkerLane(LaneOccupancy(half, Spans(visual)),
                                             s, s + context, anchor)
                    IN /\ \A c \in columns : c < marker
                       /\ marker - 1 \in columns \cup {lane[anchor]}
  BY Zenon DEF MarkersStandClear
<1> DEFINE count == ListRows(1 + context)
<1>1. row \in Nat /\ context \in Nat
  BY LaidOut, ContextAssumption
<1>2. count \in Nat \ {0} /\ s \in 0..(count - 1) /\ s + context \in 0..(count - 1)
  BY <1>1 DEF ListRows
<1>3. Shows(Visual(s, 1 + context), count)
  <2>1. 1 + context \in Nat
    BY <1>1
  <2> QED BY <1>1, <2>1, VisualShows
<1> HIDE DEF count
<1>4. Halving(Halves(count), count)
  BY <1>2, HalvesEquation
<1>5. s <= s + context
  BY <1>1
<1>6. LET visual == Visual(s, 1 + context)
          columns == ColumnsAt(visual, s, s + context)
          marker == MarkerLane(LaneOccupancy(Halves(count), Spans(visual)), s, s + context, anchor)
      IN /\ \A c \in columns : c < marker
         /\ marker - 1 \in columns \cup {lane[anchor]}
  BY <1>2, <1>3, <1>4, <1>5, MarkerIsClear
<1> QED BY <1>6 DEF count

-----------------------------------------------------------------------------
(* Sorted intervals.                                                         *)

Intervals == [start : Int, end : Int]

\* Before is a strict total order.
LEMMA BeforeOrders ==
  /\ \A a \in Intervals : ~Before(a, a)
  /\ \A a, b \in Intervals : a = b \/ Before(a, b) \/ Before(b, a)
  /\ \A a, b \in Intervals : Before(a, b) => ~Before(b, a)
  /\ \A a, b, c \in Intervals : Before(a, b) /\ Before(b, c) => Before(a, c)
BY DEF Before, Intervals

\* The rank of an interval: how many come before it.
LEMMA RankProperties ==
  ASSUME NEW S, S \subseteq Intervals, IsFiniteSet(S)
  PROVE  LET rank == [a \in S |-> Cardinality({b \in S : Before(b, a)})]
         IN /\ rank \in [S -> 0..(Cardinality(S) - 1)]
            /\ \A a, b \in S : Before(a, b) => rank[a] < rank[b]
<1> DEFINE Lower(a) == {b \in S : Before(b, a)}
           rank == [a \in S |-> Cardinality(Lower(a))]
<1>1. Cardinality(S) \in Nat
  BY FS_CardinalityType
<1>2. ASSUME NEW a \in S
      PROVE  IsFiniteSet(Lower(a)) /\ Cardinality(Lower(a)) \in Nat
  <2>1. IsFiniteSet(Lower(a))
    <3>1. Lower(a) \in SUBSET S
      OBVIOUS
    <3> QED BY <3>1, FS_Subset
  <2> QED BY <2>1, FS_CardinalityType
<1>3. ASSUME NEW a \in S, NEW T \in SUBSET S, IsFiniteSet(T), Lower(a) \subseteq T, a \in T
      PROVE  Cardinality(Lower(a)) < Cardinality(T)
  <2>1. a \notin Lower(a)
    BY BeforeOrders
  <2>2. Cardinality(Lower(a)) <= Cardinality(T) /\ Cardinality(T) # Cardinality(Lower(a))
    <3> HIDE DEF Lower
    <3> QED BY <1>3, <2>1, FS_Subset
  <2>3. Cardinality(T) \in Nat
    BY <1>3, FS_CardinalityType
  <2> QED BY <1>2, <2>2, <2>3
<1>4. ASSUME NEW a \in S PROVE rank[a] \in 0..(Cardinality(S) - 1)
  <2>1. Cardinality(Lower(a)) < Cardinality(S)
    <3>1. Lower(a) \subseteq S
      OBVIOUS
    <3> HIDE DEF Lower
    <3> QED BY <1>3, <3>1
  <2> HIDE DEF Lower
  <2> QED BY <1>1, <1>2, <2>1
<1>5. ASSUME NEW a \in S, NEW b \in S, Before(a, b) PROVE rank[a] < rank[b]
  <2>1. Lower(a) \subseteq Lower(b) /\ a \in Lower(b) /\ Lower(b) \in SUBSET S
    BY <1>5, BeforeOrders
  <2> HIDE DEF Lower
  <2>2. Cardinality(Lower(a)) < Cardinality(Lower(b))
    BY <1>2, <1>3, <2>1
  <2> QED BY <2>2
<1>6. rank \in [S -> 0..(Cardinality(S) - 1)]
  <2> HIDE DEF Lower
  <2> QED BY <1>4
<1> QED BY <1>5, <1>6

\* So Sorted lists a finite set of intervals, each once, in order.
LEMMA SortedProperties ==
  ASSUME NEW S, S \subseteq Intervals, IsFiniteSet(S)
  PROVE  LET ivs == Sorted(S)
         IN /\ ivs \in Seq(Intervals)
            /\ Range(ivs) = S
            /\ \A i, j \in 1..Len(ivs) : i < j => Before(ivs[i], ivs[j])
<1> DEFINE n == Cardinality(S)
           rank == [a \in S |-> Cardinality({b \in S : Before(b, a)})]
           ivs == Sorted(S)
<1>1. n \in Nat
  BY FS_CardinalityType
<1>2. rank \in [S -> 0..(n - 1)] /\ \A a, b \in S : Before(a, b) => rank[a] < rank[b]
  BY RankProperties
<1> DEFINE Ranked(a, k) == Cardinality({b \in S : Before(b, a)}) = k
<1>3. /\ ivs = [i \in 1..n |-> CHOOSE a \in S : Ranked(a, i - 1)]
      /\ \A a \in S, k \in Int : Ranked(a, k) <=> rank[a] = k
  BY DEF Sorted
<1> HIDE DEF rank, n, ivs, Ranked
<1>4. ASSUME NEW a \in S, NEW b \in S, rank[a] = rank[b] PROVE a = b
  <2>1. rank[a] \in Int /\ rank[b] \in Int
    BY <1>1, <1>2
  <2> QED BY <1>2, <1>4, <2>1, BeforeOrders
<1>5. \A k \in 0..(n - 1) : \E a \in S : rank[a] = k
  <2>1. IsFiniteSet(0..(n - 1)) /\ Cardinality(0..(n - 1)) = n
    <3>1. 0 \in Int /\ n - 1 \in Int
      BY <1>1
    <3> QED BY <1>1, <3>1, FS_Interval
  <2>2. rank \in Injection(S, 0..(n - 1))
    BY <1>2, <1>4 DEF Injection, IsInjective
  <2>3. rank \in Surjection(S, 0..(n - 1))
    BY <2>1, <2>2, FS_Injection DEF n
  <2> QED BY <2>3 DEF Surjection
<1>6. ASSUME NEW i \in 1..n PROVE ivs[i] \in S /\ rank[ivs[i]] = i - 1
  <2>1. i - 1 \in 0..(n - 1)
    BY <1>1
  <2>2. \E a \in S : Ranked(a, i - 1)
    BY <1>3, <1>5, <2>1
  <2> QED BY <1>3, <2>1, <2>2
<1>7. ivs \in Seq(Intervals) /\ Len(ivs) = n /\ DOMAIN ivs = 1..n
  <2>1. ivs \in [1..n -> Intervals]
    BY <1>3, <1>6
  <2> QED BY <1>1, <2>1
<1>8. Range(ivs) = S
  <2>1. ASSUME NEW a \in S PROVE a \in Range(ivs)
    <3>1. rank[a] + 1 \in 1..n
      BY <1>1, <1>2
    <3>2. rank[ivs[rank[a] + 1]] = rank[a] /\ ivs[rank[a] + 1] \in S
      BY <1>1, <1>2, <1>6, <3>1
    <3>3. ivs[rank[a] + 1] = a
      BY <1>4, <3>2
    <3> QED BY <1>7, <3>1, <3>3 DEF Range
  <2> QED BY <1>6, <1>7, <2>1 DEF Range
<1>9. ASSUME NEW i \in 1..n, NEW j \in 1..n, i < j PROVE Before(ivs[i], ivs[j])
  <2>1. ivs[i] \in S /\ ivs[j] \in S /\ rank[ivs[i]] < rank[ivs[j]]
    BY <1>1, <1>6, <1>9
  <2>2. ~(rank[ivs[j]] < rank[ivs[i]])
    BY <1>1, <1>2, <2>1
  <2> QED BY <1>2, <2>1, <2>2, BeforeOrders
<1> QED BY <1>7, <1>8, <1>9 DEF ivs

-----------------------------------------------------------------------------
(* Walks over ranges of the sorted intervals.                                *)

Ranges(n) == (0..n) \X (0..n)

\* Both walks halve a range.
Width(n) == [at \in Ranges(n) |-> IF at[1] < at[2] THEN at[2] - at[1] ELSE 0]

\* A range that is not empty has an interval in its middle and shorter ranges beside it.
LEMMA RangesShrink ==
  ASSUME NEW n \in Nat, NEW low \in 0..n, NEW high \in 0..n, low < high
  PROVE  LET mid == Middle(low, high)
         IN /\ mid \in low..(high - 1) /\ mid + 1 \in 1..n
            /\ <<low, mid>> \in Ranges(n) /\ <<mid + 1, high>> \in Ranges(n)
            /\ Width(n)[<<low, mid>>] < Width(n)[<<low, high>>]
            /\ Width(n)[<<mid + 1, high>>] < Width(n)[<<low, high>>]
<1> DEFINE mid == Middle(low, high)
<1>1. mid \in low..(high - 1) /\ mid \in 0..n /\ mid + 1 \in 1..n
  BY DEF Middle
<1> HIDE DEF mid
<1>2. <<low, mid>> \in Ranges(n) /\ <<mid + 1, high>> \in Ranges(n) /\ <<low, high>> \in Ranges(n)
  BY <1>1 DEF Ranges
<1>3. /\ Width(n)[<<low, mid>>] = IF low < mid THEN mid - low ELSE 0
      /\ Width(n)[<<mid + 1, high>>] = IF mid + 1 < high THEN high - (mid + 1) ELSE 0
      /\ Width(n)[<<low, high>>] = high - low
  BY <1>2 DEF Width
<1> QED BY <1>1, <1>2, <1>3 DEF mid

\* Width is a size.
LEMMA WidthType == ASSUME NEW n \in Nat PROVE Width(n) \in [Ranges(n) -> Nat]
<1>1. ASSUME NEW at \in Ranges(n) PROVE at[1] \in Nat /\ at[2] \in Nat
  BY DEF Ranges
<1> QED BY <1>1 DEF Width

\* The body of Bound, for what it makes of the smaller ranges.
Halve(ivs, passed, f, low, high) ==
  LET mid == Middle(low, high)
  IN IF low >= high THEN low
     ELSE IF ivs[mid + 1] \in passed THEN f[<<mid + 1, high>>]
     ELSE f[<<low, mid>>]

\* Bound is what such a walk finds from the whole range.
LEMMA BoundEquation ==
  ASSUME NEW n \in Nat, NEW ivs, Len(ivs) = n, NEW passed
  PROVE  \E bound : /\ Bound(ivs, passed) = bound[<<0, n>>]
                    /\ \A low, high \in 0..n :
                         bound[<<low, high>>] = Halve(ivs, passed, bound, low, high)
<1> DEFINE D == Ranges(n)
           step(f) == [at \in D |-> Halve(ivs, passed, f, at[1], at[2])]
           G == [f \in [D -> 0..n] |-> step(f)]
<1>1. ASSUME NEW f \in [D -> 0..n] PROVE step(f) \in [D -> 0..n]
  <2> SUFFICES ASSUME NEW low \in 0..n, NEW high \in 0..n
               PROVE  Halve(ivs, passed, f, low, high) \in 0..n
    BY DEF Ranges
  <2>1. CASE low >= high
    BY <2>1 DEF Halve
  <2>2. CASE low < high
    <3>1. <<low, Middle(low, high)>> \in D /\ <<Middle(low, high) + 1, high>> \in D
      BY <2>2, RangesShrink
    <3> HIDE DEF D
    <3> QED BY <2>2, <3>1 DEF Halve
  <2> QED BY <2>1, <2>2
<1>2. G \in [[D -> 0..n] -> [D -> 0..n]]
  <2> HIDE DEF step, D
  <2> QED BY <1>1
<1>3. ASSUME NEW f \in [D -> 0..n], NEW g \in [D -> 0..n], NEW at \in D,
             \A to \in D : Width(n)[to] < Width(n)[at] => f[to] = g[to]
      PROVE  G[f][at] = G[g][at]
  <2> SUFFICES Halve(ivs, passed, f, at[1], at[2]) = Halve(ivs, passed, g, at[1], at[2])
    BY <1>3
  <2>0. PICK low \in 0..n, high \in 0..n : at = <<low, high>>
    BY DEF Ranges
  <2>1. CASE low >= high
    BY <2>0, <2>1 DEF Halve
  <2>2. CASE low < high
    <3> DEFINE mid == Middle(low, high)
    <3>1. f[<<low, mid>>] = g[<<low, mid>>] /\ f[<<mid + 1, high>>] = g[<<mid + 1, high>>]
      <4> HIDE DEF D
      <4> QED BY <1>3, <2>0, <2>2, RangesShrink DEF D
    <3> QED BY <2>0, <3>1 DEF Halve
  <2> QED BY <2>0, <2>1, <2>2
<1>4. \A f, g \in [D -> 0..n], at \in D :
        (\A to \in D : Width(n)[to] < Width(n)[at] => f[to] = g[to]) => G[f][at] = G[g][at]
  <2> HIDE DEF G, D
  <2> QED BY <1>3
<1>5. \E f : f = step(f)
  <2>0. 0 \in 0..n
    OBVIOUS
  <2>1. Width(n) \in [D -> Nat]
    BY WidthType
  <2>2. \E f \in [D -> 0..n] : f = G[f]
    <3> HIDE DEF G, D
    <3>1. Descends(D, 0..n, Width(n), G)
      BY <1>2, <1>4, <2>0, <2>1 DEF Descends
    <3> QED BY <3>1, RecursionDefines
  <2> QED BY <2>2
<1> DEFINE bound == CHOOSE f : f = step(f)
<1>6. bound = step(bound)
  <2> HIDE DEF step
  <2> QED BY <1>5
<1>7. Bound(ivs, passed) = bound[<<0, n>>]
  BY DEF Bound, Halve, Ranges
<1> HIDE DEF bound
<1>8. ASSUME NEW low \in 0..n, NEW high \in 0..n
      PROVE  bound[<<low, high>>] = Halve(ivs, passed, bound, low, high)
  <2>1. <<low, high>> \in D /\ <<low, high>>[1] = low /\ <<low, high>>[2] = high
    BY DEF Ranges
  <2> HIDE DEF D
  <2> QED BY <1>6, <2>1
<1> QED BY <1>7, <1>8

\* Where the intervals that pass come first, Bound counts them.
LEMMA BoundProperties ==
  ASSUME NEW n \in Nat, NEW ivs, Len(ivs) = n, NEW passed,
         \A i, j \in 1..n : i < j /\ ivs[j] \in passed => ivs[i] \in passed
  PROVE  /\ Bound(ivs, passed) \in 0..n
         /\ \A i \in 1..n : ivs[i] \in passed <=> i <= Bound(ivs, passed)
<1>1. PICK bound : /\ Bound(ivs, passed) = bound[<<0, n>>]
                   /\ \A low, high \in 0..n :
                        bound[<<low, high>>] = Halve(ivs, passed, bound, low, high)
  BY BoundEquation
<1> DEFINE Counts(low, high, b) ==
             low <= high =>
               /\ b \in low..high
               /\ \A i \in (low + 1)..high : ivs[i] \in passed <=> i <= b
           Good == {at \in Ranges(n) : Counts(at[1], at[2], bound[at])}
<1>2. ASSUME NEW low \in 0..n, NEW high \in 0..n,
             \A to \in Ranges(n) : Width(n)[to] < Width(n)[<<low, high>>] => to \in Good
      PROVE  Counts(low, high, bound[<<low, high>>])
  <2>1. CASE low >= high
    <3>1. bound[<<low, high>>] = low
      BY <1>1, <2>1 DEF Halve
    <3> QED BY <2>1, <3>1
  <2>2. CASE low < high
    <3> DEFINE mid == Middle(low, high)
    <3>1. /\ mid \in low..(high - 1) /\ mid + 1 \in 1..n
          /\ <<low, mid>> \in Good /\ <<mid + 1, high>> \in Good
      <4> HIDE DEF Good
      <4> QED BY <1>2, <2>2, RangesShrink
    <3>2. Counts(low, mid, bound[<<low, mid>>]) /\ Counts(mid + 1, high, bound[<<mid + 1, high>>])
      BY <3>1
    <3>3. bound[<<low, high>>] = IF ivs[mid + 1] \in passed THEN bound[<<mid + 1, high>>]
                                 ELSE bound[<<low, mid>>]
      BY <1>1, <2>2 DEF Halve
    <3>4. CASE ivs[mid + 1] \in passed
      <4>1. \A i \in (low + 1)..(mid + 1) : ivs[i] \in passed
        <5> HIDE DEF mid
        <5> QED BY <3>1, <3>4
      <4> HIDE DEF mid
      <4> QED BY <3>1, <3>2, <3>3, <3>4, <4>1
    <3>5. CASE ivs[mid + 1] \notin passed
      <4>1. \A i \in (mid + 1)..high : ivs[i] \notin passed
        <5> HIDE DEF mid
        <5> QED BY <3>1, <3>5
      <4> HIDE DEF mid
      <4> QED BY <3>1, <3>2, <3>3, <3>5, <4>1
    <3> QED BY <3>4, <3>5
  <2> QED BY <2>1, <2>2
<1>3. \A at \in Ranges(n) :
        (\A to \in Ranges(n) : Width(n)[to] < Width(n)[at] => to \in Good) => at \in Good
  <2> TAKE at \in Ranges(n)
  <2>1. PICK low \in 0..n, high \in 0..n : at = <<low, high>>
    BY DEF Ranges
  <2>2. at[1] = low /\ at[2] = high
    BY <2>1
  <2>3. HAVE \A to \in Ranges(n) : Width(n)[to] < Width(n)[at] => to \in Good
  <2>4. Counts(low, high, bound[at])
    <3> HIDE DEF Counts, Good
    <3> QED BY <1>2, <2>1, <2>3
  <2> HIDE DEF Counts
  <2> QED BY <2>2, <2>4
<1>4. <<0, n>> \in Good
  <2>1. <<0, n>> \in Ranges(n)
    BY DEF Ranges
  <2>2. Width(n) \in [Ranges(n) -> Nat]
    BY WidthType
  <2> HIDE DEF Good
  <2> QED BY <1>3, <2>1, <2>2, SizeInduction
<1>5. Counts(0, n, bound[<<0, n>>])
  BY <1>4
<1> QED BY <1>1, <1>5

\* The body of Query, for what it makes of the smaller ranges.
Visit(ivs, min, max, f, low, high) ==
  LET mid == Middle(low, high)
      entry == ivs[mid + 1]
      lefts == IF low < mid /\ MaxEnd(ivs, low, mid) >= min THEN f[<<low, mid>>] ELSE {}
      rights == IF mid + 1 < high /\ entry.start <= max /\ MaxEnd(ivs, mid + 1, high) >= min
                  THEN f[<<mid + 1, high>>] ELSE {}
  IN IF low >= high THEN {}
     ELSE lefts \cup rights \cup IF entry.start <= max /\ entry.end >= min THEN {entry} ELSE {}

\* Query is what such a walk finds from the whole range.
LEMMA QueryEquation ==
  ASSUME NEW n \in Nat, NEW ivs, Len(ivs) = n, DOMAIN ivs = 1..n, NEW min, NEW max
  PROVE  \E query : /\ Query(ivs, min, max) = query[<<0, n>>]
                    /\ \A low, high \in 0..n :
                         query[<<low, high>>] = Visit(ivs, min, max, query, low, high)
<1> DEFINE D == Ranges(n)
           V == SUBSET Range(ivs)
           step(f) == [at \in D |-> Visit(ivs, min, max, f, at[1], at[2])]
           G == [f \in [D -> V] |-> step(f)]
<1>1. ASSUME NEW f \in [D -> V] PROVE step(f) \in [D -> V]
  <2> SUFFICES ASSUME NEW low \in 0..n, NEW high \in 0..n
               PROVE  Visit(ivs, min, max, f, low, high) \in V
    BY DEF Ranges
  <2>1. CASE low >= high
    BY <2>1 DEF Visit
  <2>2. CASE low < high
    <3> DEFINE mid == Middle(low, high)
    <3>1. <<low, mid>> \in D /\ <<mid + 1, high>> \in D /\ mid + 1 \in 1..n
      BY <2>2, RangesShrink
    <3>2. f[<<low, mid>>] \in V /\ f[<<mid + 1, high>>] \in V
      <4> HIDE DEF D, V, mid
      <4> QED BY <3>1
    <3>3. ivs[mid + 1] \in Range(ivs)
      BY <3>1 DEF Range
    <3> HIDE DEF mid
    <3> QED BY <2>2, <3>2, <3>3 DEF Visit, mid
  <2> QED BY <2>1, <2>2
<1>2. G \in [[D -> V] -> [D -> V]]
  <2> HIDE DEF step, D, V
  <2> QED BY <1>1
<1>3. ASSUME NEW f \in [D -> V], NEW g \in [D -> V], NEW at \in D,
             \A to \in D : Width(n)[to] < Width(n)[at] => f[to] = g[to]
      PROVE  G[f][at] = G[g][at]
  <2> SUFFICES Visit(ivs, min, max, f, at[1], at[2]) = Visit(ivs, min, max, g, at[1], at[2])
    BY <1>3
  <2>0. PICK low \in 0..n, high \in 0..n : at = <<low, high>>
    BY DEF Ranges
  <2>1. CASE low >= high
    BY <2>0, <2>1 DEF Visit
  <2>2. CASE low < high
    <3> DEFINE mid == Middle(low, high)
    <3>1. f[<<low, mid>>] = g[<<low, mid>>] /\ f[<<mid + 1, high>>] = g[<<mid + 1, high>>]
      <4> HIDE DEF D
      <4> QED BY <1>3, <2>0, <2>2, RangesShrink DEF D
    <3> QED BY <2>0, <3>1 DEF Visit
  <2> QED BY <2>0, <2>1, <2>2
<1>4. \A f, g \in [D -> V], at \in D :
        (\A to \in D : Width(n)[to] < Width(n)[at] => f[to] = g[to]) => G[f][at] = G[g][at]
  <2> HIDE DEF G, D, V
  <2> QED BY <1>3
<1>5. \E f : f = step(f)
  <2>0. {} \in V
    OBVIOUS
  <2>1. Width(n) \in [D -> Nat]
    BY WidthType
  <2>2. \E f \in [D -> V] : f = G[f]
    <3> HIDE DEF G, D, V
    <3>1. Descends(D, V, Width(n), G)
      BY <1>2, <1>4, <2>0, <2>1 DEF Descends
    <3> QED BY <3>1, RecursionDefines
  <2> QED BY <2>2
<1> DEFINE query == CHOOSE f : f = step(f)
<1>6. query = step(query)
  <2> HIDE DEF step
  <2> QED BY <1>5
<1>7. Query(ivs, min, max) = query[<<0, n>>]
  BY DEF Query, Visit, Ranges
<1> HIDE DEF query
<1>8. ASSUME NEW low \in 0..n, NEW high \in 0..n
      PROVE  query[<<low, high>>] = Visit(ivs, min, max, query, low, high)
  <2>1. <<low, high>> \in D /\ <<low, high>>[1] = low /\ <<low, high>>[2] = high
    BY DEF Ranges
  <2> HIDE DEF D
  <2> QED BY <1>6, <2>1
<1> QED BY <1>7, <1>8

\* The ends of finitely many intervals are bounded.
LEMMA EndsBounded ==
  ASSUME NEW n \in Nat, NEW ivs \in [1..n -> Intervals]
  PROVE  \E b \in Int : \A i \in 1..n : ivs[i].end <= b
<1> DEFINE Bounds(k) == {b \in Int : \A i \in 1..k : ivs[i].end <= b}
           T == {k \in 0..n : Bounds(k) = {}}
<1>1. SUFFICES ASSUME T # {} PROVE FALSE
  <2>1. T = {}
    OBVIOUS
  <2>2. n \in 0..n
    OBVIOUS
  <2> QED BY <2>1, <2>2
<1>2. PICK k \in T : \A m \in T : k <= m
  <2>1. T \subseteq Nat
    OBVIOUS
  <2> HIDE DEF T
  <2> QED BY <1>1, <2>1, LeastProperties
<1>3. k # 0
  <2>1. 0 \in Bounds(0)
    OBVIOUS
  <2> QED BY <1>2, <2>1
<1>4. k - 1 \in 0..n /\ k - 1 \notin T
  BY <1>2, <1>3
<1>5. PICK b \in Bounds(k - 1) : TRUE
  BY <1>4
<1>6. ivs[k].end \in Int
  BY <1>2, <1>3 DEF Intervals
<1>7. Larger(b, ivs[k].end) \in Bounds(k)
  BY <1>2, <1>3, <1>5, <1>6 DEF Larger, Intervals
<1> QED BY <1>2, <1>7

\* The greatest end of a range is no less than the end of any interval in it.
LEMMA MaxEndProperties ==
  ASSUME NEW n \in Nat, NEW ivs \in [1..n -> Intervals],
         NEW low \in 0..n, NEW high \in 0..n, low < high
  PROVE  /\ MaxEnd(ivs, low, high) \in Int
         /\ \A i \in (low + 1)..high : ivs[i].end <= MaxEnd(ivs, low, high)
<1> DEFINE E == {ivs[i].end : i \in (low + 1)..high}
<1>1. PICK b \in Int : \A i \in 1..n : ivs[i].end <= b
  BY EndsBounded
<1>2. E \subseteq Int /\ E # {} /\ \A x \in E : x <= b
  <2>1. \A i \in (low + 1)..high : i \in 1..n /\ ivs[i].end \in Int
    BY DEF Intervals
  <2>2. high \in (low + 1)..high
    OBVIOUS
  <2> QED BY <1>1, <2>1, <2>2
<1>3. Max(E) \in E /\ \A x \in E : Max(E) >= x
  <2> HIDE DEF E
  <2> QED BY <1>2, MaxProperties
<1>4. MaxEnd(ivs, low, high) = Max(E)
  BY DEF MaxEnd
<1>5. \A i \in (low + 1)..high : ivs[i].end \in E
  OBVIOUS
<1> HIDE DEF E
<1> QED BY <1>2, <1>3, <1>4, <1>5

\* Of intervals sorted by their start, Query finds those that cross the viewport.
LEMMA QueryProperties ==
  ASSUME NEW n \in Nat, NEW ivs \in [1..n -> Intervals], Len(ivs) = n,
         \A i, j \in 1..n : i < j => ivs[i].start <= ivs[j].start,
         NEW min \in Int, NEW max \in Int
  PROVE  Query(ivs, min, max) = {v \in Range(ivs) : v.start <= max /\ v.end >= min}
<1>1. PICK query : /\ Query(ivs, min, max) = query[<<0, n>>]
                   /\ \A low, high \in 0..n :
                        query[<<low, high>>] = Visit(ivs, min, max, query, low, high)
  BY QueryEquation
<1> DEFINE Crosses(v) == v.start <= max /\ v.end >= min
           Crossing(low, high) == {v \in {ivs[i] : i \in (low + 1)..high} : Crosses(v)}
           Good == {at \in Ranges(n) : query[at] = Crossing(at[1], at[2])}
<1>2. ASSUME NEW low \in 0..n, NEW high \in 0..n,
             \A to \in Ranges(n) : Width(n)[to] < Width(n)[<<low, high>>] => to \in Good
      PROVE  query[<<low, high>>] = Crossing(low, high)
  <2>1. CASE low >= high
    <3>1. query[<<low, high>>] = {}
      BY <1>1, <2>1 DEF Visit
    <3>2. (low + 1)..high = {}
      BY <2>1
    <3> QED BY <3>1, <3>2
  <2>2. CASE low < high
    <3> DEFINE mid == Middle(low, high)
               entry == ivs[mid + 1]
               lefts == IF low < mid /\ MaxEnd(ivs, low, mid) >= min THEN query[<<low, mid>>] ELSE {}
               rights == IF /\ mid + 1 < high /\ entry.start <= max
                            /\ MaxEnd(ivs, mid + 1, high) >= min
                           THEN query[<<mid + 1, high>>] ELSE {}
    <3>1. /\ mid \in low..(high - 1) /\ mid + 1 \in 1..n
          /\ <<low, mid>> \in Good /\ <<mid + 1, high>> \in Good
      <4> HIDE DEF Good
      <4> QED BY <1>2, <2>2, RangesShrink
    <3>2. query[<<low, mid>>] = Crossing(low, mid) /\ query[<<mid + 1, high>>] = Crossing(mid + 1, high)
      BY <3>1
    <3>3. query[<<low, high>>] =
            lefts \cup rights \cup IF Crosses(entry) THEN {entry} ELSE {}
      <4>1. ~(low >= high)
        BY <2>2
      <4>2. Visit(ivs, min, max, query, low, high) =
              lefts \cup rights \cup IF Crosses(entry) THEN {entry} ELSE {}
        BY <4>1, Zenon DEF Visit
      <4> QED BY <1>1, <4>2
    <3> HIDE DEF mid
    <3>4. \A i \in 1..n : ivs[i] \in Intervals
      OBVIOUS
    <3>5. lefts = Crossing(low, mid)
      <4>1. CASE low < mid
        <5>1. ASSUME ~(MaxEnd(ivs, low, mid) >= min) PROVE Crossing(low, mid) = {}
          <6>1. mid \in 0..n
            BY <3>1
          <6>2. \A i \in (low + 1)..mid : ivs[i].end <= MaxEnd(ivs, low, mid)
            BY <4>1, <6>1, MaxEndProperties
          <6>3. MaxEnd(ivs, low, mid) \in Int
            BY <4>1, <6>1, MaxEndProperties
          <6>4. \A i \in (low + 1)..mid : ~(ivs[i].end >= min)
            BY <3>1, <3>4, <5>1, <6>2, <6>3 DEF Intervals
          <6> QED BY <6>4
        <5> HIDE DEF Crossing
        <5> QED BY <3>2, <4>1, <5>1
      <4>2. CASE ~(low < mid)
        <5>1. (low + 1)..mid = {}
          BY <3>1, <4>2
        <5> QED BY <4>2, <5>1
      <4> QED BY <4>1, <4>2
    <3>6. rights = Crossing(mid + 1, high)
      <4>1. CASE mid + 1 < high
        <5>1. ASSUME ~(MaxEnd(ivs, mid + 1, high) >= min) PROVE Crossing(mid + 1, high) = {}
          <6>1. mid + 1 \in 0..n
            BY <3>1
          <6>2. \A i \in (mid + 1 + 1)..high : ivs[i].end <= MaxEnd(ivs, mid + 1, high)
            BY <4>1, <6>1, MaxEndProperties
          <6>3. MaxEnd(ivs, mid + 1, high) \in Int
            BY <4>1, <6>1, MaxEndProperties
          <6>4. \A i \in (mid + 1 + 1)..high : ~(ivs[i].end >= min)
            BY <3>1, <3>4, <5>1, <6>2, <6>3 DEF Intervals
          <6> QED BY <6>4
        <5>2. ASSUME ~(entry.start <= max) PROVE Crossing(mid + 1, high) = {}
          <6>1. \A i \in (mid + 1 + 1)..high : entry.start <= ivs[i].start
            BY <3>1
          <6>2. \A i \in (mid + 1 + 1)..high : ~(ivs[i].start <= max)
            BY <3>1, <3>4, <5>2, <6>1 DEF Intervals
          <6> QED BY <6>2
        <5> HIDE DEF Crossing, entry
        <5> QED BY <3>2, <4>1, <5>1, <5>2
      <4>2. CASE ~(mid + 1 < high)
        <5>1. (mid + 1 + 1)..high = {}
          BY <3>1, <4>2
        <5> QED BY <4>2, <5>1
      <4> QED BY <4>1, <4>2
    <3>7. Crossing(low, high) =
            Crossing(low, mid) \cup Crossing(mid + 1, high) \cup
              IF Crosses(entry) THEN {entry} ELSE {}
      <4>1. (low + 1)..high = ((low + 1)..mid) \cup {mid + 1} \cup ((mid + 1 + 1)..high)
        BY <3>1
      <4> HIDE DEF Crosses
      <4> QED BY <4>1
    <3> HIDE DEF lefts, rights, Crossing
    <3> QED BY <3>3, <3>5, <3>6, <3>7
  <2> QED BY <2>1, <2>2
<1>3. \A at \in Ranges(n) :
        (\A to \in Ranges(n) : Width(n)[to] < Width(n)[at] => to \in Good) => at \in Good
  <2> TAKE at \in Ranges(n)
  <2>1. PICK low \in 0..n, high \in 0..n : at = <<low, high>>
    BY DEF Ranges
  <2>2. at[1] = low /\ at[2] = high
    BY <2>1
  <2>3. HAVE \A to \in Ranges(n) : Width(n)[to] < Width(n)[at] => to \in Good
  <2>4. query[at] = Crossing(low, high)
    <3> HIDE DEF Crossing, Good
    <3> QED BY <1>2, <2>1, <2>3
  <2> HIDE DEF Crossing
  <2> QED BY <2>2, <2>4
<1>4. <<0, n>> \in Good
  <2>1. <<0, n>> \in Ranges(n)
    BY DEF Ranges
  <2>2. Width(n) \in [Ranges(n) -> Nat]
    BY WidthType
  <2> HIDE DEF Good
  <2> QED BY <1>3, <2>1, <2>2, SizeInduction
<1>5. query[<<0, n>>] = Crossing(0, n)
  BY <1>4
<1>6. Range(ivs) = {ivs[i] : i \in 1..n}
  BY DEF Range
<1> QED BY <1>1, <1>5, <1>6

\* There are finitely many intervals between bounds.
LEMMA BoundedIntervalsFinite ==
  ASSUME NEW m \in Nat, NEW S, S \subseteq [start : 0..m, end : 0..m]
  PROVE  IsFiniteSet(S) /\ S \subseteq Intervals
<1> DEFINE D == (0..m) \X (0..m)
           T == [start : 0..m, end : 0..m]
           f == [p \in D |-> [start |-> p[1], end |-> p[2]]]
<1>1. IsFiniteSet(0..m)
  <2>1. 0 \in Int /\ m \in Int
    OBVIOUS
  <2> QED BY <2>1, FS_Interval
<1>2. IsFiniteSet(D)
  BY <1>1, FS_Product
<1>3. f \in Surjection(D, T)
  <2>1. f \in [D -> T]
    OBVIOUS
  <2>2. ASSUME NEW t \in T PROVE \E p \in D : f[p] = t
    <3>1. <<t.start, t.end>> \in D /\ f[<<t.start, t.end>>] = t
      OBVIOUS
    <3> QED BY <3>1
  <2> HIDE DEF f
  <2> QED BY <2>1, <2>2 DEF Surjection
<1>4. IsFiniteSet(T)
  <2> HIDE DEF D, T, f
  <2> QED BY <1>2, <1>3, FS_Surjection
<1>5. IsFiniteSet(S)
  <2>1. S \in SUBSET T
    OBVIOUS
  <2> HIDE DEF T
  <2> QED BY <1>4, <2>1, FS_Subset
<1>6. T \subseteq Intervals
  BY DEF Intervals
<1> QED BY <1>5, <1>6

\* What sorting a set of intervals gives the walks to work on.
LEMMA SortedWalks ==
  ASSUME NEW m \in Nat, NEW S, S \subseteq [start : 0..m, end : 0..m]
  PROVE  LET ivs == Sorted(S)
             n == Len(ivs)
         IN /\ n \in Nat /\ ivs \in [1..n -> Intervals] /\ Range(ivs) = S
            /\ \A i, j \in 1..n : i < j => ivs[i].start <= ivs[j].start
<1> DEFINE ivs == Sorted(S)
           n == Len(ivs)
<1>1. /\ ivs \in Seq(Intervals) /\ Range(ivs) = S
      /\ \A i, j \in 1..n : i < j => Before(ivs[i], ivs[j])
  BY BoundedIntervalsFinite, SortedProperties
<1> HIDE DEF ivs
<1>2. n \in Nat /\ ivs \in [1..n -> Intervals]
  BY <1>1, LenProperties
<1>3. ASSUME NEW i \in 1..n, NEW j \in 1..n, i < j PROVE ivs[i].start <= ivs[j].start
  <2>1. ivs[i] \in Intervals /\ ivs[j] \in Intervals
    BY <1>2
  <2> QED BY <1>1, <1>3, <2>1 DEF Before, Intervals
<1> QED BY <1>1, <1>2, <1>3 DEF ivs

\* The binary searches delimit the commits of a viewport.
LEMMA CommitsProperties ==
  ASSUME NEW n \in Nat, NEW ivs \in [1..n -> Intervals], Len(ivs) = n,
         \A i, j \in 1..n : i < j => ivs[i].start <= ivs[j].start,
         NEW min \in Int, NEW max \in Int
  PROVE  CommitsBetween(ivs, min, max) = {v \in Range(ivs) : v.start \in min..max}
<1> DEFINE low == LowerBound(ivs, min)
           high == UpperBound(ivs, max)
<1>1. Range(ivs) = {ivs[i] : i \in 1..n} /\ \A i \in 1..n : ivs[i].start \in Int
  BY DEF Range, Intervals
<1>2. low \in 0..n /\ \A i \in 1..n : ivs[i].start < min <=> i <= low
  <2> DEFINE passed == {v \in Range(ivs) : v.start < min}
  <2>1. \A i \in 1..n : ivs[i] \in passed <=> ivs[i].start < min
    BY <1>1
  <2>2. \A i, j \in 1..n : i < j /\ ivs[j] \in passed => ivs[i] \in passed
    <3> HIDE DEF passed
    <3> QED BY <1>1, <2>1
  <2>3. low = Bound(ivs, passed)
    BY DEF LowerBound
  <2> HIDE DEF passed, low
  <2>4. low \in 0..n /\ \A i \in 1..n : ivs[i] \in passed <=> i <= low
    BY <2>2, <2>3, BoundProperties
  <2> QED BY <2>1, <2>4
<1>3. high \in 0..n /\ \A i \in 1..n : ivs[i].start <= max <=> i <= high
  <2> DEFINE passed == {v \in Range(ivs) : v.start <= max}
  <2>1. \A i \in 1..n : ivs[i] \in passed <=> ivs[i].start <= max
    BY <1>1
  <2>2. \A i, j \in 1..n : i < j /\ ivs[j] \in passed => ivs[i] \in passed
    <3> HIDE DEF passed
    <3> QED BY <1>1, <2>1
  <2>3. high = Bound(ivs, passed)
    BY DEF UpperBound
  <2> HIDE DEF passed, high
  <2>4. high \in 0..n /\ \A i \in 1..n : ivs[i] \in passed <=> i <= high
    BY <2>2, <2>3, BoundProperties
  <2> QED BY <2>1, <2>4
<1>4. CommitsBetween(ivs, min, max) = {ivs[i] : i \in (low + 1)..high}
  BY DEF CommitsBetween
<1> HIDE DEF low, high
<1>5. \A i \in 1..n : i \in (low + 1)..high <=> ivs[i].start \in min..max
  BY <1>1, <1>2, <1>3
<1>6. (low + 1)..high \subseteq 1..n
  BY <1>2, <1>3
<1> QED BY <1>1, <1>4, <1>5, <1>6

\* The intervals of the edges and of the commits lie in the list.
LEMMA IntervalsInList ==
  ASSUME IInv, NEW m \in Nat, NEW visual, Shows(visual, m + 1)
  PROVE  /\ {Interval(visual, e) : e \in Edges} \subseteq [start : 0..m, end : 0..m]
         /\ \A stashed : CommitRows(visual, stashed) \subseteq [start : 0..m, end : 0..m]
<1>1. \A i \in 1..row : visual[i] \in 0..m
  BY DEF Shows
<1>2. ASSUME NEW e \in Edges PROVE Interval(visual, e) \in [start : 0..m, end : 0..m]
  <2>1. e.from \in 1..row /\ e.to \in 1..row
    BY LaidOut
  <2>2. visual[e.from] \in 0..m /\ visual[e.to] \in 0..m
    BY <1>1, <2>1
  <2> QED BY <2>2 DEF Interval, Smaller, Larger
<1>3. ASSUME NEW stashed
      PROVE  CommitRows(visual, stashed) \subseteq [start : 0..m, end : 0..m]
  BY <1>1 DEF CommitRows
<1> QED BY <1>2, <1>3

\* In a list of any kind, the query finds the edges that cross a viewport, and the
\* binary searches the commits in it, whichever entries are stashes.
THEOREM IndexIsExact ==
  ASSUME IInv, NEW m \in Nat, NEW visual, Shows(visual, m + 1),
         NEW min \in Int, NEW max \in Int, NEW stashed
  PROVE  LET ivs == {Interval(visual, e) : e \in Edges}
             commits == CommitRows(visual, stashed)
         IN /\ Query(Sorted(ivs), min, max) = {v \in ivs : v.start <= max /\ v.end >= min}
            /\ CommitsBetween(Sorted(commits), min, max) = {v \in commits : v.start \in min..max}
<1> DEFINE ivs == {Interval(visual, e) : e \in Edges}
           commits == CommitRows(visual, stashed)
<1>1. ivs \subseteq [start : 0..m, end : 0..m] /\ commits \subseteq [start : 0..m, end : 0..m]
  BY IntervalsInList
<1> HIDE DEF ivs, commits
<1>2. Query(Sorted(ivs), min, max) = {v \in ivs : v.start <= max /\ v.end >= min}
  <2> DEFINE sorted == Sorted(ivs)
             n == Len(sorted)
  <2>1. /\ n \in Nat /\ sorted \in [1..n -> Intervals] /\ Range(sorted) = ivs
        /\ \A i, j \in 1..n : i < j => sorted[i].start <= sorted[j].start
    BY <1>1, SortedWalks
  <2> HIDE DEF sorted
  <2>2. Query(sorted, min, max) = {v \in Range(sorted) : v.start <= max /\ v.end >= min}
    BY <2>1, QueryProperties
  <2> QED BY <2>1, <2>2 DEF sorted
<1>3. CommitsBetween(Sorted(commits), min, max) = {v \in commits : v.start \in min..max}
  <2> DEFINE sorted == Sorted(commits)
             n == Len(sorted)
  <2>1. /\ n \in Nat /\ sorted \in [1..n -> Intervals] /\ Range(sorted) = commits
        /\ \A i, j \in 1..n : i < j => sorted[i].start <= sorted[j].start
    BY <1>1, SortedWalks
  <2> HIDE DEF sorted
  <2>2. CommitsBetween(sorted, min, max) = {v \in Range(sorted) : v.start \in min..max}
    BY <2>1, CommitsProperties
  <2> QED BY <2>1, <2>2 DEF sorted
<1> QED BY <1>2, <1>3 DEF ivs, commits

\* Without rows of a stash in the list, that is what the index is asked.
LEMMA QueriesHold == IInv => QueryIsExact
<1> SUFFICES ASSUME IInv PROVE QueryIsExact
  OBVIOUS
<1> DEFINE visual == Visual(row + 1, 0)
           ivs == {Interval(visual, e) : e \in Edges}
<1>1. row \in Nat
  BY LaidOut
<1>2. Shows(visual, row + 1)
  <2>1. row + 1 \in 1..(row + 1) /\ 0 \in Nat /\ ListRows(0) = row + 1
    BY <1>1 DEF ListRows
  <2> QED BY <1>1, <2>1, VisualShows
<1>3. ASSUME NEW min \in -1..(row + 1), NEW max \in -1..(row + 1), NEW stashed
      PROVE  LET commits == CommitRows(visual, stashed)
             IN /\ Query(Sorted(ivs), min, max) = {v \in ivs : v.start <= max /\ v.end >= min}
                /\ CommitsBetween(Sorted(commits), min, max) = {v \in commits : v.start \in min..max}
  <2>1. min \in Int /\ max \in Int
    BY <1>1
  <2> HIDE DEF visual
  <2> QED BY <1>1, <1>2, <2>1, IndexIsExact
<1> QED BY <1>3, Zenon DEF QueryIsExact

-----------------------------------------------------------------------------
(* Theorems about the history view.                                          *)

\* The array the occupancy tree is kept in has room for every node buildLaneOccupancy
\* comes to, however many rows the list has: no write is lost past its end.
THEOREM TreeHasRoom ==
  \A count \in Nat \ {0} :
    \A n \in Heap(count) :
      IsNode(Halves(count), n) /\ Halves(count)[n].left < Halves(count)[n].right
        => 2 * n \in Heap(count) /\ 2 * n + 1 \in Heap(count)
  BY HalvesEquation, TreeFits

\* The marker of a stash outside the window never stands on a node or a line that
\* crosses its rows, and no further right than they or its anchor ask, whatever the
\* row it is listed at, its context rows and its anchor.
THEOREM MarkersAreClear == Spec => []MarkersStandClear
  BY Inductive, MarkersHold, PTL

\* The paint index always finds the edges that cross a viewport and the commits in
\* it, all of them and no other.
THEOREM QueriesAreExact == Spec => []QueryIsExact
  BY Inductive, QueriesHold, PTL
=============================================================================
