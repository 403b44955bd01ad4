------------------------ MODULE CommitIdentityProofs ------------------------
(***************************************************************************)
(* What CommitIdentity guarantees for every set of cards and worktrees, every *)
(* identity and every number of calls, proved. The argument: the queue of a  *)
(* repository admits one call at a time, so its lock, its marker and its     *)
(* config follow one write; and whatever overtakes the identity on screen is *)
(* owed a read that is still to come.                                        *)
(***************************************************************************)
EXTENDS CommitIdentity, FiniteSetTheorems, TLAPS

InQueue == {"waits", "sent", "writes", "wrote", "threw"}
Writing == InQueue \ {"waits"}
CardOrNone == Cards \cup {None}

\* What is asked for, and not yet written and answered.
Owed(i) == pc[i] \in InQueue

\* The turn of i is to come or under way.
Holds(i) == Owed(i) \/ (pc[i] = "reads" /\ call[i].kind = "reconcile")

Call == [kind : {"none", "apply", "clear", "reconcile"}, want : Tuples \cup {None},
         key : Repos \cup {None}, after : Nat]
Reading == [at : {"none", "asked", "read", "failed"}, path : Paths \cup {None}, gen : Nat,
            got : Identities, older : SUBSET Readers, late : BOOLEAN]
Job == [by : Nat, left : SUBSET Fields, undo : BOOLEAN, old : Identities, was : Identities]

\* Every variable of the queue has the shape its map or closure has.
QueueTyped ==
  /\ asked \in 0..MaxCalls
  /\ pc \in [CallIds -> InQueue \cup {"idle", "reads", "over"}]
  /\ call \in [CallIds -> Call]
  /\ tails \in [Repos -> Nat] /\ latest \in [Repos -> Nat]
  /\ intents \in [Repos -> [by : Nat, card : CardOrNone]]

\* So has every variable of the cards, of the screen and of git.
StoreTyped ==
  /\ cards \in [Cards -> 0..(MaxEdits + 1)]
  /\ applied \in [Repos -> CardOrNone] /\ given \in [Repos -> CardOrNone]
  /\ open \in Paths \cup {None} /\ pins \in Nat /\ blind \in BOOLEAN
  /\ shown \in Identities /\ cache \in [Repos -> Identities]
  /\ reads \in [Readers -> Reading] /\ synced \in 0..MaxSyncs
  /\ cfg \in [Repos -> Identities] /\ job \in [Repos -> Job]
  /\ torn \in [Repos -> {"no", "clear", "set"}]

\* A call that is not yet over is one that was made, for a repository, and only a
\* card or a clear is sent to git.
CallsFit ==
  \A i \in CallIds :
    /\ pc[i] # "idle" => i <= asked
    /\ Owed(i) \/ pc[i] = "reads" => call[i].key \in Repos /\ call[i].kind # "none"
    /\ call[i].kind = "apply" => call[i].want \in Tuples
    /\ call[i].kind = "clear" => call[i].want = None
    /\ pc[i] \in Writing => call[i].kind \in {"apply", "clear"}

\* A call awaits the read it asked for.
ReadsFit ==
  /\ \A x \in CallIds : reads[x].at # "none" => pc[x] = "reads"
  /\ \A x \in Readers : reads[x].gen <= pins /\ (reads[x].at # "none" => reads[x].path \in Paths)

\* While the turn of i is not over, a later call of its repository waits, and for a
\* call whose turn is not over either.
TurnsFit ==
  \A i, j \in CallIds :
    i < j /\ call[i].key = call[j].key /\ Holds(i) /\ Holds(j) =>
      LET a == call[j].after
      IN /\ pc[j] = "waits"
         /\ a \in CallIds /\ i <= a /\ a < j
         /\ Holds(a) /\ call[a].key = call[j].key

\* The tail of a repository is the last call whose turn is not over.
TailsFit ==
  \A i \in CallIds :
    Holds(i) => LET t == tails[Key(i)]
                IN t \in CallIds /\ i <= t /\ Holds(t) /\ call[t].key = Key(i)

QueueInv == QueueTyped /\ StoreTyped /\ CallsFit /\ ReadsFit /\ TurnsFit /\ TailsFit

\* As long as a repository is owed a write, its newest call is still to be answered.
LatestFit ==
  \A i \in CallIds :
    Owed(i) => LET l == latest[Key(i)]
               IN l \in CallIds /\ i <= l /\ Owed(l) /\ call[l].key = Key(i)

\* The newest call carries a card that still exists: a deletion makes another newest.
IntentFit ==
  \A i \in CallIds :
    Owed(i) /\ IsLatest(i) /\ call[i].kind = "apply" =>
      intents[Key(i)] = [by |-> i, card |-> call[i].want[1]] /\ Exists(i)

\* The card a finished write has given its repository.
Gives(i) == IF call[i].kind = "clear" THEN None ELSE call[i].want[1]

Alive(c) == c # None => cards[c] > 0

\* The marker is behind the config only while the answer of a write is on its way.
MarkerFit ==
  /\ \A i \in CallIds : pc[i] = "wrote" => given[Key(i)] = Gives(i)
  /\ \A k \in Repos :
       /\ Alive(applied[k])
       /\ Alive(given[k]) /\ applied[k] # given[k] =>
            \E i \in CallIds : pc[i] = "wrote" /\ Key(i) = k

\* A lock is held by the call that writes, and by no other.
LocksFit ==
  /\ \A i \in CallIds : pc[i] = "writes" => job[Key(i)].by = i
  /\ \A k \in Repos : LET i == job[k].by
                       IN i # 0 => i \in CallIds /\ pc[i] = "writes" /\ Key(i) = k

\* What a config may hold, given what its last write left behind.
Fit(config, left) ==
  \/ Whole(config)
  \/ left = "clear" /\ config["sign"] = None
  \/ left = "set"

\* A config nobody writes is fit; one being written can still be put back, or is what
\* is wanted as far as the write has come.
ConfigFit ==
  \A k \in Repos :
    LET j == job[k]
    IN /\ j.by = 0 => Fit(cfg[k], torn[k])
       /\ j.by # 0 =>
            /\ Fit(j.was, torn[k])
            /\ j.undo => call[j.by].kind = "apply"
            /\ ~j.undo =>
                 /\ \A f \in Fields :
                      cfg[k][f] = IF f \in j.left THEN j.was[f] ELSE Wanted(call[j.by].want)[f]
                 /\ call[j.by].kind = "clear" /\ "sign" \in j.left => j.left = Fields

\* Who the next commit would be by.
Truth == Seen(cfg[KeyOf[open]])

\* An answer on its way that would show what the config no longer holds.
Stale(y) == MayLand(y) /\ reads[y].got # Truth /\ ~reads[y].late

\* A read that brings the truth, or fails, and is newer than every stale one.
Brings(x) ==
  /\ reads[x].path = open /\ reads[x].gen = pins
  /\ \/ reads[x].at = "asked"
     \/ /\ reads[x].at = "failed" \/ (reads[x].at = "read" /\ reads[x].got = Truth)
        /\ \A y \in Readers : Stale(y) => y \in reads[x].older

Tells == (shown = Truth \/ blind) /\ \A y \in Readers : ~Stale(y)

Pending(k) == \E i \in CallIds : Owed(i) /\ Key(i) = k

\* The screen tells the truth, or is owed a read or a write that is still to come.
TruthFit ==
  open # None => Pending(KeyOf[open]) \/ (\E x \in Readers : Brings(x)) \/ Tells

-----------------------------------------------------------------------------
(* The queue.                                                                *)

\* No earlier call of its repository has its turn to come.
First(i) == \A j \in CallIds : j < i /\ Holds(j) => call[j].key # call[i].key

\* Whoever starts, writes or reads is first.
LEMMA FirstInLine ==
  ASSUME QueueInv, NEW i \in CallIds, Holds(i), Starting(i) \/ pc[i] # "waits"
  PROVE  First(i)
<1> SUFFICES ASSUME NEW j \in CallIds, j < i, Holds(j), call[j].key = call[i].key
             PROVE  FALSE
  BY DEF First
<1> DEFINE a == call[i].after
<1>1. pc[i] = "waits" /\ a \in CallIds /\ Holds(a)
  BY DEF QueueInv, TurnsFit
<1>2. Starting(i)
  BY <1>1
<1>3. a # 0 /\ ~TurnOver(a)
  BY <1>1, BoundsAssumption DEF CallIds, TurnOver, Holds, Owed, InQueue
<1> QED BY <1>2, <1>3 DEF Starting

\* New calls join behind the tails.
LEMMA JoinKeeps ==
  ASSUME QueueInv, NEW new, NEW ids \in SUBSET CallIds, DOMAIN new = ids, Queues(new),
         asked' \in asked..MaxCalls, ids \subseteq asked + 1 .. asked',
         \A i \in ids : /\ new[i] \in Call /\ new[i].kind # "none" /\ new[i].key \in Repos
                        /\ new[i].kind = "apply" => new[i].want \in Tuples
                        /\ new[i].kind = "clear" => new[i].want = None
                        /\ new[i].after = tails[new[i].key],
         \A i, j \in ids : new[i].key = new[j].key => i = j,
         latest' \in [Repos -> Nat],
         intents' \in [Repos -> [by : Nat, card : CardOrNone]]
  PROVE  /\ QueueTyped' /\ CallsFit' /\ TurnsFit' /\ TailsFit'
         /\ \A i \in ids : pc[i] = "idle" /\ pc'[i] = "waits" /\ call'[i] = new[i]
         /\ \A i \in CallIds \ ids : pc'[i] = pc[i] /\ call'[i] = call[i]
<1> USE DEF QueueInv
<1>1. /\ \A i \in ids : pc'[i] = "waits" /\ call'[i] = new[i]
      /\ \A i \in CallIds \ ids : pc'[i] = pc[i] /\ call'[i] = call[i]
      /\ tails' = [k \in Repos |->
                     IF \E i \in ids : new[i].key = k
                       THEN CHOOSE i \in ids : new[i].key = k ELSE tails[k]]
  BY DEF Queues
<1>2. /\ MaxCalls \in Nat /\ CallIds \subseteq Nat \ {0} /\ asked \in Nat /\ asked' \in Nat
  BY BoundsAssumption DEF CallIds, QueueTyped
<1>3. \A i \in ids : asked < i /\ i <= asked' /\ pc[i] = "idle"
  BY <1>2 DEF CallsFit
<1>4. \A i \in CallIds : Holds(i) => i <= asked /\ i \notin ids
  BY <1>3 DEF CallsFit, Holds, Owed, InQueue
<1>5. \A i \in CallIds : Holds(i)' <=> Holds(i) \/ i \in ids
  BY <1>1, <1>3 DEF Holds, Owed, InQueue
<1>6. \A k \in Repos : \A i \in ids : new[i].key = k => tails'[k] = i
  BY <1>1
<1>7. \A k \in Repos : (\A i \in ids : new[i].key # k) => tails'[k] = tails[k]
  BY <1>1
<1>8. QueueTyped'
  <2>1. asked' \in 0..MaxCalls
    BY <1>2
  <2>2. pc' \in [CallIds -> InQueue \cup {"idle", "reads", "over"}]
    BY DEF Queues, QueueTyped, InQueue
  <2>3. call' \in [CallIds -> Call]
    BY DEF Queues, QueueTyped
  <2>4. tails' \in [Repos -> Nat]
    BY <1>1, <1>2, <1>6, <1>7 DEF QueueTyped
  <2> QED BY <2>1, <2>2, <2>3, <2>4 DEF QueueTyped
<1>9. CallsFit'
  <2> SUFFICES ASSUME NEW i \in CallIds
               PROVE  /\ pc'[i] # "idle" => i <= asked'
                      /\ Owed(i)' \/ pc'[i] = "reads" => call'[i].key \in Repos /\ call'[i].kind # "none"
                      /\ call'[i].kind = "apply" => call'[i].want \in Tuples
                      /\ call'[i].kind = "clear" => call'[i].want = None
                      /\ pc'[i] \in Writing => call'[i].kind \in {"apply", "clear"}
    BY DEF CallsFit
  <2>1. CASE i \in ids
    BY <1>1, <1>2, <1>3, <2>1 DEF Writing
  <2>2. CASE i \notin ids
    BY <1>1, <1>2, <2>2 DEF CallsFit, Owed
  <2> QED BY <2>1, <2>2
<1>10. TurnsFit'
  <2> SUFFICES ASSUME NEW i \in CallIds, NEW j \in CallIds,
                      i < j, call'[i].key = call'[j].key, Holds(i)', Holds(j)',
                      NEW a, a = call'[j].after
               PROVE  /\ pc'[j] = "waits"
                      /\ a \in CallIds /\ i <= a /\ a < j
                      /\ Holds(a)' /\ call'[a].key = call'[j].key
    BY DEF TurnsFit
  <2>1. CASE j \in ids
    <3>1. i \notin ids /\ Holds(i)
      BY <1>1, <1>2, <1>5, <2>1
    <3>2. /\ a = tails[call[i].key] /\ call[i].key = new[j].key
      BY <1>1, <2>1, <3>1
    <3>3. /\ a \in CallIds /\ i <= a /\ Holds(a) /\ call[a].key = call[i].key
      BY <3>1, <3>2 DEF TailsFit, Key
    <3>4. a <= asked /\ asked < j /\ a \notin ids
      BY <1>3, <1>4, <2>1, <3>3
    <3> QED BY <1>1, <1>2, <1>5, <2>1, <3>2, <3>3, <3>4
  <2>2. CASE j \notin ids
    <3>1. Holds(j) /\ j <= asked
      BY <1>4, <1>5, <2>2
    <3>2. i \notin ids /\ Holds(i)
      BY <1>2, <1>3, <1>5, <3>1
    <3>3. /\ pc[j] = "waits" /\ call[j].after = a
          /\ a \in CallIds /\ i <= a /\ a < j /\ Holds(a) /\ call[a].key = call[j].key
      BY <1>1, <2>2, <3>1, <3>2 DEF TurnsFit
    <3> QED BY <1>1, <1>4, <1>5, <2>2, <3>3
  <2> QED BY <2>1, <2>2
<1>11. TailsFit'
  <2> SUFFICES ASSUME NEW i \in CallIds, Holds(i)', NEW k, k = call'[i].key,
                      NEW t, t = tails'[k]
               PROVE  t \in CallIds /\ i <= t /\ Holds(t)' /\ call'[t].key = k
    BY DEF TailsFit, Key
  <2>0. k \in Repos
    BY <1>1, <1>5 DEF CallsFit, Holds
  <2>1. CASE i \in ids
    <3>1. t = i /\ i <= i /\ call'[i].key = k
      BY <1>1, <1>2, <1>6, <2>0, <2>1
    <3> QED BY <3>1
  <2>2. ASSUME i \notin ids, NEW n \in ids, new[n].key = k
        PROVE  t \in CallIds /\ i <= t /\ Holds(t)' /\ call'[t].key = k
    <3>1. Holds(i) /\ i <= asked /\ asked < n
      BY <1>3, <1>4, <1>5, <2>2
    <3> QED BY <1>1, <1>2, <1>5, <1>6, <2>0, <2>2, <3>1
  <2>3. CASE i \notin ids /\ \A n \in ids : new[n].key # k
    <3>1. t = tails[k] /\ Holds(i) /\ call[i].key = k
      BY <1>1, <1>5, <1>7, <2>0, <2>3
    <3>2. t \in CallIds /\ i <= t /\ Holds(t) /\ call[t].key = k
      BY <3>1 DEF TailsFit, Key
    <3> QED BY <1>1, <1>4, <1>5, <3>1, <3>2
  <2> QED BY <2>1, <2>2, <2>3
<1> QED BY <1>1, <1>3, <1>8, <1>9, <1>10, <1>11

\* One call takes a step: from one phase of its turn to another, to the read it ends
\* with, or out of the queue.
LEMMA MoveKeeps ==
  ASSUME QueueInv, NEW i \in CallIds, pc[i] # "idle", Holds(i) => First(i),
         NEW to \in Writing \cup {"reads", "over"}, Goes(i, to),
         to \in Writing => Owed(i) /\ call[i].kind \in {"apply", "clear"},
         to = "reads" => Owed(i),
         call' = IF to = "over" THEN [call EXCEPT ![i] = NoCall] ELSE call,
         IF to \in Writing \/ (to = "reads" /\ call[i].kind = "reconcile") \/ ~Holds(i)
           THEN tails' = tails ELSE EndsTurn(i),
         asked' = asked, latest' = latest,
         intents' \in [Repos -> [by : Nat, card : CardOrNone]]
  PROVE  QueueTyped' /\ CallsFit' /\ TurnsFit' /\ TailsFit'
<1> USE DEF QueueInv
<1>1. /\ pc' \in [CallIds -> InQueue \cup {"idle", "reads", "over"}]
      /\ pc'[i] = to /\ \A j \in CallIds \ {i} : pc'[j] = pc[j]
  BY DEF Goes, QueueTyped, Writing, InQueue
<1>2. /\ call' \in [CallIds -> Call] /\ \A j \in CallIds \ {i} : call'[j] = call[j]
      /\ to # "over" => call'[i] = call[i]
      /\ to = "over" => call'[i].kind = "none"
  <2>1. NoCall \in Call
    BY DEF NoCall, Call
  <2> QED BY <2>1 DEF QueueTyped, NoCall
<1>3. \A j \in CallIds \ {i} : Holds(j)' <=> Holds(j)
  BY <1>1, <1>2 DEF Holds, Owed
<1>4. Holds(i)' <=> to \in Writing \/ (to = "reads" /\ call[i].kind = "reconcile")
  BY <1>1, <1>2 DEF Holds, Owed, Writing, InQueue
<1>5. Holds(i)' => Holds(i)
  BY <1>4 DEF Holds
<1>6. Holds(i) => Key(i) \in Repos
  BY DEF CallsFit, Holds, Key
<1>7. /\ tails' \in [Repos -> Nat]
      /\ \A k \in Repos : \/ tails'[k] = tails[k]
                          \/ tails[k] = i /\ Holds(i) /\ ~Holds(i)'
  <2>1. CASE tails' = tails
    BY <2>1 DEF QueueTyped
  <2>2. CASE EndsTurn(i) /\ Holds(i) /\ ~Holds(i)'
    BY <2>2 DEF EndsTurn, QueueTyped
  <2> QED BY <1>4, <2>1, <2>2
<1>8. QueueTyped'
  BY <1>1, <1>2, <1>7 DEF QueueTyped
<1>9. CallsFit'
  <2> SUFFICES ASSUME NEW j \in CallIds
               PROVE  /\ pc'[j] # "idle" => j <= asked'
                      /\ Owed(j)' \/ pc'[j] = "reads" => call'[j].key \in Repos /\ call'[j].kind # "none"
                      /\ call'[j].kind = "apply" => call'[j].want \in Tuples
                      /\ call'[j].kind = "clear" => call'[j].want = None
                      /\ pc'[j] \in Writing => call'[j].kind \in {"apply", "clear"}
    BY DEF CallsFit
  <2>1. CASE j # i
    BY <1>1, <1>2, <2>1 DEF CallsFit, Owed
  <2>2. CASE j = i /\ to = "over"
    BY <1>1, <1>2, <2>2 DEF CallsFit, Owed, Writing, InQueue
  <2>3. CASE j = i /\ to # "over"
    <3>1. Owed(i)
      BY <2>3
    <3> QED BY <1>1, <1>2, <2>3, <3>1 DEF CallsFit, Owed, Writing
  <2> QED BY <2>1, <2>2, <2>3
<1>10. TurnsFit'
  <2> SUFFICES ASSUME NEW h \in CallIds, NEW j \in CallIds,
                      h < j, call'[h].key = call'[j].key, Holds(h)', Holds(j)',
                      NEW a, a = call'[j].after
               PROVE  /\ pc'[j] = "waits"
                      /\ a \in CallIds /\ h <= a /\ a < j
                      /\ Holds(a)' /\ call'[a].key = call'[j].key
    BY DEF TurnsFit
  <2>1. Holds(h) /\ Holds(j) /\ call'[h] = call[h] /\ call'[j] = call[j]
    BY <1>2, <1>3, <1>4, <1>5 DEF Writing, InQueue
  <2>2. j # i
    BY <2>1 DEF First
  <2>3. /\ pc[j] = "waits" /\ a \in CallIds /\ h <= a /\ a < j
        /\ Holds(a) /\ call[a].key = call[j].key
    BY <2>1 DEF TurnsFit
  <2>4. a = i => h = i
    BY <1>2, <2>1, <2>3, BoundsAssumption DEF First, CallIds
  <2>5. Holds(a)'
    BY <1>3, <2>3, <2>4
  <2>6. call'[a] = call[a]
    BY <1>2, <2>1, <2>3, <2>4
  <2> QED BY <1>1, <2>1, <2>2, <2>3, <2>5, <2>6
<1>11. TailsFit'
  <2> SUFFICES ASSUME NEW h \in CallIds, Holds(h)', NEW k, k = call'[h].key, NEW t, t = tails'[k]
               PROVE  t \in CallIds /\ h <= t /\ Holds(t)' /\ call'[t].key = k
    BY DEF TailsFit, Key
  <2>1. Holds(h) /\ call'[h] = call[h] /\ k \in Repos
    BY <1>2, <1>3, <1>4, <1>5 DEF Writing, InQueue, CallsFit, Holds
  <2>2. tails[k] \in CallIds /\ h <= tails[k] /\ Holds(tails[k]) /\ call[tails[k]].key = k
    BY <2>1 DEF TailsFit, Key
  <2>3. tails[k] = i => h = i
    BY <2>1, <2>2, BoundsAssumption DEF First, CallIds
  <2>4. t = tails[k]
    BY <1>7, <2>1, <2>3
  <2>5. Holds(t)'
    BY <1>3, <2>2, <2>3, <2>4
  <2>6. call'[t] = call[t]
    BY <1>2, <2>1, <2>2, <2>3, <2>4
  <2> QED BY <2>2, <2>4, <2>5, <2>6
<1> QED BY <1>8, <1>9, <1>10, <1>11

\* Everything else leaves the queue alone.
LEMMA BesideKeeps ==
  ASSUME QueueInv, UNCHANGED <<queueVars, pc>>
  PROVE  QueueTyped' /\ CallsFit' /\ TurnsFit' /\ TailsFit'
BY DEF QueueInv, queueVars, QueueTyped, CallsFit, TurnsFit, TailsFit, Holds, Owed, Key

-----------------------------------------------------------------------------
(* The actions keep the queue.                                               *)

\* What is wanted, held or seen is an identity.
LEMMA IdentityTypes ==
  /\ Blank \in Identities
  /\ \A t \in Tuples : Tuple(t) \in Identities
  /\ \A t \in Tuples \cup {None} : Wanted(t) \in Identities
  /\ \A config \in Identities : Seen(config) \in Identities
<1>1. Blank \in Identities
  BY DEF Blank, Identities
<1>2. ASSUME NEW t \in Tuples PROVE Tuple(t) \in Identities
  BY DEF Tuple, Identities
<1>3. ASSUME NEW t \in Tuples \cup {None} PROVE Wanted(t) \in Identities
  BY <1>1, <1>2 DEF Wanted
<1>4. ASSUME NEW config \in Identities PROVE Seen(config) \in Identities
  BY <1>1, Zenon DEF Seen
<1> QED BY <1>1, <1>2, <1>3, <1>4

\* A reader is free to ask, under the pins of that moment.
LEMMA AskFits ==
  ASSUME StoreTyped, ReadsFit, NEW x \in Readers, NEW p \in Paths, Asks(x, p),
         pins' \in Nat, pins <= pins', x \in CallIds => pc'[x] = "reads",
         \A y \in CallIds \ {x} : pc[y] = "reads" => pc'[y] = "reads"
  PROVE  /\ reads' \in [Readers -> Reading] /\ ReadsFit'
         /\ \A y \in Readers \ {x} : reads'[y] = reads[y]
         /\ reads'[x].at = "asked" /\ reads'[x].path = p /\ reads'[x].gen = pins'
<1> DEFINE new == [NoRead EXCEPT !.at = "asked", !.path = p, !.gen = pins']
<1>1. new \in Reading /\ new.at = "asked" /\ new.path = p /\ new.gen = pins'
  BY IdentityTypes DEF NoRead, Reading
<1>2. reads' = [reads EXCEPT ![x] = new]
  BY DEF Asks
<1> HIDE DEF new
<1>3. /\ reads' \in [Readers -> Reading]
      /\ \A y \in Readers \ {x} : reads'[y] = reads[y]
      /\ reads'[x] = new
  BY <1>1, <1>2 DEF StoreTyped
<1>4. CallIds \subseteq Readers
  BY BoundsAssumption DEF CallIds, Readers
<1>5. ReadsFit'
  <2>1. ASSUME NEW y \in CallIds, reads'[y].at # "none" PROVE pc'[y] = "reads"
    BY <1>3, <1>4, <2>1 DEF ReadsFit
  <2>2. ASSUME NEW y \in Readers
        PROVE  reads'[y].gen <= pins' /\ (reads'[y].at # "none" => reads'[y].path \in Paths)
    BY <1>1, <1>3, <2>2 DEF ReadsFit, StoreTyped, Reading
  <2> QED BY <2>1, <2>2 DEF ReadsFit
<1> QED BY <1>1, <1>3, <1>5

\* A click.
LEMMA AppliesKeeps ==
  ASSUME QueueInv, NEW c \in CardOrNone, Applies(c), NEW n, n = asked + 1
  PROVE  /\ QueueInv'
         /\ n \in CallIds /\ pc[n] = "idle" /\ pc'[n] = "waits"
         /\ call'[n].key = KeyOf[open] /\ KeyOf[open] \in Repos
         /\ call'[n].kind = "apply" => c # None /\ call'[n].want[1] = c
         /\ \A j \in CallIds \ {n} : pc'[j] = pc[j] /\ call'[j] = call[j] /\ (Owed(j) => j < n)
<1> USE DEF QueueInv
<1> DEFINE i == asked + 1
           k == KeyOf[open]
           one == IF c = None THEN Queued("clear", None, k)
                              ELSE Queued("apply", <<c, cards[c]>>, k)
           new == [j \in {i} |-> one]
<1>1. /\ open \in Paths /\ k \in Repos /\ asked \in Nat /\ MaxCalls \in Nat /\ asked < MaxCalls
      /\ i \in CallIds
  BY BoundsAssumption DEF Applies, StoreTyped, QueueTyped, Repos, CallIds
<1>2. c # None => <<c, cards[c]>> \in Tuples
  BY DEF Applies, StoreTyped, Tuples, CardOrNone
<1>3. /\ one \in Call /\ one.kind # "none" /\ one.key = k /\ one.after = tails[k]
      /\ one.kind = "apply" => one.want \in Tuples
      /\ one.kind = "clear" => one.want = None
      /\ one.kind = "apply" => c # None /\ one.want[1] = c
  BY <1>1, <1>2 DEF Queued, Call, QueueTyped
<1>4. Queues(new) /\ latest' = [latest EXCEPT ![k] = i]
      /\ intents' = [intents EXCEPT ![k] = [by |-> i, card |-> c]]
  BY DEF Applies
<1> HIDE DEF one
<1>5. asked' = asked + 1
  BY <1>4, FS_Singleton DEF Queues
<1>6. /\ {i} \in SUBSET CallIds /\ DOMAIN new = {i} /\ asked' \in asked..MaxCalls
      /\ {i} \subseteq asked + 1 .. asked'
  BY <1>1, <1>5
<1>7. \A j \in {i} : /\ new[j] \in Call /\ new[j].kind # "none" /\ new[j].key \in Repos
                     /\ new[j].kind = "apply" => new[j].want \in Tuples
                     /\ new[j].kind = "clear" => new[j].want = None
                     /\ new[j].after = tails[new[j].key]
  BY <1>1, <1>3
<1>8. latest' \in [Repos -> Nat] /\ intents' \in [Repos -> [by : Nat, card : CardOrNone]]
  BY <1>1, <1>4 DEF QueueTyped
<1>9. PICK ids : ids = {i}
  OBVIOUS
<1>10. PICK made : made = new
  OBVIOUS
<1>11. /\ ids \in SUBSET CallIds /\ DOMAIN made = ids /\ Queues(made)
       /\ asked' \in asked..MaxCalls /\ ids \subseteq asked + 1 .. asked'
  BY <1>4, <1>6, <1>9, <1>10
<1>12. /\ \A j \in ids : /\ made[j] \in Call /\ made[j].kind # "none" /\ made[j].key \in Repos
                         /\ made[j].kind = "apply" => made[j].want \in Tuples
                         /\ made[j].kind = "clear" => made[j].want = None
                         /\ made[j].after = tails[made[j].key]
       /\ \A j, l \in ids : made[j].key = made[l].key => j = l
  BY <1>7, <1>9, <1>10
<1>13. /\ QueueTyped' /\ CallsFit' /\ TurnsFit' /\ TailsFit'
       /\ \A j \in ids : pc[j] = "idle" /\ pc'[j] = "waits" /\ call'[j] = made[j]
       /\ \A j \in CallIds \ ids : pc'[j] = pc[j] /\ call'[j] = call[j]
  BY <1>8, <1>11, <1>12, JoinKeeps
<1>14. StoreTyped' /\ ReadsFit'
  <2>1. UNCHANGED <<listVars, viewVars, readVars, gitVars>>
    BY DEF Applies
  <2>2. \A j \in CallIds : pc[j] = "reads" => pc'[j] = "reads"
    BY <1>13
  <2> QED BY <2>1, <2>2 DEF StoreTyped, ReadsFit, listVars, viewVars, readVars, gitVars
<1>15. /\ n \in CallIds /\ pc[n] = "idle" /\ pc'[n] = "waits" /\ call'[n] = one
       /\ \A j \in CallIds \ {n} : pc'[j] = pc[j] /\ call'[j] = call[j]
  BY <1>1, <1>9, <1>10, <1>13
<1>16. \A j \in CallIds : Owed(j) => j < n
  BY <1>1 DEF CallsFit, Owed, InQueue, CallIds
<1> QED BY <1>1, <1>3, <1>13, <1>14, <1>15, <1>16

\* The repositories whose newest intent is for this card.
Hit(c) == {k \in Repos : intents[k].card = c}

\* A deletion queues a read behind every intent for the card.
LEMMA DeletesKeeps ==
  ASSUME QueueInv, NEW c \in Cards, Deletes(c)
  PROVE  /\ QueueInv'
         /\ \A i \in CallIds : pc[i] # "idle" => pc'[i] = pc[i] /\ call'[i] = call[i]
         /\ \A i \in CallIds : Owed(i)' =>
              \/ Owed(i)
              \/ latest'[call'[i].key] = i /\ call'[i].kind = "reconcile"
         /\ \A k \in Hit(c) : LET i == latest'[k]
                          IN /\ i \in CallIds /\ pc[i] = "idle" /\ pc'[i] = "waits"
                             /\ call'[i].key = k /\ call'[i].kind = "reconcile"
                             /\ \A j \in CallIds : Owed(j) => j < i
         /\ \A k \in Repos \ Hit(c) : latest'[k] = latest[k]
<1> USE DEF QueueInv
<1> DEFINE hit == Hit(c)
           top == asked + Cardinality(hit)
<1>1. PICK names \in [hit -> asked + 1 .. top] :
        /\ \A k, l \in hit : names[k] = names[l] => k = l
        /\ latest' = [k \in Repos |-> IF k \in hit THEN names[k] ELSE latest[k]]
        /\ Queues([i \in {names[k] : k \in hit} |->
                     Queued("reconcile", None, CHOOSE k \in hit : names[k] = i)])
  BY Zenon DEF Deletes, Hit
<1>2. top <= MaxCalls /\ UNCHANGED <<viewVars, readVars, intents, gitVars>>
  BY DEF Deletes, Hit
<1>3. PICK ids : ids = {names[k] : k \in hit}
  OBVIOUS
<1>4. PICK new : new = [i \in ids |-> Queued("reconcile", None, CHOOSE k \in hit : names[k] = i)]
  OBVIOUS
<1>5. Queues(new) /\ DOMAIN new = ids
  BY <1>1, <1>3, <1>4
<1>6. IsFiniteSet(hit)
  <2>1. IsFiniteSet(Paths)
    BY CardsAssumption
  <2>2. IsFiniteSet(Repos)
    <3> DEFINE key == [p \in Paths |-> KeyOf[p]]
    <3>1. key \in Surjection(Paths, Repos)
      BY DEF Surjection, Repos
    <3> QED BY <2>1, <3>1, FS_Surjection
  <2> QED BY <2>2, FS_Subset DEF Hit
<1>7. Cardinality(ids) = Cardinality(hit) /\ Cardinality(hit) \in Nat
  <2>1. names \in Surjection(hit, ids)
    BY <1>3 DEF Surjection
  <2>2. names \in Injection(hit, ids)
    BY <1>1, <2>1 DEF Injection, Surjection, IsInjective
  <2> QED BY <1>6, <2>1, <2>2, FS_Surjection, FS_CardinalityType
<1>8. /\ asked \in Nat /\ MaxCalls \in Nat /\ top \in Nat /\ asked <= top /\ asked' = top
  BY <1>5, <1>7, BoundsAssumption DEF Queues, QueueTyped
<1>9. /\ ids \subseteq asked + 1 .. asked' /\ ids \in SUBSET CallIds /\ asked' \in asked..MaxCalls
  BY <1>2, <1>3, <1>8 DEF CallIds
<1>10. ASSUME NEW k \in hit
       PROVE  /\ names[k] \in ids /\ new[names[k]] = Queued("reconcile", None, k)
              /\ new[names[k]].key = k /\ new[names[k]].kind = "reconcile"
  <2>1. names[k] \in ids
    BY <1>3
  <2>2. (CHOOSE l \in hit : names[l] = names[k]) = k
    BY <1>1
  <2>3. new[names[k]] = Queued("reconcile", None, k)
    BY <1>4, <2>1, <2>2
  <2> QED BY <2>1, <2>3 DEF Queued
<1>11. \A i \in ids : \E k \in hit : i = names[k]
  BY <1>3
<1>12. \A k \in hit : k \in Repos
  BY DEF Hit
<1>13. /\ \A i \in ids : /\ new[i] \in Call /\ new[i].kind = "reconcile" /\ new[i].key \in hit
                         /\ names[new[i].key] = i /\ new[i].after = tails[new[i].key]
       /\ \A i, j \in ids : new[i].key = new[j].key => i = j
  <2>1. ASSUME NEW i \in ids
        PROVE  /\ new[i] \in Call /\ new[i].kind = "reconcile" /\ new[i].key \in hit
               /\ names[new[i].key] = i /\ new[i].after = tails[new[i].key]
    <3>1. PICK k \in hit : i = names[k]
      BY <1>11
    <3>2. new[i] = Queued("reconcile", None, k) /\ k \in Repos /\ tails[k] \in Nat
      BY <1>10, <1>12, <3>1 DEF QueueTyped
    <3> QED BY <3>1, <3>2 DEF Queued, Call
  <2> QED BY <2>1
<1>14. latest' \in [Repos -> Nat] /\ intents' \in [Repos -> [by : Nat, card : CardOrNone]]
  BY <1>1, <1>2, <1>8 DEF QueueTyped
<1>15. /\ QueueTyped' /\ CallsFit' /\ TurnsFit' /\ TailsFit'
       /\ \A i \in ids : pc[i] = "idle" /\ pc'[i] = "waits" /\ call'[i] = new[i]
       /\ \A i \in CallIds \ ids : pc'[i] = pc[i] /\ call'[i] = call[i]
  <2>1. \A i \in ids : /\ new[i] \in Call /\ new[i].kind # "none" /\ new[i].key \in Repos
                       /\ new[i].kind = "apply" => new[i].want \in Tuples
                       /\ new[i].kind = "clear" => new[i].want = None
                       /\ new[i].after = tails[new[i].key]
    BY <1>12, <1>13
  <2> QED BY <1>5, <1>9, <1>13, <1>14, <2>1, JoinKeeps
<1>16. StoreTyped' /\ ReadsFit'
  <2>1. /\ cards' = [cards EXCEPT ![c] = 0]
        /\ applied' = [k \in Repos |-> IF applied[k] = c THEN None ELSE applied[k]]
    BY DEF Deletes
  <2>2. cards' \in [Cards -> 0..(MaxEdits + 1)] /\ applied' \in [Repos -> CardOrNone]
    BY <2>1, BoundsAssumption DEF StoreTyped, CardOrNone
  <2>3. \A j \in CallIds : pc[j] = "reads" => pc'[j] = "reads"
    BY <1>15
  <2> QED BY <1>2, <2>2, <2>3 DEF StoreTyped, ReadsFit, viewVars, readVars, gitVars
<1>17. \A k \in hit : latest'[k] = names[k]
  BY <1>1, <1>12
<1>18. \A j \in CallIds : Owed(j) => j <= asked
  BY DEF CallsFit, Owed, InQueue
<1>19. \A i \in ids : asked < i
  BY <1>8, <1>9
<1>20. \A i \in CallIds : Owed(i)' => Owed(i) \/ i \in ids
  BY <1>15 DEF Owed
<1>21. \A i \in ids : latest'[call'[i].key] = i /\ call'[i].kind = "reconcile"
  BY <1>13, <1>15, <1>17
<1>22. \A k \in Repos \ hit : latest'[k] = latest[k]
  BY <1>1
<1>23. \A k \in hit : /\ latest'[k] \in ids /\ call'[latest'[k]].key = k
                     /\ call'[latest'[k]].kind = "reconcile"
  BY <1>10, <1>15, <1>17
<1>24. ASSUME NEW k \in hit, NEW l, l = latest'[k]
       PROVE  /\ l \in CallIds /\ pc[l] = "idle" /\ pc'[l] = "waits"
              /\ \A j \in CallIds : Owed(j) => j < l
  <2>1. l \in ids /\ l \in CallIds /\ asked < l
    BY <1>9, <1>19, <1>23, <1>24
  <2>2. \A j \in CallIds : Owed(j) => j < l
    BY <1>8, <1>18, <2>1 DEF CallIds
  <2> QED BY <1>15, <2>1, <2>2
<1>25. \A i \in CallIds : pc[i] # "idle" => pc'[i] = pc[i] /\ call'[i] = call[i]
  BY <1>15
<1>26. QueueInv'
  BY <1>15, <1>16
<1> QED BY <1>20, <1>21, <1>22, <1>23, <1>24, <1>25, <1>26

\* What hydrateRepoIdentity and its like read of the tab on screen.
LEMMA CurrentPathIs ==
  ASSUME StoreTyped, NEW k
  PROVE  /\ CurrentPath(k) # None => open # None /\ CurrentPath(k) = open /\ KeyOf[open] = k /\ open \in Paths
         /\ open # None /\ KeyOf[open] = k => CurrentPath(k) # None
BY DEF CurrentPath, StoreTyped

\* The tab, the cards and the store change beside the queue.
LEMMA StoreStepKeeps ==
  ASSUME QueueInv,
         \/ \E c \in Cards : Edits(c)
         \/ \E p \in Paths : Syncs(p)
         \/ \E x \in Readers : Reads(x)
         \/ Leaves \/ Commits \/ CommitRuns
  PROVE  QueueInv' /\ UNCHANGED <<queueVars, pc>>
<1> USE DEF QueueInv
<1>1. UNCHANGED <<queueVars, pc>>
  BY Zenon DEF Edits, Syncs, Reads, Leaves, Commits, CommitRuns
<1>2. QueueTyped' /\ CallsFit' /\ TurnsFit' /\ TailsFit'
  BY <1>1, BesideKeeps
<1>3. ASSUME NEW c \in Cards, Edits(c) PROVE StoreTyped' /\ ReadsFit'
  <2>1. cards' \in [Cards -> 0..(MaxEdits + 1)]
    BY <1>3, BoundsAssumption DEF Edits, StoreTyped
  <2> QED BY <1>3, <2>1 DEF Edits, StoreTyped, ReadsFit, viewVars, readVars, gitVars
<1>4. ASSUME NEW p \in Paths, Syncs(p) PROVE StoreTyped' /\ ReadsFit'
  <2> DEFINE x == MaxCalls + synced'
  <2>1. /\ synced' = synced + 1 /\ open' = p /\ shown' = cache[KeyOf[p]] /\ pins' = pins
        /\ Asks(x, p) /\ UNCHANGED <<listVars, cache, blind, queueVars, pc, gitVars>>
    BY <1>4 DEF Syncs
  <2>2. /\ synced' \in 0..MaxSyncs /\ x \in Readers /\ x \notin CallIds
    BY <1>4, BoundsAssumption DEF Syncs, StoreTyped, Readers, CallIds
  <2>3. reads' \in [Readers -> Reading] /\ ReadsFit'
    BY <2>1, <2>2, AskFits DEF StoreTyped
  <2>4. KeyOf[p] \in Repos
    BY DEF Repos
  <2> QED BY <2>1, <2>2, <2>3, <2>4 DEF StoreTyped, listVars, gitVars
<1>5. ASSUME NEW x \in Readers, Reads(x) PROVE StoreTyped' /\ ReadsFit'
  <2>1. reads[x].at = "asked" /\ reads[x].path \in Paths /\ KeyOf[reads[x].path] \in Repos
    BY <1>5 DEF Reads, ReadsFit, Repos
  <2>2. UNCHANGED <<listVars, viewVars, synced, blind, gitVars>>
    BY <1>5 DEF Reads
  <2>3. PICK at \in {"read", "failed"}, got \in Identities, older \in SUBSET Readers :
          reads' = [reads EXCEPT ![x] = [@ EXCEPT !.at = at, !.got = got, !.older = older]]
    <3> DEFINE older == {y \in Readers : reads[y].at = "read"}
               seen == Seen(cfg[KeyOf[reads[x].path]])
    <3>1. seen \in Identities /\ Blank \in Identities /\ older \in SUBSET Readers
      BY <2>1, IdentityTypes DEF StoreTyped
    <3>2. \/ reads' = [reads EXCEPT ![x] = [@ EXCEPT !.at = "read", !.got = seen, !.older = older]]
          \/ reads' = [reads EXCEPT ![x] = [@ EXCEPT !.at = "failed", !.got = Blank, !.older = older]]
      BY <1>5 DEF Reads
    <3> HIDE DEF older, seen
    <3> QED BY <3>1, <3>2
  <2> DEFINE new == [reads[x] EXCEPT !.at = at, !.got = got, !.older = older]
  <2>4. /\ new \in Reading /\ new.at # "none" /\ new.path = reads[x].path /\ new.gen = reads[x].gen
        /\ reads' = [reads EXCEPT ![x] = new]
    <3>1. reads[x] \in Reading
      BY DEF StoreTyped
    <3>2. new \in Reading /\ new.at = at /\ new.path = reads[x].path /\ new.gen = reads[x].gen
      BY <3>1 DEF Reading
    <3>3. reads' = [reads EXCEPT ![x] = new]
      BY <2>3
    <3> QED BY <3>2, <3>3
  <2> HIDE DEF new
  <2>5. /\ reads' \in [Readers -> Reading] /\ reads'[x] = new
        /\ \A y \in Readers \ {x} : reads'[y] = reads[y]
    BY <2>4 DEF StoreTyped
  <2>6. pc' = pc /\ pins' = pins /\ CallIds \subseteq Readers
    BY <1>1, <2>2, BoundsAssumption DEF viewVars, CallIds, Readers
  <2>7. ReadsFit'
    BY <2>1, <2>4, <2>5, <2>6 DEF ReadsFit
  <2> QED BY <2>2, <2>5, <2>7 DEF StoreTyped, listVars, viewVars, gitVars
<1>6. ASSUME Leaves \/ Commits \/ CommitRuns PROVE StoreTyped' /\ ReadsFit'
  BY <1>6 DEF Leaves, Commits, CommitRuns, StoreTyped, ReadsFit, listVars, viewVars, readVars, gitVars
<1> QED BY <1>1, <1>2, <1>3, <1>4, <1>5, <1>6

\* What a landing leaves of the reads in flight.
LEMMA LandedReads ==
  ASSUME StoreTyped, NEW x \in Readers, Lands(x)
  PROVE  /\ reads' \in [Readers -> Reading]
         /\ reads'[x].at = "none" /\ reads'[x].gen = 0
         /\ \A y \in Readers \ {x} :
              /\ reads'[y].at = reads[y].at /\ reads'[y].path = reads[y].path
              /\ reads'[y].gen = reads[y].gen /\ reads'[y].got = reads[y].got
              /\ reads'[y].older = reads[y].older
              /\ reads[y].late => reads'[y].late
              /\ /\ y \in reads[x].older /\ reads[y].at = "read"
                 /\ MayLand(x) \/ reads[x].at = "failed"
                 => reads'[y].late
<1> DEFINE marks(y) == y \in reads[x].older /\ (MayLand(x) \/ reads[x].at = "failed")
           mark(y) == [reads[y] EXCEPT !.late = @ \/ reads[y].at = "read"]
<1>1. reads' = [y \in Readers |-> IF y = x THEN NoRead ELSE IF marks(y) THEN mark(y) ELSE reads[y]]
  BY DEF Lands
<1>2. NoRead \in Reading /\ NoRead.at = "none" /\ NoRead.gen = 0
  BY IdentityTypes DEF NoRead, Reading
<1>3. ASSUME NEW y \in Readers
      PROVE  /\ mark(y) \in Reading
             /\ mark(y).at = reads[y].at /\ mark(y).path = reads[y].path
             /\ mark(y).gen = reads[y].gen /\ mark(y).got = reads[y].got
             /\ mark(y).older = reads[y].older
             /\ reads[y].late \/ reads[y].at = "read" => mark(y).late
  <2>1. reads[y] \in Reading
    BY DEF StoreTyped
  <2>2. (reads[y].late \/ reads[y].at = "read") \in BOOLEAN
    OBVIOUS
  <2>3. PICK b \in BOOLEAN : b = (reads[y].late \/ reads[y].at = "read")
    BY <2>2, Zenon
  <2>4. mark(y) = [reads[y] EXCEPT !.late = b]
    <3>1. mark(y) = [reads[y] EXCEPT !.late = (reads[y].late \/ reads[y].at = "read")]
      BY <2>1 DEF Reading
    <3> QED BY <2>3, <3>1, Zenon
  <2> HIDE DEF mark
  <2>5. [reads[y] EXCEPT !.late = b] \in Reading /\ mark(y).late = b
    BY <2>1, <2>4 DEF Reading
  <2>6. reads[y].late \/ reads[y].at = "read" => mark(y).late
    BY <2>3, <2>5, Zenon
  <2> QED BY <2>1, <2>4, <2>5, <2>6 DEF Reading
<1>4. ASSUME NEW y \in Readers PROVE reads[y] \in Reading
  BY DEF StoreTyped
<1> HIDE DEF mark
<1>5. reads' \in [Readers -> Reading]
  <2>1. ASSUME NEW y \in Readers
        PROVE  (IF y = x THEN NoRead ELSE IF marks(y) THEN mark(y) ELSE reads[y]) \in Reading
    BY <1>2, <1>3, <1>4, <2>1, Zenon
  <2> HIDE DEF marks
  <2> QED BY <1>1, <2>1, Zenon
<1>6. reads'[x] = NoRead
  BY <1>1
<1>7. \A y \in Readers \ {x} : reads'[y] = IF marks(y) THEN mark(y) ELSE reads[y]
  BY <1>1
<1>8. ASSUME NEW y \in Readers \ {x}
      PROVE  /\ reads'[y].at = reads[y].at /\ reads'[y].path = reads[y].path
             /\ reads'[y].gen = reads[y].gen /\ reads'[y].got = reads[y].got
             /\ reads'[y].older = reads[y].older
             /\ reads[y].late => reads'[y].late
             /\ /\ y \in reads[x].older /\ reads[y].at = "read"
                /\ MayLand(x) \/ reads[x].at = "failed"
                => reads'[y].late
  <2>1. CASE marks(y)
    <3>1. reads'[y] = mark(y)
      BY <1>7, <2>1, Zenon
    <3> QED BY <1>3, <3>1
  <2>2. CASE ~marks(y)
    <3>1. reads'[y] = reads[y]
      BY <1>7, <2>2, Zenon
    <3> QED BY <2>2, <3>1, Zenon
  <2> QED BY <2>1, <2>2
<1> QED BY <1>2, <1>5, <1>6, <1>8

\* An identity that was read lands, and the call that awaited it is over.
LEMMA LandsKeeps ==
  ASSUME QueueInv, NEW x \in Readers, Lands(x)
  PROVE  /\ QueueInv'
         /\ \A j \in CallIds : Owed(j)' <=> Owed(j)
         /\ \A j \in CallIds : Owed(j) => pc'[j] = pc[j] /\ call'[j] = call[j]
         /\ UNCHANGED <<listVars, latest, gitVars>>
<1> USE DEF QueueInv
<1>1. CallIds \subseteq Readers
  BY BoundsAssumption DEF CallIds, Readers
<1>2. UNCHANGED <<listVars, open, pins, synced, asked, latest, gitVars>>
  BY DEF Lands
<1>3. ASSUME x \in CallIds
      PROVE  /\ QueueTyped' /\ CallsFit' /\ TurnsFit' /\ TailsFit'
             /\ pc[x] = "reads" /\ Goes(x, "over") /\ call' = [call EXCEPT ![x] = NoCall]
             /\ intents' \in [Repos -> [by : Nat, card : CardOrNone]]
  <2>1. /\ pc[x] = "reads" /\ Goes(x, "over") /\ call' = [call EXCEPT ![x] = NoCall]
        /\ intents' = [intents EXCEPT ![Key(x)] = IF @.by = x THEN [by |-> 0, card |-> None] ELSE @]
        /\ call[x].kind = "reconcile" => EndsTurn(x)
        /\ call[x].kind # "reconcile" => tails' = tails
    BY <1>3 DEF Lands, EndsCall, ReadsFit
  <2>2. Holds(x) <=> call[x].kind = "reconcile"
    BY <2>1 DEF Holds, Owed, InQueue
  <2>3. Holds(x) => First(x)
    BY <1>3, <2>1, FirstInLine
  <2>4. intents' \in [Repos -> [by : Nat, card : CardOrNone]]
    BY <2>1 DEF QueueTyped, CardOrNone
  <2>5. PICK to \in Writing \cup {"reads", "over"} : to = "over"
    OBVIOUS
  <2>6. to \notin Writing /\ to # "reads"
    BY <2>5 DEF Writing, InQueue
  <2>7. IF to \in Writing \/ (to = "reads" /\ call[x].kind = "reconcile") \/ ~Holds(x)
          THEN tails' = tails ELSE EndsTurn(x)
    BY <2>1, <2>2, <2>6
  <2>8. call' = IF to = "over" THEN [call EXCEPT ![x] = NoCall] ELSE call
    BY <2>1, <2>5
  <2>9. Goes(x, to) /\ pc[x] # "idle"
    BY <2>1, <2>5
  <2>10. asked' = asked /\ latest' = latest
    BY <1>2
  <2>11. QueueTyped' /\ CallsFit' /\ TurnsFit' /\ TailsFit'
    BY <1>3, <2>3, <2>4, <2>6, <2>7, <2>8, <2>9, <2>10, MoveKeeps
  <2> QED BY <2>1, <2>4, <2>11
<1>4. ASSUME x \notin CallIds
      PROVE  QueueTyped' /\ CallsFit' /\ TurnsFit' /\ TailsFit' /\ UNCHANGED <<queueVars, pc>>
  <2>1. UNCHANGED <<queueVars, pc>>
    BY <1>2, <1>4 DEF Lands, queueVars
  <2> QED BY <2>1, BesideKeeps
<1>5. shown' \in Identities /\ cache' \in [Repos -> Identities] /\ blind' \in BOOLEAN
  <2>1. CASE MayLand(x)
    <3>1. /\ shown' = reads[x].got /\ cache' = [cache EXCEPT ![KeyOf[open]] = reads[x].got]
          /\ blind' = (reads[x].late /\ reads[x].gen = pins)
      BY <2>1 DEF Lands
    <3>2. reads[x].got \in Identities
      BY DEF StoreTyped, Reading
    <3>3. (reads[x].late /\ reads[x].gen = pins) \in BOOLEAN
      OBVIOUS
    <3>4. blind' \in BOOLEAN
      BY <3>1, <3>3, Zenon
    <3> QED BY <3>1, <3>2, <3>4 DEF StoreTyped
  <2>2. CASE ~MayLand(x)
    <3>1. /\ UNCHANGED <<shown, cache>>
          /\ blind' = (blind \/ (reads[x].at = "failed" /\ reads[x].path = open))
      BY <2>2 DEF Lands
    <3>2. (blind \/ (reads[x].at = "failed" /\ reads[x].path = open)) \in BOOLEAN
      OBVIOUS
    <3>3. blind' \in BOOLEAN
      BY <3>1, <3>2, Zenon
    <3> QED BY <3>1, <3>3 DEF StoreTyped
  <2> QED BY <2>1, <2>2
<1>6. /\ reads' \in [Readers -> Reading] /\ reads'[x].at = "none" /\ reads'[x].gen = 0
      /\ \A y \in Readers \ {x} :
           /\ reads'[y].at = reads[y].at /\ reads'[y].path = reads[y].path
           /\ reads'[y].gen = reads[y].gen
  BY LandedReads
<1>7. StoreTyped'
  BY <1>2, <1>5, <1>6 DEF StoreTyped, listVars, gitVars
<1>8. \A j \in CallIds \ {x} : pc'[j] = pc[j] /\ call'[j] = call[j]
  BY <1>3, <1>4 DEF Goes, QueueTyped, queueVars
<1>9. ReadsFit'
  <2>1. ASSUME NEW y \in CallIds, reads'[y].at # "none" PROVE pc'[y] = "reads"
    BY <1>1, <1>6, <1>8, <2>1 DEF ReadsFit
  <2>2. ASSUME NEW y \in Readers
        PROVE  reads'[y].gen <= pins' /\ (reads'[y].at # "none" => reads'[y].path \in Paths)
    BY <1>2, <1>6, <2>2 DEF ReadsFit, StoreTyped
  <2> QED BY <2>1, <2>2 DEF ReadsFit
<1>10. x \in CallIds => ~Owed(x) /\ ~Owed(x)'
  BY <1>3 DEF Owed, InQueue, Goes, QueueTyped
<1>11. /\ \A j \in CallIds : Owed(j)' <=> Owed(j)
       /\ \A j \in CallIds : Owed(j) => pc'[j] = pc[j] /\ call'[j] = call[j]
  BY <1>8, <1>10 DEF Owed
<1> QED BY <1>2, <1>3, <1>4, <1>7, <1>9, <1>11

\* What every step of a call leaves alone.
Beside(i) ==
  /\ \A j \in CallIds \ {i} : pc'[j] = pc[j] /\ call'[j] = call[j]
  /\ latest' = latest

\* The turn of a call starts, or is over at once.
LEMMA StartsCases ==
  ASSUME QueueInv, NEW i \in CallIds, Starts(i)
  PROVE  /\ Starting(i) /\ First(i) /\ Holds(i)
         /\ UNCHANGED <<listVars, open, shown, cache, synced, blind, asked, latest, pins, gitVars, commit>>
         /\ \/ /\ call[i].kind = "reconcile" /\ CurrentPath(Key(i)) # None
               /\ Asks(i, CurrentPath(Key(i))) /\ Goes(i, "reads") /\ UNCHANGED <<call, tails, intents>>
            \/ /\ \/ call[i].kind = "reconcile" /\ CurrentPath(Key(i)) = None
                  \/ call[i].kind = "apply" /\ ~Exists(i)
               /\ EndsTurn(i) /\ EndsCall(i) /\ UNCHANGED reads
            \/ /\ call[i].kind \in {"apply", "clear"} /\ (call[i].kind = "apply" => Exists(i))
               /\ Goes(i, "sent") /\ UNCHANGED <<reads, call, tails, intents>>
<1>1. Starting(i) /\ UNCHANGED <<listVars, open, shown, cache, synced, blind, asked, latest, gitVars, commit>>
  BY DEF Starts
<1>2. Holds(i) /\ call[i].kind \in {"apply", "clear", "reconcile"}
  <2>1. Owed(i) /\ Holds(i)
    BY <1>1 DEF Starting, Holds, Owed, InQueue
  <2>2. call[i] \in Call
    BY DEF QueueInv, QueueTyped
  <2> QED BY <2>1, <2>2 DEF QueueInv, CallsFit, Call
<1>3. First(i)
  BY <1>1, <1>2, FirstInLine
<1> DEFINE asks == call[i].kind = "reconcile" /\ CurrentPath(Key(i)) # None
           skips == \/ call[i].kind = "reconcile" /\ CurrentPath(Key(i)) = None
                    \/ call[i].kind = "apply" /\ ~Exists(i)
           A == /\ UNCHANGED pins /\ Asks(i, CurrentPath(Key(i)))
                /\ Goes(i, "reads") /\ UNCHANGED <<call, tails, intents>>
           B == EndsTurn(i) /\ EndsCall(i) /\ UNCHANGED <<pins, reads>>
           C == Goes(i, "sent") /\ UNCHANGED <<pins, reads, call, tails, intents>>
<1>4. (CASE asks -> A [] skips -> B [] OTHER -> C)
  BY DEF Starts
<1>5. ~(asks /\ skips)
  BY <1>2
<1>6. (asks /\ A) \/ (skips /\ B) \/ (~asks /\ ~skips /\ C)
  <2> HIDE DEF asks, skips, A, B, C
  <2> QED BY <1>4, <1>5
<1>7. CASE asks /\ A
  BY <1>1, <1>2, <1>3, <1>7
<1>8. CASE skips /\ B
  BY <1>1, <1>2, <1>3, <1>8
<1>9. CASE ~asks /\ ~skips /\ C
  BY <1>1, <1>2, <1>3, <1>9
<1> QED BY <1>6, <1>7, <1>8, <1>9

\* So does the start of a turn.
LEMMA StartsKeeps ==
  ASSUME QueueInv, NEW i \in CallIds, Starts(i)
  PROVE  QueueInv' /\ First(i) /\ Beside(i)
<1> USE DEF QueueInv
<1>1. /\ Starting(i) /\ First(i) /\ Holds(i)
      /\ UNCHANGED <<listVars, open, shown, cache, synced, blind, asked, latest, pins, gitVars>>
  BY StartsCases
<1>2. Owed(i) /\ pc[i] # "idle" /\ pc[i] # "reads" /\ Key(i) \in Repos
  BY <1>1 DEF Starting, Owed, InQueue, CallsFit, Key
<1>3. i \in Readers
  BY BoundsAssumption DEF CallIds, Readers
<1>4. CASE /\ call[i].kind = "reconcile" /\ CurrentPath(Key(i)) # None
           /\ Asks(i, CurrentPath(Key(i))) /\ Goes(i, "reads") /\ UNCHANGED <<call, tails, intents>>
  <2>1. PICK to \in Writing \cup {"reads", "over"} : to = "reads"
    OBVIOUS
  <2>2. to \notin Writing /\ to # "over"
    BY <2>1 DEF Writing, InQueue
  <2>3. Goes(i, to) /\ call' = (IF to = "over" THEN [call EXCEPT ![i] = NoCall] ELSE call)
        /\ (IF to \in Writing \/ (to = "reads" /\ call[i].kind = "reconcile") \/ ~Holds(i)
              THEN tails' = tails ELSE EndsTurn(i))
    BY <1>4, <2>1, <2>2
  <2>4. intents' \in [Repos -> [by : Nat, card : CardOrNone]]
    BY <1>4 DEF QueueTyped
  <2>5. QueueTyped' /\ CallsFit' /\ TurnsFit' /\ TailsFit'
    BY <1>1, <1>2, <2>2, <2>3, <2>4, MoveKeeps
  <2>6. pc'[i] = "reads" /\ \A j \in CallIds \ {i} : pc'[j] = pc[j]
    BY <1>4 DEF Goes, QueueTyped
  <2>7. CurrentPath(Key(i)) \in Paths
    BY <1>4, CurrentPathIs
  <2>8. /\ pins' \in Nat /\ pins <= pins'
    BY <1>1 DEF StoreTyped
  <2>9. reads' \in [Readers -> Reading] /\ ReadsFit'
    BY <1>3, <1>4, <2>6, <2>7, <2>8, AskFits
  <2>10. StoreTyped'
    BY <1>1, <2>9 DEF StoreTyped, listVars, gitVars
  <2> QED BY <1>1, <1>4, <2>5, <2>6, <2>9, <2>10 DEF Beside
<1>5. CASE EndsTurn(i) /\ EndsCall(i) /\ UNCHANGED reads
  <2>1. PICK to \in Writing \cup {"reads", "over"} : to = "over"
    OBVIOUS
  <2>2. to \notin Writing /\ to # "reads"
    BY <2>1 DEF Writing, InQueue
  <2>3. /\ Goes(i, to) /\ call' = (IF to = "over" THEN [call EXCEPT ![i] = NoCall] ELSE call)
        /\ (IF to \in Writing \/ (to = "reads" /\ call[i].kind = "reconcile") \/ ~Holds(i)
              THEN tails' = tails ELSE EndsTurn(i))
    BY <1>1, <1>5, <2>1, <2>2 DEF EndsCall
  <2>4. intents' \in [Repos -> [by : Nat, card : CardOrNone]]
    BY <1>2, <1>5 DEF QueueTyped, EndsCall, CardOrNone
  <2>5. QueueTyped' /\ CallsFit' /\ TurnsFit' /\ TailsFit'
    BY <1>1, <1>2, <2>2, <2>3, <2>4, MoveKeeps
  <2>6. /\ \A j \in CallIds \ {i} : pc'[j] = pc[j] /\ call'[j] = call[j]
    BY <1>5 DEF EndsCall, Goes, QueueTyped
  <2>7. StoreTyped'
    BY <1>1, <1>5 DEF StoreTyped, listVars, gitVars
  <2>8. ReadsFit'
    BY <1>1, <1>2, <1>5, <2>6 DEF ReadsFit
  <2> QED BY <1>1, <2>5, <2>6, <2>7, <2>8 DEF Beside
<1>6. CASE /\ call[i].kind \in {"apply", "clear"}
           /\ Goes(i, "sent") /\ UNCHANGED <<reads, call, tails, intents>>
  <2>1. PICK to \in Writing \cup {"reads", "over"} : to = "sent"
    BY DEF Writing, InQueue
  <2>2. to \in Writing /\ to # "reads" /\ to # "over"
    BY <2>1 DEF Writing, InQueue
  <2>3. Goes(i, to) /\ call' = (IF to = "over" THEN [call EXCEPT ![i] = NoCall] ELSE call)
        /\ (IF to \in Writing \/ (to = "reads" /\ call[i].kind = "reconcile") \/ ~Holds(i)
              THEN tails' = tails ELSE EndsTurn(i))
    BY <1>6, <2>1, <2>2
  <2>4. intents' \in [Repos -> [by : Nat, card : CardOrNone]]
    BY <1>6 DEF QueueTyped
  <2>5. QueueTyped' /\ CallsFit' /\ TurnsFit' /\ TailsFit'
    BY <1>1, <1>2, <1>6, <2>2, <2>3, <2>4, MoveKeeps
  <2>6. \A j \in CallIds \ {i} : pc'[j] = pc[j]
    BY <1>6 DEF Goes, QueueTyped
  <2>7. StoreTyped'
    BY <1>1, <1>6 DEF StoreTyped, listVars, gitVars
  <2>8. ReadsFit'
    BY <1>1, <1>2, <1>6, <2>6 DEF ReadsFit
  <2> QED BY <1>1, <1>6, <2>5, <2>6, <2>7, <2>8 DEF Beside
<1> QED BY <1>4, <1>5, <1>6, StartsCases

\* A write goes from one phase to the next.
LEMMA PhaseKeeps ==
  ASSUME QueueInv, NEW i \in CallIds, pc[i] \in Writing, NEW to \in Writing, Goes(i, to),
         UNCHANGED <<queueVars, readVars, viewVars>>
  PROVE  /\ QueueTyped' /\ CallsFit' /\ TurnsFit' /\ TailsFit' /\ ReadsFit'
         /\ First(i) /\ Beside(i)
<1> USE DEF QueueInv, queueVars
<1>1. /\ Owed(i) /\ Holds(i) /\ call[i].kind \in {"apply", "clear"}
      /\ pc[i] # "idle" /\ pc[i] # "waits" /\ pc[i] # "reads"
  BY DEF Owed, Holds, Writing, InQueue, CallsFit
<1>2. First(i)
  BY <1>1, FirstInLine
<1>3. to # "over" /\ to # "reads"
  BY DEF Writing, InQueue
<1>4. /\ call' = (IF to = "over" THEN [call EXCEPT ![i] = NoCall] ELSE call)
      /\ (IF to \in Writing \/ (to = "reads" /\ call[i].kind = "reconcile") \/ ~Holds(i)
            THEN tails' = tails ELSE EndsTurn(i))
  BY <1>3
<1>5. intents' \in [Repos -> [by : Nat, card : CardOrNone]] /\ asked' = asked /\ latest' = latest
  BY DEF QueueTyped
<1>6. to \in Writing \cup {"reads", "over"}
  OBVIOUS
<1>7. QueueTyped' /\ CallsFit' /\ TurnsFit' /\ TailsFit'
  BY <1>1, <1>2, <1>3, <1>4, <1>5, <1>6, MoveKeeps
<1>8. Beside(i)
  BY DEF Beside, Goes, QueueTyped
<1>9. ReadsFit'
  BY <1>1, <1>8 DEF Beside, ReadsFit, readVars, viewVars
<1> QED BY <1>2, <1>7, <1>8, <1>9

\* The write that holds the lock stays where it is.
LEMMA StayKeeps ==
  ASSUME QueueInv, NEW i \in CallIds, pc[i] = "writes",
         UNCHANGED <<queueVars, pc, readVars, viewVars>>
  PROVE  /\ QueueTyped' /\ CallsFit' /\ TurnsFit' /\ TailsFit' /\ ReadsFit'
         /\ First(i) /\ Beside(i)
<1>1. QueueTyped' /\ CallsFit' /\ TurnsFit' /\ TailsFit'
  BY BesideKeeps
<1>2. ReadsFit' /\ Beside(i)
  BY DEF QueueInv, ReadsFit, readVars, viewVars, Beside, queueVars
<1>3. First(i)
  BY FirstInLine DEF Holds, Owed, InQueue
<1> QED BY <1>1, <1>2, <1>3

\* Git's steps.
LEMMA GitKeeps ==
  ASSUME QueueInv, NEW i \in CallIds,
         Locks(i) \/ WritesKey(i) \/ KeyFails(i) \/ UndoFails(i) \/ Finishes(i)
  PROVE  QueueInv' /\ First(i) /\ Beside(i)
<1> DEFINE k == Key(i)
<1>1. pc[i] \in Writing /\ k \in Repos
  BY DEF Locks, WritesKey, KeyFails, UndoFails, Finishes, Writing, InQueue, QueueInv, CallsFit, Owed, Key
<1>2. /\ job[k] \in Job /\ cfg[k] \in Identities /\ torn[k] \in {"no", "clear", "set"}
      /\ NoJob \in Job /\ i \in Nat
  BY <1>1, IdentityTypes, BoundsAssumption DEF QueueInv, StoreTyped, NoJob, Job, CallIds
<1>3. UNCHANGED <<listVars, viewVars, readVars, queueVars>>
  BY Zenon DEF Locks, WritesKey, KeyFails, UndoFails, Finishes
<1>4. /\ "wrote" \in Writing /\ "threw" \in Writing /\ "writes" \in Writing
  BY DEF Writing, InQueue
<1>5. ASSUME cfg' \in [Repos -> Identities], job' \in [Repos -> Job],
             torn' \in [Repos -> {"no", "clear", "set"}], given' \in [Repos -> CardOrNone]
      PROVE  StoreTyped'
  BY <1>3, <1>5 DEF QueueInv, StoreTyped, listVars, viewVars, readVars
<1>6. CASE Locks(i)
  <2>1. PICK missed \in SUBSET Fields :
          job' = [job EXCEPT ![k] =
                    [NoJob EXCEPT !.by = i, !.left = Fields, !.was = cfg[k],
                       !.old = [f \in Fields |-> IF f \in missed THEN None ELSE cfg[k][f]]]]
    BY <1>6 DEF Locks
  <2>2. [NoJob EXCEPT !.by = i, !.left = Fields, !.was = cfg[k],
           !.old = [f \in Fields |-> IF f \in missed THEN None ELSE cfg[k][f]]] \in Job
    <3>1. [f \in Fields |-> IF f \in missed THEN None ELSE cfg[k][f]] \in Identities
      BY <1>2 DEF Identities
    <3> QED BY <1>2, <3>1 DEF NoJob, Job
  <2>3. Goes(i, "writes") /\ UNCHANGED <<cfg, torn, given>>
    BY <1>6 DEF Locks
  <2>4. StoreTyped'
    BY <1>1, <1>5, <2>1, <2>2, <2>3 DEF QueueInv, StoreTyped
  <2> QED BY <1>1, <1>3, <1>4, <2>3, <2>4, PhaseKeeps DEF QueueInv
<1>7. CASE WritesKey(i)
  <2>1. PICK f \in Fields :
          /\ cfg' = [cfg EXCEPT ![k][f] = IF job[k].undo THEN job[k].old[f]
                                                       ELSE Wanted(call[i].want)[f]]
          /\ job' = [job EXCEPT ![k].left = @ \ {f}]
    BY <1>7 DEF WritesKey
  <2>2. pc[i] = "writes" /\ UNCHANGED <<pc, torn, given>>
    BY <1>7 DEF WritesKey
  <2>3. Wanted(call[i].want) \in Identities
    BY IdentityTypes DEF QueueInv, QueueTyped, Call
  <2>4. (IF job[k].undo THEN job[k].old[f] ELSE Wanted(call[i].want)[f]) \in Tuples \cup {None}
    BY <1>2, <2>3 DEF Job, Identities
  <2>5. [cfg[k] EXCEPT ![f] = IF job[k].undo THEN job[k].old[f] ELSE Wanted(call[i].want)[f]] \in Identities
    BY <1>2, <2>4 DEF Identities
  <2>6. cfg' \in [Repos -> Identities]
    BY <2>1, <2>5, <1>1 DEF QueueInv, StoreTyped
  <2>7. [job[k] EXCEPT !.left = @ \ {f}] \in Job
    BY <1>2 DEF Job
  <2>8. job' \in [Repos -> Job]
    BY <2>1, <2>7, <1>1 DEF QueueInv, StoreTyped
  <2>9. StoreTyped'
    BY <1>5, <2>2, <2>6, <2>8 DEF QueueInv, StoreTyped
  <2> QED BY <1>3, <2>2, <2>9, StayKeeps DEF QueueInv
<1>8. CASE KeyFails(i)
  <2>1. pc[i] = "writes" /\ UNCHANGED <<cfg, given>>
    BY <1>8 DEF KeyFails
  <2>2. CASE call[i].kind = "apply"
    <3>1. job' = [job EXCEPT ![k].left = Fields, ![k].undo = TRUE] /\ UNCHANGED <<pc, torn>>
      BY <1>8, <2>2 DEF KeyFails
    <3>2. job' \in [Repos -> Job]
      BY <1>1, <1>2, <3>1 DEF QueueInv, StoreTyped, Job
    <3>3. StoreTyped'
      BY <1>5, <2>1, <3>1, <3>2 DEF QueueInv, StoreTyped
    <3> QED BY <1>3, <2>1, <3>1, <3>3, StayKeeps DEF QueueInv
  <2>3. CASE call[i].kind # "apply"
    <3>1. /\ job' = [job EXCEPT ![k] = NoJob] /\ Goes(i, "threw")
          /\ torn' = [torn EXCEPT ![k] = IF cfg[k] # job[k].was THEN "clear" ELSE @]
      BY <1>8, <2>3 DEF KeyFails, Frees
    <3>2. StoreTyped'
      BY <1>1, <1>2, <1>5, <2>1, <3>1 DEF QueueInv, StoreTyped
    <3> QED BY <1>1, <1>3, <1>4, <3>1, <3>2, PhaseKeeps DEF QueueInv
  <2> QED BY <2>2, <2>3
<1>9. CASE UndoFails(i)
  <2>1. pc[i] = "writes" /\ UNCHANGED <<pc, cfg, torn, given>>
    BY <1>9 DEF UndoFails
  <2>2. PICK f \in Fields : job' = [job EXCEPT ![k].left = @ \ {f}]
    BY <1>9 DEF UndoFails
  <2>3. [job[k] EXCEPT !.left = @ \ {f}] \in Job
    BY <1>2 DEF Job
  <2>4. job' \in [Repos -> Job]
    BY <2>2, <2>3, <1>1 DEF QueueInv, StoreTyped
  <2>5. StoreTyped'
    BY <1>5, <2>1, <2>4 DEF QueueInv, StoreTyped
  <2> QED BY <1>3, <2>1, <2>5, StayKeeps DEF QueueInv
<1>10. CASE Finishes(i)
  <2>1. UNCHANGED cfg /\ job' = [job EXCEPT ![k] = NoJob]
    BY <1>10 DEF Finishes, Frees
  <2>2. CASE job[k].undo
    <3>1. /\ Goes(i, "threw") /\ UNCHANGED given
          /\ torn' = [torn EXCEPT ![k] = IF cfg[k] # job[k].was THEN "set" ELSE @]
      BY <1>10, <2>2 DEF Finishes, Frees
    <3>2. StoreTyped'
      BY <1>1, <1>2, <1>5, <2>1, <3>1 DEF QueueInv, StoreTyped
    <3> QED BY <1>1, <1>3, <1>4, <3>1, <3>2, PhaseKeeps DEF QueueInv
  <2>3. CASE ~job[k].undo
    <3>1. /\ Goes(i, "wrote") /\ torn' = [torn EXCEPT ![k] = "no"]
          /\ given' = [given EXCEPT ![k] = IF call[i].kind = "clear" THEN None ELSE call[i].want[1]]
      BY <1>10, <2>3 DEF Finishes, Frees
    <3>2. (IF call[i].kind = "clear" THEN None ELSE call[i].want[1]) \in CardOrNone
      <4>1. call[i].kind # "clear" => call[i].want \in Tuples
        BY <1>1 DEF QueueInv, CallsFit
      <4> QED BY <4>1 DEF Tuples, CardOrNone
    <3>3. given' \in [Repos -> CardOrNone]
      BY <3>1, <3>2 DEF QueueInv, StoreTyped
    <3>4. StoreTyped'
      BY <1>1, <1>2, <1>5, <2>1, <3>1, <3>3 DEF QueueInv, StoreTyped
    <3> QED BY <1>1, <1>3, <1>4, <3>1, <3>4, PhaseKeeps DEF QueueInv
  <2> QED BY <2>2, <2>3
<1> QED BY <1>6, <1>7, <1>8, <1>9, <1>10

\* The identity is read back, under the pins of that moment, or the call is over.
LEMMA ReadBackKeeps ==
  ASSUME QueueInv, NEW i \in CallIds, pc[i] \in {"wrote", "threw"}, EndsTurn(i), NEW wants,
         ReadsBack(i, wants), pins' \in Nat, pins <= pins',
         asked' = asked, latest' = latest
  PROVE  /\ QueueTyped' /\ CallsFit' /\ TurnsFit' /\ TailsFit'
         /\ reads' \in [Readers -> Reading] /\ ReadsFit'
         /\ First(i) /\ Beside(i) /\ ~Owed(i)'
<1> USE DEF QueueInv
<1>1. /\ Owed(i) /\ Holds(i) /\ call[i].kind \in {"apply", "clear"} /\ Key(i) \in Repos
      /\ pc[i] # "idle" /\ pc[i] # "waits" /\ pc[i] # "reads"
  BY DEF Owed, Holds, Writing, InQueue, CallsFit, Key
<1>2. First(i)
  BY <1>1, FirstInLine
<1>3. i \in Readers
  BY BoundsAssumption DEF CallIds, Readers
<1>4. CASE /\ CurrentPath(Key(i)) # None /\ Asks(i, CurrentPath(Key(i))) /\ Goes(i, "reads")
           /\ UNCHANGED <<call, intents>>
  <2>1. PICK to \in Writing \cup {"reads", "over"} : to = "reads"
    OBVIOUS
  <2>2. to \notin Writing /\ to # "over"
    BY <2>1 DEF Writing, InQueue
  <2>3. Goes(i, to) /\ call' = (IF to = "over" THEN [call EXCEPT ![i] = NoCall] ELSE call)
        /\ (IF to \in Writing \/ (to = "reads" /\ call[i].kind = "reconcile") \/ ~Holds(i)
              THEN tails' = tails ELSE EndsTurn(i))
    BY <1>1, <1>4, <2>1, <2>2
  <2>4. intents' \in [Repos -> [by : Nat, card : CardOrNone]]
    BY <1>4 DEF QueueTyped
  <2>5. QueueTyped' /\ CallsFit' /\ TurnsFit' /\ TailsFit'
    BY <1>1, <1>2, <2>2, <2>3, <2>4, MoveKeeps
  <2>6. pc'[i] = "reads" /\ \A j \in CallIds \ {i} : pc'[j] = pc[j]
    BY <1>4 DEF Goes, QueueTyped
  <2>7. CurrentPath(Key(i)) \in Paths
    BY <1>4, CurrentPathIs
  <2>8. reads' \in [Readers -> Reading] /\ ReadsFit'
    BY <1>3, <1>4, <2>6, <2>7, AskFits
  <2> QED BY <1>2, <1>4, <2>5, <2>6, <2>8 DEF Beside, Owed, InQueue
<1>5. CASE EndsCall(i) /\ UNCHANGED reads
  <2>1. PICK to \in Writing \cup {"reads", "over"} : to = "over"
    OBVIOUS
  <2>2. to \notin Writing /\ to # "reads"
    BY <2>1 DEF Writing, InQueue
  <2>3. /\ Goes(i, to) /\ call' = (IF to = "over" THEN [call EXCEPT ![i] = NoCall] ELSE call)
        /\ (IF to \in Writing \/ (to = "reads" /\ call[i].kind = "reconcile") \/ ~Holds(i)
              THEN tails' = tails ELSE EndsTurn(i))
    BY <1>1, <1>5, <2>1, <2>2 DEF EndsCall
  <2>4. intents' \in [Repos -> [by : Nat, card : CardOrNone]]
    BY <1>1, <1>5 DEF QueueTyped, EndsCall, CardOrNone
  <2>5. QueueTyped' /\ CallsFit' /\ TurnsFit' /\ TailsFit'
    BY <1>1, <1>2, <2>2, <2>3, <2>4, MoveKeeps
  <2>6. /\ \A j \in CallIds \ {i} : pc'[j] = pc[j] /\ call'[j] = call[j]
        /\ pc'[i] = "over"
    BY <1>5 DEF EndsCall, Goes, QueueTyped
  <2>7. ReadsFit'
    BY <1>1, <1>5, <2>6 DEF ReadsFit, StoreTyped, Reading
  <2>8. reads' \in [Readers -> Reading]
    BY <1>5 DEF StoreTyped
  <2> QED BY <1>2, <2>5, <2>6, <2>7, <2>8 DEF Beside, Owed, InQueue
<1> QED BY <1>4, <1>5 DEF ReadsBack

\* The answer of a write.
LEMMA AnsweredKeeps ==
  ASSUME QueueInv, NEW i \in CallIds, Answered(i)
  PROVE  /\ QueueInv' /\ First(i) /\ Beside(i) /\ ~Owed(i)'
         /\ pc[i] \in {"wrote", "threw"} /\ UNCHANGED <<cards, open, synced, asked, latest, gitVars>>
<1> USE DEF QueueInv
<1>1. /\ pc[i] \in {"wrote", "threw"} /\ EndsTurn(i)
      /\ UNCHANGED <<cards, open, synced, asked, latest, gitVars>>
  BY DEF Answered
<1>2. call[i].kind \in {"apply", "clear"} /\ Key(i) \in Repos /\ call[i].want \in Tuples \cup {None}
  BY <1>1 DEF CallsFit, Writing, InQueue, Owed, Key
<1>3. /\ applied' \in [Repos -> CardOrNone]
      /\ \/ Pins(i)
         \/ UNCHANGED <<pins, shown, cache, blind>>
      /\ \E wants : ReadsBack(i, wants)
  <2>1. CASE pc[i] = "threw"
    <3>1. UNCHANGED <<applied, pins, shown, cache, blind>> /\ ReadsBack(i, IsLatest(i))
      BY <2>1 DEF Answered
    <3>2. \E wants : ReadsBack(i, wants)
      BY <3>1, Zenon
    <3> QED BY <3>1, <3>2 DEF StoreTyped
  <2>2. CASE pc[i] # "threw"
    <3> DEFINE gone == call[i].kind = "apply" /\ ~Exists(i)
    <3>1. /\ Marks(i)
          /\ IF ~gone /\ IsLatest(i) /\ CurrentPath(Key(i)) # None
               THEN Pins(i) ELSE UNCHANGED <<pins, shown, cache, blind>>
          /\ ReadsBack(i, gone \/ IsLatest(i))
      BY <2>2, Zenon DEF Answered
    <3>2. \E wants : ReadsBack(i, wants)
      BY <3>1, Zenon
    <3>3. call[i].kind # "clear" => call[i].want[1] \in Cards
      BY <1>2 DEF CallsFit, Tuples
    <3>4. applied' \in [Repos -> CardOrNone]
      BY <1>2, <3>1, <3>3 DEF Marks, StoreTyped, CardOrNone
    <3> QED BY <3>1, <3>2, <3>4
  <2> QED BY <2>1, <2>2
<1>4. /\ pins' \in Nat /\ pins <= pins' /\ shown' \in Identities
      /\ cache' \in [Repos -> Identities] /\ blind' \in BOOLEAN
  <2>1. CASE Pins(i)
    <3>1. Wanted(call[i].want) \in Identities
      BY <1>2, IdentityTypes
    <3>2. shown' \in Identities /\ cache' \in [Repos -> Identities] /\ blind' \in BOOLEAN
      BY <1>2, <2>1, <3>1 DEF Pins, StoreTyped
    <3>3. pins' \in Nat /\ pins <= pins'
      BY <2>1 DEF Pins, StoreTyped
    <3> QED BY <3>2, <3>3
  <2>2. CASE UNCHANGED <<pins, shown, cache, blind>>
    BY <2>2 DEF StoreTyped
  <2> QED BY <1>3, <2>1, <2>2
<1>5. /\ QueueTyped' /\ CallsFit' /\ TurnsFit' /\ TailsFit'
      /\ reads' \in [Readers -> Reading] /\ ReadsFit'
      /\ First(i) /\ Beside(i) /\ ~Owed(i)'
  BY <1>1, <1>3, <1>4, ReadBackKeeps
<1>6. StoreTyped'
  BY <1>1, <1>3, <1>4, <1>5 DEF StoreTyped, gitVars
<1> QED BY <1>1, <1>5, <1>6

\* At first nothing is asked for.
LEMMA StartsTheQueue == Init => QueueInv
<1> SUFFICES ASSUME Init PROVE QueueInv
  OBVIOUS
<1> USE DEF Init
<1>1. \A k \in Repos : Before[k] \in CardOrNone
  BY CardsAssumption DEF Repos, CardOrNone
<1>2. \A i \in CallIds : pc[i] = "idle" /\ call[i] = NoCall
  OBVIOUS
<1>3. QueueTyped
  <2>1. NoCall \in Call /\ [by |-> 0, card |-> None] \in [by : Nat, card : CardOrNone]
    BY DEF NoCall, Call, CardOrNone
  <2> QED BY <2>1, BoundsAssumption DEF QueueTyped
<1>4. StoreTyped
  <2>1. NoRead \in Reading /\ NoJob \in Job
    BY IdentityTypes DEF NoRead, Reading, NoJob, Job
  <2>2. cfg \in [Repos -> Identities]
    <3>1. ASSUME NEW k \in Repos PROVE cfg[k] \in Identities
      <4>1. applied[k] # None => <<applied[k], 1>> \in Tuples
        BY <1>1, BoundsAssumption DEF CardOrNone, Tuples
      <4> QED BY <4>1, IdentityTypes
    <3> QED BY <3>1
  <2>3. applied \in [Repos -> CardOrNone]
    BY <1>1, CardsAssumption DEF Repos, CardOrNone
  <2>4. cards \in [Cards -> 0..(MaxEdits + 1)] /\ synced \in 0..MaxSyncs
    BY BoundsAssumption
  <2>5. job \in [Repos -> Job] /\ torn \in [Repos -> {"no", "clear", "set"}] /\ blind \in BOOLEAN
    BY <2>1
  <2>6. reads \in [Readers -> Reading]
    BY <2>1
  <2> QED BY <2>2, <2>3, <2>4, <2>5, <2>6, IdentityTypes DEF StoreTyped
<1>5. CallsFit /\ TurnsFit /\ TailsFit
  BY <1>2 DEF CallsFit, TurnsFit, TailsFit, Holds, Owed, InQueue, Writing, NoCall
<1>6. ReadsFit
  <2>1. CallIds \subseteq Readers
    BY BoundsAssumption DEF CallIds, Readers
  <2> QED BY <2>1 DEF ReadsFit, NoRead
<1> QED BY <1>3, <1>4, <1>5, <1>6 DEF QueueInv

\* The queue of every repository stays in order.
LEMMA QueueInvariant == Spec => []QueueInv
<1>1. QueueInv /\ [Next]_vars => QueueInv'
  <2> SUFFICES ASSUME QueueInv, [Next]_vars PROVE QueueInv'
    OBVIOUS
  <2>1. ASSUME NEW c \in CardOrNone, Applies(c) PROVE QueueInv'
    <3>1. PICK n : n = asked + 1
      OBVIOUS
    <3> QED BY <2>1, <3>1, AppliesKeeps
  <2>2. ASSUME NEW c \in Cards, Deletes(c) PROVE QueueInv'
    BY <2>2, DeletesKeeps
  <2>3. ASSUME NEW x \in Readers, Lands(x) PROVE QueueInv'
    BY <2>3, LandsKeeps
  <2>4. ASSUME NEW i \in CallIds, Step(i) PROVE QueueInv'
    BY <2>4, StartsKeeps, GitKeeps, AnsweredKeeps DEF Step
  <2>5. ASSUME UNCHANGED vars PROVE QueueInv'
    BY <2>5 DEF vars, listVars, viewVars, readVars, queueVars, gitVars, QueueInv, QueueTyped,
                StoreTyped, CallsFit, ReadsFit, TurnsFit, TailsFit, Holds, Owed, Key
  <2> QED BY <2>1, <2>2, <2>3, <2>4, <2>5, StoreStepKeeps DEF Next, CardOrNone
<1> QED BY <1>1, StartsTheQueue, PTL DEF Spec

\* Every variable keeps its type: no call is numbered, no key or card named, that
\* does not exist.
THEOREM IdentityTypeCorrect == Spec => [](QueueTyped /\ StoreTyped)
BY QueueInvariant, PTL DEF QueueInv

-----------------------------------------------------------------------------
(* What the user and the store see of the queue.                             *)

\* The writes of a repository reach git in the order of the clicks
\* (queueIdentityWrite): what waits for a tail waits for all that came before it.
THEOREM WritesKeepClickOrder == Spec => []InClickOrder
<1>1. QueueInv => InClickOrder
  BY DEF QueueInv, QueueTyped, TurnsFit, InClickOrder, TurnOver, Holds, Owed, InQueue
<1> QED BY <1>1, QueueInvariant, PTL

\* The steps of a call, as the rest of the store sees them.
LEMMA StepIs ==
  ASSUME QueueInv, NEW i \in CallIds, Step(i)
  PROVE  /\ QueueInv' /\ Owed(i) /\ First(i) /\ Beside(i)
         /\ Owed(i)' => call'[i] = call[i] /\ intents' = intents
         /\ \A k \in Repos : intents[k].by # i => intents'[k] = intents[k]
         /\ UNCHANGED <<cards, open, latest>>
<1>1. QueueInv' /\ First(i) /\ Beside(i)
  BY StartsKeeps, GitKeeps, AnsweredKeeps DEF Step
<1>2. Owed(i) /\ UNCHANGED <<cards, open, latest>>
  BY DEF Step, Starts, Starting, Locks, WritesKey, KeyFails, UndoFails, Finishes, Answered,
         Owed, InQueue, listVars, viewVars, queueVars
<1>3. \/ UNCHANGED <<call, intents>>
      \/ EndsCall(i)
  <2>1. CASE Starts(i)
    BY <2>1, StartsCases
  <2>2. CASE Locks(i) \/ WritesKey(i) \/ KeyFails(i) \/ UndoFails(i) \/ Finishes(i)
    BY <2>2, Zenon DEF Locks, WritesKey, KeyFails, UndoFails, Finishes, queueVars
  <2>3. CASE Answered(i)
    BY <2>3, Zenon DEF Answered, ReadsBack
  <2> QED BY <2>1, <2>2, <2>3 DEF Step
<1>4. CASE UNCHANGED <<call, intents>>
  BY <1>1, <1>2, <1>4
<1>5. CASE EndsCall(i)
  <2>1. ~Owed(i)'
    BY <1>5 DEF EndsCall, Goes, Owed, InQueue, QueueInv, QueueTyped
  <2>2. \A k \in Repos : intents[k].by # i => intents'[k] = intents[k]
    BY <1>5 DEF EndsCall, QueueInv, QueueTyped
  <2> QED BY <1>1, <1>2, <2>1, <2>2
<1> QED BY <1>3, <1>4, <1>5

\* The newest call is still to be answered while anything is owed.
LEMMA LatestKeeps ==
  ASSUME QueueInv, LatestFit, [Next]_vars
  PROVE  LatestFit'
<1> SUFFICES ASSUME NEW h \in CallIds, Owed(h)', NEW k, k = call'[h].key, NEW l, l = latest'[k]
             PROVE  l \in CallIds /\ h <= l /\ Owed(l)' /\ call'[l].key = k
  BY DEF LatestFit, Key
<1> USE DEF QueueInv
<1>1. ASSUME NEW m \in CallIds, Owed(m) PROVE Key(m) \in Repos
  BY <1>1 DEF CallsFit, Key
<1>2. ASSUME Owed(h), k = Key(h), NEW m, m = latest[k]
      PROVE  m \in CallIds /\ h <= m /\ Owed(m) /\ call[m].key = k
  BY <1>2 DEF LatestFit
<1>3. ASSUME NEW c \in CardOrNone, Applies(c)
      PROVE  l \in CallIds /\ h <= l /\ Owed(l)' /\ call'[l].key = k
  <2>1. PICK n : n = asked + 1
    OBVIOUS
  <2>2. /\ n \in CallIds /\ pc[n] = "idle" /\ pc'[n] = "waits"
        /\ call'[n].key = KeyOf[open] /\ KeyOf[open] \in Repos
        /\ \A j \in CallIds \ {n} : pc'[j] = pc[j] /\ call'[j] = call[j] /\ (Owed(j) => j < n)
    BY <1>3, <2>1, AppliesKeeps
  <2>3. latest' = [latest EXCEPT ![KeyOf[open]] = n]
    BY <1>3, <2>1 DEF Applies
  <2>4. n <= n /\ Owed(n)' /\ ~Owed(n)
    BY <2>2, BoundsAssumption DEF Owed, InQueue, CallIds
  <2>5. h # n => Owed(h) /\ k = Key(h) /\ h < n
    BY <2>2 DEF Owed, Key
  <2>6. CASE k = KeyOf[open]
    <3>1. l = n
      BY <2>2, <2>3, <2>6 DEF QueueTyped
    <3>2. h <= n
      BY <2>2, <2>4, <2>5, BoundsAssumption DEF CallIds
    <3> QED BY <2>2, <2>4, <2>6, <3>1, <3>2
  <2>7. CASE k # KeyOf[open]
    <3>1. h # n
      BY <2>2, <2>7
    <3>2. l = latest[k]
      BY <1>1, <2>3, <2>5, <2>7, <3>1 DEF QueueTyped
    <3>3. l \in CallIds /\ h <= l /\ Owed(l) /\ call[l].key = k
      BY <1>2, <2>5, <3>1, <3>2
    <3>4. l # n
      BY <2>4, <3>3
    <3> QED BY <2>2, <3>3, <3>4 DEF Owed
  <2> QED BY <2>6, <2>7
<1>4. ASSUME NEW c \in Cards, Deletes(c)
      PROVE  l \in CallIds /\ h <= l /\ Owed(l)' /\ call'[l].key = k
  <2>1. /\ \A i \in CallIds : pc[i] # "idle" => pc'[i] = pc[i] /\ call'[i] = call[i]
        /\ \A i \in CallIds : Owed(i)' =>
             \/ Owed(i)
             \/ latest'[call'[i].key] = i /\ call'[i].kind = "reconcile"
        /\ \A r \in Hit(c) : LET i == latest'[r]
                            IN /\ i \in CallIds /\ pc[i] = "idle" /\ pc'[i] = "waits"
                               /\ call'[i].key = r /\ call'[i].kind = "reconcile"
                               /\ \A j \in CallIds : Owed(j) => j < i
        /\ \A r \in Repos \ Hit(c) : latest'[r] = latest[r]
    BY <1>4, DeletesKeeps
  <2>2. \A m \in CallIds : Owed(m) => Owed(m)' /\ call'[m] = call[m]
    BY <2>1 DEF Owed, InQueue
  <2>3. CASE ~Owed(h)
    <3>1. l = h
      BY <2>1, <2>3
    <3> QED BY <3>1, BoundsAssumption DEF CallIds
  <2>4. CASE Owed(h) /\ k \in Hit(c)
    <3>1. l \in CallIds /\ pc'[l] = "waits" /\ call'[l].key = k /\ h < l
      BY <2>1, <2>4
    <3> QED BY <3>1, BoundsAssumption DEF Owed, InQueue, CallIds
  <2>5. CASE Owed(h) /\ k \notin Hit(c)
    <3>1. k = Key(h)
      BY <2>2, <2>5 DEF Key
    <3>2. l = latest[k]
      BY <1>1, <2>1, <2>5, <3>1
    <3> QED BY <1>2, <2>2, <2>5, <3>1, <3>2
  <2> QED BY <2>3, <2>4, <2>5
<1>5. ASSUME \A m \in CallIds : Owed(m)' <=> Owed(m),
             \A m \in CallIds : Owed(m) => call'[m] = call[m],
             latest' = latest
      PROVE  l \in CallIds /\ h <= l /\ Owed(l)' /\ call'[l].key = k
  <2>1. Owed(h) /\ k = Key(h) /\ l = latest[k]
    BY <1>5 DEF Key
  <2>2. l \in CallIds /\ h <= l /\ Owed(l) /\ call[l].key = k
    BY <1>2, <2>1
  <2> QED BY <1>5, <2>2
<1>6. ASSUME NEW x \in Readers, Lands(x)
      PROVE  l \in CallIds /\ h <= l /\ Owed(l)' /\ call'[l].key = k
  BY <1>5, <1>6, LandsKeeps
<1>7. ASSUME UNCHANGED <<queueVars, pc>>
      PROVE  l \in CallIds /\ h <= l /\ Owed(l)' /\ call'[l].key = k
  BY <1>5, <1>7 DEF queueVars, Owed
<1>8. ASSUME NEW i \in CallIds, Step(i)
      PROVE  l \in CallIds /\ h <= l /\ Owed(l)' /\ call'[l].key = k
  <2>1. /\ Owed(i) /\ First(i) /\ Beside(i) /\ (Owed(i)' => call'[i] = call[i])
    BY <1>8, StepIs
  <2>2. Owed(h) /\ k = Key(h) /\ l = latest[k]
    BY <2>1 DEF Beside, Owed, Key
  <2>3. l \in CallIds /\ h <= l /\ Owed(l) /\ call[l].key = k
    BY <1>2, <2>2
  <2>4. CASE l # i
    BY <2>1, <2>3, <2>4 DEF Beside, Owed
  <2>5. CASE l = i
    <3>1. ~(h < i)
      BY <2>1, <2>2, <2>3, <2>5 DEF First, Holds, Key
    <3>2. h = i
      BY <2>3, <2>5, <3>1, BoundsAssumption DEF CallIds
    <3> QED BY <2>1, <2>3, <2>5, <3>2
  <2> QED BY <2>4, <2>5
<1> QED BY <1>3, <1>4, <1>6, <1>7, <1>8, StoreStepKeeps DEF Next, CardOrNone, vars

\* The newest call carries a card that exists.
LEMMA IntentKeeps ==
  ASSUME QueueInv, IntentFit, [Next]_vars
  PROVE  IntentFit'
<1> SUFFICES ASSUME NEW h \in CallIds, Owed(h)', NEW k, k = call'[h].key,
                    latest'[k] = h, call'[h].kind = "apply"
             PROVE  intents'[k] = [by |-> h, card |-> call'[h].want[1]] /\ cards'[call'[h].want[1]] > 0
  BY DEF IntentFit, Key, IsLatest, Exists
<1> USE DEF QueueInv
<1>0. \A c \in Cards : cards[c] \in Nat
  BY BoundsAssumption DEF StoreTyped
<1>1. ASSUME Owed(h), call'[h] = call[h], latest[k] = h
      PROVE  /\ intents[k] = [by |-> h, card |-> call'[h].want[1]] /\ cards[call'[h].want[1]] > 0
             /\ k \in Repos /\ call'[h].want[1] \in Cards
  BY <1>1 DEF IntentFit, Key, IsLatest, Exists, CallsFit, Tuples
<1>2. ASSUME NEW c \in CardOrNone, Applies(c)
      PROVE  intents'[k] = [by |-> h, card |-> call'[h].want[1]] /\ cards'[call'[h].want[1]] > 0
  <2>1. PICK n : n = asked + 1
    OBVIOUS
  <2>2. /\ n \in CallIds /\ pc[n] = "idle"
        /\ call'[n].key = KeyOf[open] /\ KeyOf[open] \in Repos
        /\ call'[n].kind = "apply" => c # None /\ call'[n].want[1] = c
        /\ \A j \in CallIds \ {n} : pc'[j] = pc[j] /\ call'[j] = call[j]
    BY <1>2, <2>1, AppliesKeeps
  <2>3. /\ latest' = [latest EXCEPT ![KeyOf[open]] = n]
        /\ intents' = [intents EXCEPT ![KeyOf[open]] = [by |-> n, card |-> c]]
        /\ cards' = cards /\ (c # None => cards[c] > 0)
    BY <1>2, <2>1 DEF Applies, listVars
  <2>4. CASE h = n
    BY <2>2, <2>3, <2>4 DEF QueueTyped
  <2>5. CASE h # n
    <3>1. Owed(h) /\ call'[h] = call[h] /\ k \in Repos
      BY <2>2, <2>5 DEF Owed, CallsFit
    <3>2. k # KeyOf[open]
      BY <2>2, <2>3, <2>5 DEF QueueTyped
    <3>3. latest[k] = h /\ intents'[k] = intents[k]
      BY <2>3, <3>1, <3>2 DEF QueueTyped
    <3> QED BY <1>1, <2>3, <3>1, <3>3
  <2> QED BY <2>4, <2>5
<1>3. ASSUME NEW c \in Cards, Deletes(c)
      PROVE  intents'[k] = [by |-> h, card |-> call'[h].want[1]] /\ cards'[call'[h].want[1]] > 0
  <2>1. /\ \A i \in CallIds : pc[i] # "idle" => pc'[i] = pc[i] /\ call'[i] = call[i]
        /\ \A i \in CallIds : Owed(i)' =>
             \/ Owed(i)
             \/ latest'[call'[i].key] = i /\ call'[i].kind = "reconcile"
        /\ \A r \in Hit(c) : LET i == latest'[r]
                            IN /\ i \in CallIds /\ pc[i] = "idle" /\ pc'[i] = "waits"
                               /\ call'[i].key = r /\ call'[i].kind = "reconcile"
                               /\ \A j \in CallIds : Owed(j) => j < i
        /\ \A r \in Repos \ Hit(c) : latest'[r] = latest[r]
    BY <1>3, DeletesKeeps
  <2>2. /\ cards' = [cards EXCEPT ![c] = 0] /\ intents' = intents
    BY <1>3 DEF Deletes
  <2>3. Owed(h) /\ call'[h] = call[h] /\ k \in Repos
    BY <2>1 DEF Owed, InQueue, CallsFit
  <2>4. k \notin Hit(c)
    BY <2>1, <2>3 DEF Owed, InQueue
  <2>5. latest[k] = h
    BY <2>1, <2>3, <2>4
  <2>6. call'[h].want[1] # c
    BY <1>1, <2>3, <2>4, <2>5 DEF Hit
  <2> QED BY <1>1, <2>2, <2>3, <2>5, <2>6 DEF StoreTyped
<1>4. ASSUME NEW c \in Cards, Edits(c)
      PROVE  intents'[k] = [by |-> h, card |-> call'[h].want[1]] /\ cards'[call'[h].want[1]] > 0
  <2>1. cards' = [cards EXCEPT ![c] = @ + 1] /\ UNCHANGED <<queueVars, pc>>
    BY <1>4 DEF Edits
  <2>2. Owed(h) /\ call'[h] = call[h] /\ latest[k] = h /\ intents' = intents
    BY <2>1 DEF queueVars, Owed
  <2> QED BY <1>0, <1>1, <2>1, <2>2 DEF StoreTyped
<1>5. ASSUME UNCHANGED <<queueVars, pc, cards>>
      PROVE  intents'[k] = [by |-> h, card |-> call'[h].want[1]] /\ cards'[call'[h].want[1]] > 0
  <2>1. Owed(h) /\ call'[h] = call[h] /\ latest[k] = h /\ intents' = intents /\ cards' = cards
    BY <1>5 DEF queueVars, Owed
  <2> QED BY <1>1, <2>1
<1>6. ASSUME NEW x \in Readers, Lands(x)
      PROVE  intents'[k] = [by |-> h, card |-> call'[h].want[1]] /\ cards'[call'[h].want[1]] > 0
  <2>1. Owed(h) /\ call'[h] = call[h] /\ latest[k] = h /\ cards' = cards
    BY <1>6, LandsKeeps DEF listVars
  <2>2. x \in CallIds => x # h
    BY <1>6, <2>1 DEF Lands, ReadsFit, Owed, InQueue
  <2>3. x \in CallIds \/ intents' = intents
    BY <1>6 DEF Lands
  <2>4. x \in CallIds => intents' = [intents EXCEPT ![Key(x)] = IF @.by = x THEN [by |-> 0, card |-> None] ELSE @]
    BY <1>6 DEF Lands, EndsCall
  <2>5. intents[k] = [by |-> h, card |-> call'[h].want[1]] /\ k \in Repos
    BY <1>1, <2>1
  <2>6. intents[k].by = h
    BY <2>5
  <2>7. intents'[k] = intents[k]
    BY <2>2, <2>3, <2>4, <2>5, <2>6 DEF QueueTyped
  <2> QED BY <1>1, <2>1, <2>7
<1>7. ASSUME NEW i \in CallIds, Step(i)
      PROVE  intents'[k] = [by |-> h, card |-> call'[h].want[1]] /\ cards'[call'[h].want[1]] > 0
  <2>1. /\ Owed(i) /\ Beside(i) /\ (Owed(i)' => call'[i] = call[i] /\ intents' = intents)
        /\ \A r \in Repos : intents[r].by # i => intents'[r] = intents[r]
        /\ UNCHANGED <<cards, latest>>
    BY <1>7, StepIs
  <2>2. Owed(h) /\ call'[h] = call[h] /\ latest[k] = h
    BY <2>1 DEF Beside, Owed
  <2>3. intents[k] = [by |-> h, card |-> call'[h].want[1]] /\ k \in Repos
    BY <1>1, <2>2
  <2>4. intents[k].by = h
    BY <2>3
  <2>5. intents'[k] = intents[k]
    BY <2>1, <2>3, <2>4
  <2> QED BY <1>1, <2>1, <2>2, <2>5
<1>8. ASSUME \/ \E p \in Paths : Syncs(p)
             \/ \E x \in Readers : Reads(x)
             \/ Leaves \/ Commits \/ CommitRuns
      PROVE  UNCHANGED <<queueVars, pc, cards>>
  <2>1. UNCHANGED <<queueVars, pc>>
    BY <1>8, StoreStepKeeps
  <2>2. UNCHANGED cards
    BY <1>8 DEF Syncs, Reads, Leaves, Commits, CommitRuns, listVars
  <2> QED BY <2>1, <2>2
<1> QED BY <1>2, <1>3, <1>4, <1>5, <1>6, <1>7, <1>8 DEF Next, CardOrNone, vars, listVars

\* While a write is owed, the newest call is, with the card the user last chose.
LEMMA NewestIsOwed == Spec => [](LatestFit /\ IntentFit)
<1>1. Init => LatestFit /\ IntentFit
  BY DEF Init, LatestFit, IntentFit, Owed, InQueue
<1>2. QueueInv /\ (LatestFit /\ IntentFit) /\ [Next]_vars => (LatestFit /\ IntentFit)'
  BY LatestKeeps, IntentKeeps
<1> QED BY <1>1, <1>2, QueueInvariant, PTL DEF Spec

-----------------------------------------------------------------------------
(* The marker and the config.                                                *)

\* One write of a repository at a time.
LEMMA OneWrites ==
  ASSUME QueueInv, NEW i \in CallIds, NEW j \in CallIds, Key(i) = Key(j),
         pc[i] \in Writing, pc[j] \in Writing
  PROVE  i = j
<1>1. Holds(i) /\ Holds(j) /\ pc[i] # "waits" /\ pc[j] # "waits"
  BY DEF Holds, Owed, Writing
<1>2. ~(i < j) /\ ~(j < i)
  BY <1>1 DEF QueueInv, TurnsFit, Key
<1> QED BY <1>2, BoundsAssumption DEF CallIds

GitStep(i) == Locks(i) \/ WritesKey(i) \/ KeyFails(i) \/ UndoFails(i) \/ Finishes(i)

\* The writes under way and written, seen from the steps that are not git's.
LEMMA GitIsBeside ==
  ASSUME QueueInv, [Next]_vars
  PROVE  \/ \E i \in CallIds : GitStep(i)
         \/ /\ UNCHANGED gitVars
            /\ \/ \E i \in CallIds : Answered(i)
               \/ /\ UNCHANGED applied \/ \E c \in Cards : Deletes(c)
                  /\ \A h \in CallIds : pc[h] = "wrote" => pc'[h] = pc[h]
            /\ \A h \in CallIds : pc[h] = "writes" => pc'[h] = pc[h]
            /\ \A h \in CallIds : pc'[h] \in {"writes", "wrote"} => pc'[h] = pc[h] /\ call'[h] = call[h]
<1> DEFINE Aside ==
      /\ UNCHANGED gitVars
      /\ \A h \in CallIds : pc[h] = "writes" => pc'[h] = pc[h]
      /\ \A h \in CallIds : pc'[h] \in {"writes", "wrote"} => pc'[h] = pc[h] /\ call'[h] = call[h]
           Kept == \A h \in CallIds : pc[h] = "wrote" => pc'[h] = pc[h]
<1>1. ASSUME NEW c \in CardOrNone, Applies(c) PROVE Aside /\ Kept /\ UNCHANGED applied
  <2>1. PICK n : n = asked + 1
    OBVIOUS
  <2>2. /\ n \in CallIds /\ pc[n] = "idle" /\ pc'[n] = "waits"
        /\ \A j \in CallIds \ {n} : pc'[j] = pc[j] /\ call'[j] = call[j]
    BY <1>1, <2>1, AppliesKeeps
  <2>3. UNCHANGED <<gitVars, applied>>
    BY <1>1 DEF Applies, listVars
  <2> QED BY <2>2, <2>3
<1>2. ASSUME NEW c \in Cards, Deletes(c) PROVE Aside /\ Kept
  <2>1. /\ \A i \in CallIds : pc[i] # "idle" => pc'[i] = pc[i] /\ call'[i] = call[i]
        /\ \A i \in CallIds : Owed(i)' =>
             \/ Owed(i)
             \/ latest'[call'[i].key] = i /\ call'[i].kind = "reconcile"
    BY <1>2, DeletesKeeps
  <2>2. CallsFit'
    BY <1>2, DeletesKeeps DEF QueueInv
  <2>3. ASSUME NEW h \in CallIds, pc'[h] \in {"writes", "wrote"}
        PROVE  pc'[h] = pc[h] /\ call'[h] = call[h]
    <3>1. call'[h].kind # "reconcile" /\ Owed(h)'
      BY <2>2, <2>3 DEF CallsFit, Writing, InQueue, Owed
    <3>2. Owed(h)
      BY <2>1, <3>1
    <3> QED BY <2>1, <3>2 DEF Owed, InQueue
  <2>4. UNCHANGED gitVars
    BY <1>2 DEF Deletes
  <2> QED BY <2>1, <2>3, <2>4
<1>3. ASSUME NEW x \in Readers, Lands(x) PROVE Aside /\ Kept /\ UNCHANGED applied
  <2>1. /\ \A j \in CallIds : Owed(j)' <=> Owed(j)
        /\ \A j \in CallIds : Owed(j) => pc'[j] = pc[j] /\ call'[j] = call[j]
        /\ UNCHANGED <<listVars, latest, gitVars>>
    BY <1>3, LandsKeeps
  <2> QED BY <2>1 DEF Owed, InQueue, listVars
<1>4. ASSUME UNCHANGED <<queueVars, pc, gitVars, applied>> PROVE Aside /\ Kept /\ UNCHANGED applied
  BY <1>4 DEF queueVars
<1>5. ASSUME NEW i \in CallIds, Starts(i) PROVE Aside /\ Kept /\ UNCHANGED applied
  <2>1. Beside(i) /\ pc[i] = "waits" /\ UNCHANGED <<gitVars, applied>>
    BY <1>5, StartsKeeps, StartsCases DEF Starting, listVars
  <2>2. pc'[i] \in {"reads", "over", "sent"}
    BY <1>5, StartsCases DEF Goes, EndsCall, QueueInv, QueueTyped
  <2> QED BY <2>1, <2>2 DEF Beside
<1>6. ASSUME NEW i \in CallIds, Answered(i) PROVE Aside
  <2>1. Beside(i) /\ pc[i] \in {"wrote", "threw"} /\ ~Owed(i)' /\ UNCHANGED gitVars
    BY <1>6, AnsweredKeeps
  <2> QED BY <2>1 DEF Beside, Owed, InQueue
<1>7. ASSUME \/ \E c \in Cards : Edits(c)
             \/ \E p \in Paths : Syncs(p)
             \/ \E x \in Readers : Reads(x)
             \/ Leaves \/ Commits \/ CommitRuns
      PROVE  UNCHANGED <<queueVars, pc, gitVars, applied>>
  <2>1. UNCHANGED <<queueVars, pc>>
    BY <1>7, StoreStepKeeps
  <2>2. UNCHANGED <<gitVars, applied>>
    BY <1>7 DEF Edits, Syncs, Reads, Leaves, Commits, CommitRuns, listVars
  <2> QED BY <2>1, <2>2
<1>8. UNCHANGED vars => UNCHANGED <<queueVars, pc, gitVars, applied>>
  BY DEF vars, listVars
<1> HIDE DEF Aside, Kept
<1>9. \/ \E i \in CallIds : GitStep(i)
      \/ Aside /\ \E i \in CallIds : Answered(i)
      \/ Aside /\ Kept /\ (UNCHANGED applied \/ \E c \in Cards : Deletes(c))
  BY <1>1, <1>2, <1>3, <1>4, <1>5, <1>6, <1>7, <1>8 DEF Next, Step, GitStep, CardOrNone
<1> QED BY <1>9 DEF Aside, Kept

\* Marker and config name the same card, but for an answer on its way.
LEMMA MarkerKeeps ==
  ASSUME QueueInv, MarkerFit, [Next]_vars
  PROVE  MarkerFit'
<1> DEFINE Behind(k) == \E i \in CallIds : pc[i] = "wrote" /\ Key(i) = k
<1>0. /\ cards \in [Cards -> Nat] /\ applied \in [Repos -> CardOrNone] /\ given \in [Repos -> CardOrNone]
      /\ \A i \in CallIds : pc[i] \in Writing => Key(i) \in Repos
  BY BoundsAssumption DEF QueueInv, StoreTyped, CallsFit, Owed, Writing, Key
<1>1. ASSUME NEW i \in CallIds, GitStep(i) PROVE MarkerFit'
  <2>1. Beside(i) /\ First(i) /\ pc[i] \in {"sent", "writes"} /\ call' = call /\ UNCHANGED listVars
    <3>1. Beside(i) /\ First(i)
      BY <1>1, GitKeeps DEF GitStep
    <3>2. pc[i] \in {"sent", "writes"} /\ call' = call /\ UNCHANGED listVars
      BY <1>1 DEF GitStep, Locks, WritesKey, KeyFails, UndoFails, Finishes, queueVars
    <3> QED BY <3>1, <3>2
  <2>2. \/ given' = given /\ pc'[i] # "wrote"
        \/ given' = [given EXCEPT ![Key(i)] = Gives(i)] /\ pc'[i] = "wrote"
    <3>1. CASE Locks(i) \/ WritesKey(i) \/ KeyFails(i) \/ UndoFails(i)
      BY <3>1, <2>1 DEF Locks, WritesKey, KeyFails, UndoFails, Frees, Goes, QueueInv, QueueTyped
    <3>2. CASE Finishes(i)
      BY <3>2 DEF Finishes, Frees, Goes, QueueInv, QueueTyped, Gives
    <3> QED BY <1>1, <3>1, <3>2 DEF GitStep
  <2>3. \A h \in CallIds \ {i} : pc[h] = "wrote" => Key(h) # Key(i)
    BY <2>1, OneWrites DEF Writing, InQueue
  <2>4. ASSUME NEW h \in CallIds, pc'[h] = "wrote" PROVE given'[call'[h].key] = Gives(h)'
    <3>1. CASE h = i
      BY <1>0, <2>1, <2>2, <2>4, <3>1 DEF Gives, Key, Writing, InQueue
    <3>2. CASE h # i
      <4>1. pc[h] = "wrote" /\ given[Key(h)] = Gives(h)
        BY <2>1, <2>4, <3>2 DEF Beside, MarkerFit
      <4>2. given'[Key(h)] = given[Key(h)]
        BY <1>0, <2>2, <2>3, <3>2, <4>1 DEF Writing, InQueue
      <4> QED BY <2>1, <4>1, <4>2 DEF Gives, Key
    <3> QED BY <3>1, <3>2
  <2>5. ASSUME NEW k \in Repos PROVE Alive(applied[k])'
    BY <2>1 DEF MarkerFit, Alive, listVars
  <2>6. ASSUME NEW k \in Repos, Alive(given[k])', applied'[k] # given'[k] PROVE Behind(k)'
    <3>1. CASE pc'[i] = "wrote" /\ Key(i) = k
      BY <2>1, <3>1 DEF Key
    <3>2. CASE ~(pc'[i] = "wrote" /\ Key(i) = k)
      <4>1. given'[k] = given[k]
        BY <1>0, <2>2, <3>2
      <4>2. Alive(given[k]) /\ applied[k] # given[k]
        BY <2>1, <2>6, <4>1 DEF Alive, listVars
      <4>3. PICK h \in CallIds : pc[h] = "wrote" /\ Key(h) = k
        BY <4>2 DEF MarkerFit
      <4>4. h # i /\ pc'[h] = "wrote" /\ call'[h].key = k
        BY <2>1, <4>3 DEF Beside, Key
      <4> QED BY <4>4 DEF Key
    <3> QED BY <3>1, <3>2
  <2> QED BY <2>4, <2>5, <2>6 DEF MarkerFit, Key
<1>2. ASSUME UNCHANGED gitVars, UNCHANGED applied \/ (\E c \in Cards : Deletes(c)),
             \A h \in CallIds : pc[h] = "wrote" => pc'[h] = pc[h],
             \A h \in CallIds : pc'[h] \in {"writes", "wrote"} => pc'[h] = pc[h] /\ call'[h] = call[h]
      PROVE  MarkerFit'
  <2>1. given' = given
    BY <1>2 DEF gitVars
  <2>2. ASSUME NEW h \in CallIds, pc'[h] = "wrote" PROVE given'[call'[h].key] = Gives(h)'
    BY <1>2, <2>1, <2>2 DEF MarkerFit, Gives, Key
  <2>3. ASSUME NEW k \in Repos, Behind(k) PROVE Behind(k)'
    BY <1>2, <2>3 DEF Key
  <2>4. CASE \E c \in Cards : Deletes(c)
    <3>1. PICK c \in Cards : Deletes(c)
      BY <2>4
    <3>2. /\ cards' = [cards EXCEPT ![c] = 0]
          /\ applied' = [k \in Repos |-> IF applied[k] = c THEN None ELSE applied[k]]
      BY <3>1 DEF Deletes
    <3>3. ASSUME NEW k \in Repos PROVE Alive(applied[k])'
      BY <1>0, <3>2 DEF MarkerFit, Alive, CardOrNone
    <3>4. ASSUME NEW k \in Repos, Alive(given[k])', applied'[k] # given'[k] PROVE Behind(k)'
      <4>1. given[k] # c
        BY <1>0, <2>1, <3>2, <3>4, CardsAssumption DEF Alive, CardOrNone
      <4>2. Alive(given[k]) /\ applied[k] # given[k]
        BY <1>0, <2>1, <3>2, <3>4, <4>1 DEF Alive, CardOrNone
      <4> QED BY <2>3, <4>2 DEF MarkerFit
    <3> HIDE DEF Behind
    <3> QED BY <2>2, <3>3, <3>4 DEF MarkerFit, Key, Behind
  <2>5. CASE applied' = applied /\ ~\E c \in Cards : Deletes(c)
    <3>1. \A c \in Cards : cards'[c] > 0 <=> cards[c] > 0
      <4>1. CASE \E c \in Cards : Edits(c)
        BY <1>0, <4>1 DEF Edits
      <4>2. CASE ~\E c \in Cards : Edits(c)
        <5>1. cards' = cards
          <6>1. \A x \in Readers : Lands(x) => cards' = cards
            BY DEF Lands, listVars
          <6>2. \A i \in CallIds : Step(i) => cards' = cards
            BY StepIs
          <6> QED BY <2>5, <4>2, <6>1, <6>2
                  DEF Next, Applies, Syncs, Reads, Leaves, Commits, CommitRuns, vars, listVars
        <5> QED BY <5>1
      <4> QED BY <4>1, <4>2
    <3>2. ASSUME NEW k \in Repos PROVE Alive(applied[k])'
      BY <1>0, <2>5, <3>1 DEF MarkerFit, Alive, CardOrNone
    <3>3. ASSUME NEW k \in Repos, Alive(given[k])', applied'[k] # given'[k] PROVE Behind(k)'
      <4>1. Alive(given[k]) /\ applied[k] # given[k]
        BY <1>0, <2>1, <2>5, <3>1, <3>3 DEF Alive, CardOrNone
      <4> QED BY <2>3, <4>1 DEF MarkerFit
    <3> HIDE DEF Behind
    <3> QED BY <2>2, <3>2, <3>3 DEF MarkerFit, Key, Behind
  <2> QED BY <1>2, <2>4, <2>5
<1>3. ASSUME NEW i \in CallIds, Answered(i) PROVE MarkerFit'
  <2>1. /\ Beside(i) /\ ~Owed(i)' /\ pc[i] \in {"wrote", "threw"}
        /\ UNCHANGED <<cards, gitVars>> /\ Key(i) \in Repos
    BY <1>0, <1>3, AnsweredKeeps DEF Writing, InQueue
  <2>2. /\ given' = given /\ cards' = cards
    BY <2>1 DEF gitVars
  <2>3. pc[i] = "threw" => applied' = applied
    BY <1>3 DEF Answered
  <2>4. pc[i] = "wrote" => Marks(i) /\ given[Key(i)] = Gives(i)
    BY <1>3 DEF Answered, MarkerFit
  <2>5. \A h \in CallIds \ {i} : pc[h] = "wrote" => Key(h) # Key(i)
    BY <2>1, OneWrites DEF Writing, InQueue
  <2>6. ASSUME NEW h \in CallIds, pc'[h] = "wrote" PROVE given'[call'[h].key] = Gives(h)'
    <3>1. h # i /\ pc[h] = "wrote" /\ call'[h] = call[h]
      BY <2>1, <2>6 DEF Beside, Owed, InQueue
    <3> QED BY <2>2, <3>1 DEF MarkerFit, Gives, Key
  <2>7. ASSUME NEW k \in Repos
        PROVE  Alive(applied[k])' /\ (Alive(given[k])' /\ applied'[k] # given'[k] => Behind(k)')
    <3>1. CASE applied'[k] = applied[k] /\ (Behind(k) => Behind(k)')
      BY <2>2, <3>1 DEF MarkerFit, Alive
    <3>2. CASE k # Key(i)
      <4>1. applied'[k] = applied[k]
        BY <1>0, <2>1, <2>3, <2>4, <3>2 DEF Marks
      <4>2. ASSUME NEW h \in CallIds, pc[h] = "wrote", Key(h) = k
            PROVE  pc'[h] = "wrote" /\ call'[h].key = k
        BY <2>1, <3>2, <4>2 DEF Beside, Key
      <4>3. Behind(k) => Behind(k)'
        BY <4>2 DEF Key
      <4> QED BY <3>1, <4>1, <4>3
    <3>3. CASE k = Key(i) /\ pc[i] = "threw"
      <4>1. ~Behind(k)
        BY <2>5, <3>3
      <4> QED BY <2>3, <3>1, <3>3, <4>1
    <3>4. CASE k = Key(i) /\ pc[i] = "wrote"
      <4>1. call[i].kind # "clear" => call[i].want[1] \in Cards
        BY <2>1 DEF QueueInv, CallsFit, Writing, InQueue, Tuples
      <4>2. \/ applied'[k] = Gives(i) /\ Alive(Gives(i))
            \/ applied'[k] = applied[k] /\ ~Alive(Gives(i))
        BY <1>0, <2>4, <3>4, <4>1, CardsAssumption DEF Marks, Gives, Exists, Alive
      <4> QED BY <2>2, <2>4, <3>4, <4>2 DEF MarkerFit, Alive
    <3> QED BY <2>1, <3>2, <3>3, <3>4
  <2> QED BY <2>6, <2>7 DEF MarkerFit, Key
<1> QED BY <1>1, <1>2, <1>3, GitIsBeside

\* The stored marker names the card the config was last given, once its writes are
\* done (writeApplied, scrubManualId).
THEOREM MarkerIsRight == Spec => []MarkerNamesTheCard
<1>1. Init => MarkerFit
  <2> SUFFICES ASSUME Init PROVE MarkerFit
    OBVIOUS
  <2>1. \A k \in Repos : Before[k] \in Cards \cup {None}
    BY CardsAssumption DEF Repos
  <2> QED BY <2>1 DEF Init, MarkerFit, Alive
<1>2. QueueInv /\ MarkerFit /\ [Next]_vars => MarkerFit'
  BY MarkerKeeps
<1>3. MarkerFit => MarkerNamesTheCard
  BY DEF MarkerFit, MarkerNamesTheCard, AtRest, Alive, Key
<1> QED BY <1>1, <1>2, <1>3, QueueInvariant, PTL DEF Spec

-----------------------------------------------------------------------------
(* The lock and the config.                                                  *)

\* A step of git's is one of the call that holds the lock, or takes it, and touches
\* one repository.
LEMMA GitStepIs ==
  ASSUME QueueInv, NEW i \in CallIds, GitStep(i)
  PROVE  /\ Key(i) \in Repos /\ Beside(i) /\ call' = call
         /\ pc[i] \in {"sent", "writes"} /\ pc'[i] \in Writing
         /\ \A k \in Repos \ {Key(i)} : job'[k] = job[k] /\ cfg'[k] = cfg[k] /\ torn'[k] = torn[k]
<1>1. Beside(i)
  BY GitKeeps DEF GitStep
<1>2. pc[i] \in {"sent", "writes"} /\ call' = call
  BY DEF GitStep, Locks, WritesKey, KeyFails, UndoFails, Finishes, queueVars
<1>3. Key(i) \in Repos
  BY <1>2 DEF QueueInv, CallsFit, Owed, InQueue, Key
<1>4. pc'[i] \in Writing
  BY <1>2 DEF GitStep, Locks, WritesKey, KeyFails, UndoFails, Finishes, Frees, Goes,
              QueueInv, QueueTyped, Writing, InQueue
<1>5. \A k \in Repos \ {Key(i)} : job'[k] = job[k] /\ cfg'[k] = cfg[k] /\ torn'[k] = torn[k]
  BY DEF GitStep, Locks, WritesKey, KeyFails, UndoFails, Finishes, Frees, QueueInv, StoreTyped
<1> QED BY <1>1, <1>2, <1>3, <1>4, <1>5

\* The lock stays with the call that writes.
LEMMA LocksKeep ==
  ASSUME QueueInv, LocksFit, [Next]_vars
  PROVE  LocksFit'
<1>1. ASSUME NEW i \in CallIds, GitStep(i) PROVE LocksFit'
  <2>1. /\ Key(i) \in Repos /\ Beside(i) /\ call' = call /\ pc[i] \in {"sent", "writes"}
        /\ \A k \in Repos \ {Key(i)} : job'[k] = job[k]
    BY <1>1, GitStepIs
  <2>2. i # 0
    BY BoundsAssumption DEF CallIds
  <2>3. \/ pc'[i] = "writes" /\ job'[Key(i)].by = i
        \/ pc'[i] # "writes" /\ job'[Key(i)].by = 0
    <3>1. CASE Locks(i)
      BY <2>1, <3>1 DEF Locks, Goes, QueueInv, QueueTyped, StoreTyped, NoJob
    <3>2. CASE WritesKey(i) \/ UndoFails(i)
      <4>1. pc'[i] = "writes" /\ job[Key(i)].by = i /\ job'[Key(i)].by = job[Key(i)].by
        BY <2>1, <3>2 DEF WritesKey, UndoFails, LocksFit, QueueInv, StoreTyped, Job
      <4> QED BY <4>1
    <3>3. CASE KeyFails(i) /\ call[i].kind = "apply"
      <4>1. pc'[i] = "writes" /\ job[Key(i)].by = i /\ job'[Key(i)].by = job[Key(i)].by
        BY <2>1, <3>3 DEF KeyFails, LocksFit, QueueInv, StoreTyped, Job
      <4> QED BY <4>1
    <3>4. CASE (KeyFails(i) /\ call[i].kind # "apply") \/ Finishes(i)
      BY <2>1, <3>4 DEF KeyFails, Finishes, Frees, Goes, QueueInv, QueueTyped, StoreTyped, NoJob
    <3> QED BY <1>1, <3>1, <3>2, <3>3, <3>4 DEF GitStep
  <2>4. \A h \in CallIds \ {i} : pc'[h] = pc[h]
    BY <2>1 DEF Beside
  <2>5. \A h \in CallIds \ {i} : pc[h] = "writes" => Key(h) # Key(i)
    <3> SUFFICES ASSUME NEW h \in CallIds \ {i}, pc[h] = "writes", Key(h) = Key(i) PROVE FALSE
      OBVIOUS
    <3>1. job[Key(i)].by = h /\ h # 0
      BY BoundsAssumption DEF LocksFit, CallIds
    <3>2. pc[i] = "sent" => job[Key(i)].by = 0
      BY <1>1 DEF GitStep, Locks, WritesKey, KeyFails, UndoFails, Finishes
    <3> QED BY <2>1, <3>1, <3>2 DEF LocksFit
  <2>6. ASSUME NEW h \in CallIds, pc'[h] = "writes" PROVE job'[Key(h)].by = h
    <3>1. CASE h = i
      BY <2>2, <2>3, <2>6, <3>1
    <3>2. CASE h # i
      <4>1. pc[h] = "writes" /\ Key(h) # Key(i) /\ Key(h) \in Repos
        BY <2>4, <2>5, <2>6, <3>2 DEF QueueInv, CallsFit, Owed, InQueue, Key
      <4> QED BY <2>1, <4>1 DEF LocksFit
    <3> QED BY <3>1, <3>2
  <2>7. ASSUME NEW k \in Repos, NEW h, h = job'[k].by, h # 0
        PROVE  h \in CallIds /\ pc'[h] = "writes" /\ Key(h) = k
    <3>1. CASE k = Key(i)
      BY <2>3, <2>7, <3>1
    <3>2. CASE k # Key(i)
      <4>1. h \in CallIds /\ pc[h] = "writes" /\ Key(h) = k
        BY <2>1, <2>7, <3>2 DEF LocksFit
      <4> QED BY <2>4, <3>2, <4>1
    <3> QED BY <3>1, <3>2
  <2> QED BY <2>1, <2>6, <2>7 DEF LocksFit, Key
<1>2. ASSUME UNCHANGED gitVars,
             \A h \in CallIds : pc[h] = "writes" => pc'[h] = pc[h],
             \A h \in CallIds : pc'[h] \in {"writes", "wrote"} => pc'[h] = pc[h] /\ call'[h] = call[h]
      PROVE  LocksFit'
  BY <1>2 DEF LocksFit, gitVars, Key
<1> QED BY <1>1, <1>2, GitIsBeside

\* What git writes leaves a config fit once nobody writes it.
LEMMA ConfigKeeps ==
  ASSUME QueueInv, LocksFit, ConfigFit, [Next]_vars
  PROVE  ConfigFit'
<1> DEFINE Sound(k, j, c) ==
      /\ j.by = 0 => Fit(c, torn[k])
      /\ j.by # 0 =>
           /\ Fit(j.was, torn[k])
           /\ j.undo => call[j.by].kind = "apply"
           /\ ~j.undo =>
                /\ \A f \in Fields : c[f] = IF f \in j.left THEN j.was[f] ELSE Wanted(call[j.by].want)[f]
                /\ call[j.by].kind = "clear" /\ "sign" \in j.left => j.left = Fields
<1>1. ASSUME NEW i \in CallIds, GitStep(i) PROVE ConfigFit'
  <2> DEFINE k == Key(i)
  <2>1. /\ k \in Repos /\ Beside(i) /\ call' = call /\ pc[i] \in {"sent", "writes"}
        /\ \A r \in Repos \ {k} : job'[r] = job[r] /\ cfg'[r] = cfg[r] /\ torn'[r] = torn[r]
    BY <1>1, GitStepIs
  <2>2. job \in [Repos -> Job] /\ cfg \in [Repos -> Identities] /\ torn \in [Repos -> {"no", "clear", "set"}]
    BY DEF QueueInv, StoreTyped
  <2>3. i # 0 /\ (pc[i] = "writes" => job[k].by = i)
    BY BoundsAssumption DEF CallIds, LocksFit
  <2>4. call[i].kind \in {"apply", "clear"} /\ (call[i].kind = "clear" => call[i].want = None)
        /\ (call[i].kind = "apply" => call[i].want \in Tuples)
    BY <2>1 DEF QueueInv, CallsFit, Writing, InQueue
  <2>5. /\ job[k].by = 0 => Fit(cfg[k], torn[k])
        /\ pc[i] = "writes" =>
             /\ Fit(job[k].was, torn[k])
             /\ job[k].undo => call[i].kind = "apply"
             /\ ~job[k].undo =>
                  /\ \A f \in Fields :
                       cfg[k][f] = IF f \in job[k].left THEN job[k].was[f] ELSE Wanted(call[i].want)[f]
                  /\ call[i].kind = "clear" /\ "sign" \in job[k].left => job[k].left = Fields
    BY <2>1, <2>3 DEF ConfigFit
  <2> DEFINE Good ==
        /\ job'[k].by = 0 => Fit(cfg'[k], torn'[k])
        /\ job'[k].by # 0 =>
             /\ job'[k].by = i
             /\ Fit(job'[k].was, torn'[k])
             /\ job'[k].undo => call[i].kind = "apply"
             /\ ~job'[k].undo =>
                  /\ \A f \in Fields :
                       cfg'[k][f] = IF f \in job'[k].left THEN job'[k].was[f] ELSE Wanted(call[i].want)[f]
                  /\ call[i].kind = "clear" /\ "sign" \in job'[k].left => job'[k].left = Fields
  <2>6. Good
    <3>1. CASE Locks(i)
      <4>1. /\ job'[k].by = i /\ job'[k].left = Fields /\ job'[k].undo = FALSE /\ job'[k].was = cfg[k]
        BY <2>1, <2>2, <3>1 DEF Locks, NoJob
      <4>2. cfg' = cfg /\ torn' = torn /\ job[k].by = 0
        BY <3>1 DEF Locks
      <4> QED BY <2>3, <2>5, <4>1, <4>2
    <3>0. ASSUME job'[k].by = i, job'[k].undo, Fit(job'[k].was, torn'[k]), call[i].kind = "apply"
          PROVE  Good
      BY <2>3, <3>0, Zenon
    <3>2. ASSUME WritesKey(i), job[k].undo
          PROVE  Good
      <4>1. /\ job'[k].by = job[k].by /\ job'[k].was = job[k].was /\ torn' = torn /\ pc[i] = "writes"
        BY <2>1, <2>2, <3>2 DEF WritesKey, Job
      <4>2. job'[k].undo = job[k].undo
        BY <2>1, <2>2, <3>2 DEF WritesKey, Job
      <4>3. call[i].kind = "apply"
        BY <2>5, <3>2, <4>1, Zenon
      <4>4. Fit(job'[k].was, torn'[k])
        BY <2>5, <4>1
      <4> HIDE DEF Good
      <4> QED BY <2>3, <3>0, <3>2, <4>1, <4>2, <4>3, <4>4
    <3>3. CASE WritesKey(i) /\ ~job[k].undo
      <4>1. PICK f \in Fields :
              /\ Due(i, f)
              /\ cfg' = [cfg EXCEPT ![k][f] = IF job[k].undo THEN job[k].old[f] ELSE Wanted(call[i].want)[f]]
              /\ job' = [job EXCEPT ![k].left = @ \ {f}]
        BY <3>3 DEF WritesKey
      <4>2. /\ job'[k].by = job[k].by /\ job'[k].was = job[k].was /\ job'[k].left = job[k].left \ {f}
            /\ torn' = torn /\ pc[i] = "writes"
        BY <2>1, <2>2, <3>3, <4>1 DEF WritesKey, Job
      <4>3. job'[k].undo = job[k].undo
        BY <2>1, <2>2, <4>1 DEF Job
      <4>4. /\ cfg'[k][f] = Wanted(call[i].want)[f]
            /\ \A g \in Fields \ {f} : cfg'[k][g] = cfg[k][g]
        BY <2>1, <2>2, <3>3, <4>1 DEF Identities
      <4>5. ASSUME NEW g \in Fields
            PROVE  cfg'[k][g] = IF g \in job'[k].left THEN job'[k].was[g] ELSE Wanted(call[i].want)[g]
        BY <2>5, <3>3, <4>2, <4>4
      <4>6. ASSUME call[i].kind = "clear", "sign" \in job'[k].left PROVE FALSE
        <5>1. "sign" \in job[k].left /\ f # "sign"
          BY <4>2, <4>6
        <5>2. Turns(i) = [sign |-> 1, name |-> 2, email |-> 3]
          BY <4>6 DEF Turns
        <5>3. Turns(i)[f] <= Turns(i)["sign"]
          BY <4>1, <5>1 DEF Due
        <5>4. f = "name" \/ f = "email"
          BY <5>1, CardsAssumption
        <5> QED BY <5>2, <5>3, <5>4
      <4> QED BY <2>3, <2>5, <3>3, <4>2, <4>3, <4>5, <4>6
    <3>4. ASSUME KeyFails(i), call[i].kind = "apply"
          PROVE  Good
      <4>1. /\ job'[k].by = job[k].by /\ job'[k].was = job[k].was /\ torn' = torn /\ pc[i] = "writes"
        BY <2>1, <2>2, <3>4 DEF KeyFails, Job
      <4>2. job'[k].undo = TRUE
        BY <2>1, <2>2, <3>4 DEF KeyFails, Job
      <4>3. Fit(job'[k].was, torn'[k])
        BY <2>5, <4>1
      <4> HIDE DEF Good
      <4> QED BY <2>3, <3>0, <3>4, <4>1, <4>2, <4>3
    <3>5. CASE KeyFails(i) /\ call[i].kind # "apply"
      <4>1. job'[k].by = 0 /\ cfg' = cfg
        BY <2>1, <2>2, <3>5 DEF KeyFails, Frees, NoJob
      <4>2. torn'[k] = IF cfg[k] # job[k].was THEN "clear" ELSE torn[k]
        BY <2>1, <2>2, <3>5 DEF KeyFails
      <4>3. pc[i] = "writes" /\ ~job[k].undo /\ call[i].kind = "clear"
        BY <2>4, <3>5 DEF KeyFails
      <4>4. CASE cfg[k] = job[k].was
        BY <2>5, <4>1, <4>2, <4>3, <4>4
      <4>5. CASE cfg[k] # job[k].was
        <5>1. cfg[k] \in Identities /\ job[k].was \in Identities
          BY <2>1, <2>2 DEF Job
        <5>2. \E f \in Fields : cfg[k][f] # job[k].was[f]
          BY <4>5, <5>1 DEF Identities
        <5>3. "sign" \notin job[k].left
          BY <2>5, <4>3, <5>2
        <5>4. cfg[k]["sign"] = Wanted(call[i].want)["sign"]
          BY <2>5, <4>3, <5>3, CardsAssumption
        <5>5. cfg[k]["sign"] = None
          BY <2>4, <4>3, <5>4, CardsAssumption DEF Wanted, Blank
        <5> QED BY <4>1, <4>2, <4>5, <5>5 DEF Fit
      <4> QED BY <4>4, <4>5
    <3>6. ASSUME UndoFails(i)
          PROVE  Good
      <4>1. /\ job'[k].by = job[k].by /\ job'[k].was = job[k].was /\ torn' = torn /\ pc[i] = "writes"
        BY <2>1, <2>2, <3>6 DEF UndoFails, Job
      <4>2. job'[k].undo = job[k].undo /\ job[k].undo
        BY <2>1, <2>2, <3>6 DEF UndoFails, Job
      <4>3. call[i].kind = "apply"
        BY <2>5, <4>1, <4>2, Zenon
      <4>4. Fit(job'[k].was, torn'[k])
        BY <2>5, <4>1
      <4> HIDE DEF Good
      <4> QED BY <2>3, <3>0, <4>1, <4>2, <4>3, <4>4
    <3>7. CASE Finishes(i)
      <4>1. job'[k].by = 0 /\ cfg' = cfg /\ pc[i] = "writes" /\ job[k].left = {}
        BY <2>1, <2>2, <3>7 DEF Finishes, Frees, NoJob
      <4>2. CASE job[k].undo
        <5>1. torn'[k] = IF cfg[k] # job[k].was THEN "set" ELSE torn[k]
          BY <2>1, <2>2, <3>7, <4>2 DEF Finishes
        <5> QED BY <2>5, <4>1, <5>1 DEF Fit
      <4>3. CASE ~job[k].undo
        <5>1. cfg[k] \in Identities /\ Wanted(call[i].want) \in Identities
          BY <2>1, <2>2, <2>4, IdentityTypes
        <5>2. \A f \in Fields : cfg[k][f] = Wanted(call[i].want)[f]
          BY <2>5, <4>1, <4>3
        <5>3. cfg[k] = Wanted(call[i].want)
          BY <5>1, <5>2 DEF Identities
        <5>4. Whole(cfg[k])
          BY <2>4, <5>3 DEF Wanted, Whole
        <5> QED BY <4>1, <5>4 DEF Fit
      <4> QED BY <4>2, <4>3
    <3> HIDE DEF Good
    <3> QED BY <1>1, <3>1, <3>2, <3>3, <3>4, <3>5, <3>6, <3>7 DEF GitStep
  <2>7. ASSUME NEW r \in Repos PROVE Sound(r, job[r], cfg[r])'
    <3>1. CASE r = k
      BY <2>1, <2>6, <3>1
    <3>2. CASE r # k
      BY <2>1, <3>2 DEF ConfigFit
    <3> QED BY <3>1, <3>2
  <2> QED BY <2>7 DEF ConfigFit
<1>2. ASSUME UNCHANGED gitVars,
             \A h \in CallIds : pc[h] = "writes" => pc'[h] = pc[h],
             \A h \in CallIds : pc'[h] \in {"writes", "wrote"} => pc'[h] = pc[h] /\ call'[h] = call[h]
      PROVE  ConfigFit'
  <2>1. \A k \in Repos : job[k].by # 0 => call'[job[k].by] = call[job[k].by]
    BY <1>2 DEF LocksFit
  <2>2. cfg' = cfg /\ job' = job /\ torn' = torn
    BY <1>2 DEF gitVars
  <2>3. ASSUME NEW k \in Repos PROVE Sound(k, job[k], cfg[k])'
    BY <2>1, <2>2 DEF ConfigFit
  <2> QED BY <2>3 DEF ConfigFit
<1> QED BY <1>1, <1>2, GitIsBeside

\* A commit on its way is of a worktree.
CommitFit == commit.at = "asked" => commit.path \in Paths

\* The config a commit reads under the lock is whole, or what a write that failed is
\* known to leave (run_with_identity_lock, the undo of set_repo_identity).
THEOREM CommitsReadWhole == Spec => CommitsAreWhole
<1>1. Init => LocksFit /\ ConfigFit /\ CommitFit
  <2> SUFFICES ASSUME Init PROVE LocksFit /\ ConfigFit /\ CommitFit
    OBVIOUS
  <2>1. ASSUME NEW k \in Repos PROVE Whole(cfg[k]) /\ job[k].by = 0
    <3>1. applied[k] \in Cards \cup {None}
      BY CardsAssumption DEF Init, Repos
    <3>2. applied[k] # None => <<applied[k], 1>> \in Tuples
      BY <3>1, BoundsAssumption DEF Tuples
    <3> QED BY <3>2 DEF Init, Whole, NoJob
  <2>2. \A i \in CallIds : pc[i] = "idle"
    BY DEF Init
  <2> QED BY <2>1, <2>2 DEF Init, LocksFit, ConfigFit, Fit, CommitFit, NoCommit
<1>2. QueueInv /\ CommitFit /\ [Next]_vars => CommitFit'
  <2> SUFFICES ASSUME QueueInv, CommitFit, [Next]_vars PROVE CommitFit'
    OBVIOUS
  <2>1. UNCHANGED commit \/ Commits \/ CommitRuns
    BY DEF Next, vars, Applies, Deletes, Edits, Syncs, Reads, Lands, Leaves, Step, Starts, Locks,
           WritesKey, KeyFails, UndoFails, Finishes, Answered
  <2> QED BY <2>1, CardsAssumption DEF Commits, CommitRuns, NoCommit, CommitFit
<1>3. ConfigFit /\ CommitFit /\ [Next]_vars =>
        [Made => \/ Whole(Author)
                 \/ Torn = "clear" /\ Author["sign"] = None
                 \/ Torn = "set"]_vars
  <2> SUFFICES ASSUME ConfigFit, CommitFit, [Next]_vars, Made
               PROVE  Fit(Author, Torn)
    BY DEF Fit
  <2>1. UNCHANGED commit \/ Commits \/ CommitRuns
    BY DEF Next, vars, Applies, Deletes, Edits, Syncs, Reads, Lands, Leaves, Step, Starts, Locks,
           WritesKey, KeyFails, UndoFails, Finishes, Answered
  <2>2. job[KeyOf[commit.path]].by = 0
    BY <2>1 DEF Made, Commits, CommitRuns
  <2>3. KeyOf[commit.path] \in Repos
    BY DEF CommitFit, Made, Repos
  <2> QED BY <2>2, <2>3 DEF ConfigFit, Author, Torn
<1>4. QueueInv /\ (LocksFit /\ ConfigFit /\ CommitFit) /\ [Next]_vars => (LocksFit /\ ConfigFit /\ CommitFit)'
  BY <1>2, LocksKeep, ConfigKeeps
<1> QED BY <1>1, <1>3, <1>4, QueueInvariant, PTL DEF Spec, CommitsAreWhole


-----------------------------------------------------------------------------
(* The identity on screen.                                                   *)

\* A read that is asked for what is on screen, under the pins of that moment.
LEMMA AskBrings ==
  ASSUME StoreTyped, NEW x \in Readers, Asks(x, open')
  PROVE  TruthFit'
<1>1. reads'[x] = [NoRead EXCEPT !.at = "asked", !.path = open', !.gen = pins']
  BY DEF Asks, StoreTyped
<1>2. reads'[x].at = "asked" /\ reads'[x].path = open' /\ reads'[x].gen = pins'
  BY <1>1 DEF NoRead
<1> QED BY <1>2 DEF TruthFit, Brings

\* What is shown stays as true as it was while the reads and the config do.
LEMMA StillFit ==
  ASSUME TruthFit, UNCHANGED <<open, shown, pins, reads, blind>>,
         open # None /\ Pending(KeyOf[open]) => Pending(KeyOf[open])',
         open # None => cfg'[KeyOf[open]] = cfg[KeyOf[open]] \/ Pending(KeyOf[open])'
  PROVE  TruthFit'
<1> SUFFICES ASSUME open # None, ~Pending(KeyOf[open])'
             PROVE  (\E x \in Readers : Brings(x)') \/ Tells'
  BY Zenon DEF TruthFit
<1>1. Truth' = Truth
  BY Zenon DEF Truth
<1>2. \A y \in Readers : Stale(y)' <=> Stale(y)
  BY <1>1, Zenon DEF Stale, MayLand
<1>3. \A x \in Readers : Brings(x) => Brings(x)'
  BY <1>1, <1>2, Zenon DEF Brings
<1>4. Tells => Tells'
  BY <1>1, <1>2, Zenon DEF Tells
<1> QED BY <1>3, <1>4, Zenon DEF TruthFit

\* A call that asks for nothing leaves the screen to a later one.
LEMMA EndsFit ==
  ASSUME QueueInv, LatestFit, TruthFit, NEW i \in CallIds, Owed(i), Beside(i),
         UNCHANGED <<open, shown, pins, reads, blind, cfg>>,
         open # None /\ Key(i) = KeyOf[open] => ~IsLatest(i)
  PROVE  TruthFit'
<1>1. ASSUME NEW h \in CallIds \ {i}, Owed(h) PROVE Owed(h)' /\ Key(h)' = Key(h)
  BY <1>1 DEF Beside, Owed, Key
<1>2. ASSUME open # None, NEW h \in CallIds, Owed(h), Key(h) = KeyOf[open]
      PROVE  \E j \in CallIds : Owed(j)' /\ Key(j)' = KeyOf[open]
  <2>1. CASE h # i
    BY <1>1, <1>2, <2>1
  <2>2. CASE h = i
    <3>1. PICK l \in CallIds : l # i /\ Owed(l) /\ Key(l) = KeyOf[open]
      BY <1>2, <2>2 DEF LatestFit, IsLatest, Key
    <3> QED BY <1>1, <3>1
  <2> QED BY <2>1, <2>2
<1>3. open # None /\ Pending(KeyOf[open]) => Pending(KeyOf[open])'
  BY <1>2, Zenon DEF Pending
<1> QED BY <1>3, StillFit, Zenon

\* A step of git's leaves the screen to the answer that is still to come.
LEMMA GitFit ==
  ASSUME QueueInv, TruthFit, NEW i \in CallIds, GitStep(i)
  PROVE  TruthFit'
<1>1. /\ Key(i) \in Repos /\ Beside(i) /\ call' = call /\ pc'[i] \in Writing
      /\ \A k \in Repos \ {Key(i)} : cfg'[k] = cfg[k]
  BY GitStepIs
<1>2. UNCHANGED <<open, shown, pins, reads, blind>>
  BY DEF GitStep, Locks, WritesKey, KeyFails, UndoFails, Finishes, viewVars, readVars
<1>3. \A h \in CallIds : Owed(h) => Owed(h)'
  BY <1>1 DEF Beside, Owed, Writing
<1>4. Owed(i)' /\ Key(i)' = Key(i)
  BY <1>1 DEF Owed, Writing, Key
<1>5. open # None /\ Pending(KeyOf[open]) => Pending(KeyOf[open])'
  BY <1>1, <1>2, <1>3 DEF Pending, Key
<1>6. open # None => KeyOf[open] \in Repos
  BY DEF QueueInv, StoreTyped, Repos
<1>7. open # None => cfg'[KeyOf[open]] = cfg[KeyOf[open]] \/ Pending(KeyOf[open])'
  BY <1>1, <1>2, <1>4, <1>6 DEF Pending
<1> QED BY <1>2, <1>5, <1>7, StillFit

\* A read reads the truth of that moment, whatever is in flight.
LEMMA ReadFit ==
  ASSUME QueueInv, TruthFit, NEW x \in Readers, Reads(x)
  PROVE  TruthFit'
<1> SUFFICES ASSUME open # None, ~Pending(KeyOf[open])'
             PROVE  (\E z \in Readers : Brings(z)') \/ Tells'
  BY Zenon DEF TruthFit, Reads, viewVars
<1>0. /\ reads \in [Readers -> Reading]
      /\ open' = open /\ shown' = shown /\ pins' = pins /\ blind' = blind /\ Truth' = Truth
      /\ pc' = pc /\ call' = call
  BY DEF Reads, QueueInv, StoreTyped, viewVars, queueVars, gitVars, Truth
<1>1. PICK ok \in BOOLEAN :
        reads' = [reads EXCEPT ![x] =
                    [@ EXCEPT !.at = IF ok THEN "read" ELSE "failed",
                              !.got = IF ok THEN Seen(cfg[KeyOf[reads[x].path]]) ELSE Blank,
                              !.older = {y \in Readers : reads[y].at = "read"}]]
  BY DEF Reads
<1>2. /\ reads[x].at = "asked" /\ reads'[x].path = reads[x].path /\ reads'[x].gen = reads[x].gen
      /\ reads'[x].older = {y \in Readers : reads[y].at = "read"}
      /\ \/ reads'[x].at = "failed"
         \/ reads'[x].at = "read" /\ reads'[x].got = Seen(cfg[KeyOf[reads[x].path]])
      /\ \A y \in Readers \ {x} : reads'[y] = reads[y]
  <2>1. reads[x].at = "asked"
    BY DEF Reads
  <2>2. reads[x] \in Reading
    BY <1>0
  <2>3. reads'[x] = [reads[x] EXCEPT !.at = IF ok THEN "read" ELSE "failed",
                              !.got = IF ok THEN Seen(cfg[KeyOf[reads[x].path]]) ELSE Blank,
                              !.older = {y \in Readers : reads[y].at = "read"}]
    BY <1>0, <1>1
  <2>4. \A y \in Readers \ {x} : reads'[y] = reads[y]
    BY <1>0, <1>1
  <2>5. /\ reads'[x].path = reads[x].path /\ reads'[x].gen = reads[x].gen
        /\ reads'[x].older = {y \in Readers : reads[y].at = "read"}
    BY <2>2, <2>3 DEF Reading
  <2>6. /\ reads'[x].at = (IF ok THEN "read" ELSE "failed")
        /\ reads'[x].got = (IF ok THEN Seen(cfg[KeyOf[reads[x].path]]) ELSE Blank)
    BY <2>2, <2>3 DEF Reading
  <2>7. CASE ok
    BY <2>1, <2>4, <2>5, <2>6, <2>7
  <2>8. CASE ~ok
    BY <2>1, <2>4, <2>5, <2>6, <2>8
  <2> QED BY <2>7, <2>8
<1>3. reads[x].path = open /\ reads'[x].at = "read" => reads'[x].got = Truth
  BY <1>2 DEF Truth
<1>4. ~Stale(x)'
  BY <1>0, <1>2, <1>3, Zenon DEF Stale, MayLand
<1>5. \A y \in Readers : Stale(y)' => Stale(y) /\ y # x
  BY <1>0, <1>2, <1>4, Zenon DEF Stale, MayLand
<1>6. ASSUME NEW z \in Readers, Brings(z) PROVE Brings(z)'
  <2>1. CASE z # x
    <3>1. reads'[z] = reads[z]
      BY <1>2, <2>1
    <3> QED BY <1>0, <1>5, <1>6, <3>1, Zenon DEF Brings
  <2>2. CASE z = x
    <3>1. reads[x].path = open /\ reads[x].gen = pins
      BY <1>6, <2>2 DEF Brings
    <3>2. \A y \in Readers : Stale(y)' => y \in reads'[x].older
      BY <1>2, <1>5 DEF Stale, MayLand
    <3> QED BY <1>0, <1>2, <1>3, <2>2, <3>1, <3>2, Zenon DEF Brings
  <2> QED BY <2>1, <2>2
<1>7. Tells => Tells'
  BY <1>0, <1>5, Zenon DEF Tells
<1>8. ~Pending(KeyOf[open])
  BY <1>0, Zenon DEF Pending, Owed, Key
<1> QED BY <1>6, <1>7, <1>8, Zenon DEF TruthFit

\* A read that lands is the one that tells, or makes way for it.
LEMMA LandFit ==
  ASSUME QueueInv, TruthFit, NEW x \in Readers, Lands(x)
  PROVE  TruthFit'
<1>0. open' = open /\ pins' = pins /\ cfg' = cfg
  BY DEF Lands, gitVars
<1>1. Truth' = Truth
  BY <1>0 DEF Truth
<1> SUFFICES ASSUME open # None, ~Pending(KeyOf[open])'
             PROVE  (\E z \in Readers : Brings(z)') \/ Tells'
  BY <1>0, Zenon DEF TruthFit
<1>2. ~Pending(KeyOf[open])
  <2>1. \A j \in CallIds : Owed(j) => Owed(j)' /\ Key(j)' = Key(j)
    BY LandsKeeps DEF Key
  <2> QED BY <1>0, <2>1, Zenon DEF Pending
<1>3. /\ reads'[x].at = "none"
      /\ \A y \in Readers \ {x} :
           /\ reads'[y].at = reads[y].at /\ reads'[y].path = reads[y].path
           /\ reads'[y].gen = reads[y].gen /\ reads'[y].got = reads[y].got
           /\ reads'[y].older = reads[y].older
           /\ reads[y].late => reads'[y].late
           /\ /\ y \in reads[x].older /\ reads[y].at = "read"
              /\ MayLand(x) \/ reads[x].at = "failed"
              => reads'[y].late
  BY LandedReads DEF QueueInv
<1>4. reads[x].at \in {"read", "failed"}
  BY DEF Lands
<1>5. \A y \in Readers : Stale(y)' => y # x
  BY <1>3, Zenon DEF Stale, MayLand
<1>6. \A y \in Readers : Stale(y)' => Stale(y)
  BY <1>0, <1>1, <1>3, <1>5, Zenon DEF Stale, MayLand
<1>7. ASSUME NEW z \in Readers \ {x}, Brings(z) PROVE Brings(z)'
  BY <1>0, <1>1, <1>3, <1>6, <1>7, Zenon DEF Brings
<1>8. /\ MayLand(x) => shown' = reads[x].got
      /\ ~MayLand(x) => shown' = shown
  BY DEF Lands
<1>9. /\ MayLand(x) => (blind' <=> reads[x].late /\ reads[x].gen = pins)
      /\ ~MayLand(x) => (blind' <=> blind \/ (reads[x].at = "failed" /\ reads[x].path = open))
  BY Zenon DEF Lands
<1>10. CASE Brings(x)
  <2>1. /\ reads[x].path = open /\ reads[x].gen = pins
        /\ reads[x].at = "failed" \/ (reads[x].at = "read" /\ reads[x].got = Truth)
        /\ \A y \in Readers : Stale(y) => y \in reads[x].older
    BY <1>4, <1>10 DEF Brings
  <2>2. MayLand(x) \/ reads[x].at = "failed"
    BY <2>1 DEF MayLand
  <2>3. ASSUME NEW y \in Readers, Stale(y)' PROVE FALSE
    <3>1. Stale(y) /\ y # x /\ ~reads'[y].late
      BY <1>5, <1>6, <2>3, Zenon DEF Stale
    <3>2. y \in reads[x].older /\ reads[y].at = "read"
      BY <2>1, <3>1, Zenon DEF Stale, MayLand
    <3> QED BY <1>3, <2>2, <3>1, <3>2, Zenon
  <2>4. CASE reads[x].at = "failed"
    <3>1. ~MayLand(x)
      BY <2>4 DEF MayLand
    <3>2. blind'
      BY <1>9, <2>1, <2>4, <3>1, Zenon
    <3> QED BY <2>3, <3>2, Zenon DEF Tells
  <2>5. CASE reads[x].at = "read" /\ reads[x].got = Truth
    <3>1. shown' = Truth'
      BY <1>1, <1>8, <2>1, <2>5 DEF MayLand
    <3> QED BY <2>3, <3>1, Zenon DEF Tells
  <2> QED BY <2>1, <2>4, <2>5
<1>11. CASE Tells
  <2>1. \A y \in Readers : ~Stale(y)'
    BY <1>6, <1>11, Zenon DEF Tells
  <2>2. CASE MayLand(x)
    <3>1. reads[x].got = Truth \/ reads[x].late
      BY <1>11, <2>2, Zenon DEF Tells, Stale
    <3>2. CASE reads[x].got = Truth
      <4>1. shown' = Truth'
        BY <1>1, <1>8, <2>2, <3>2
      <4> QED BY <2>1, <4>1, Zenon DEF Tells
    <3>3. CASE reads[x].late
      <4>1. blind'
        BY <1>9, <2>2, <3>3, Zenon DEF MayLand
      <4> QED BY <2>1, <4>1, Zenon DEF Tells
    <3> QED BY <3>1, <3>2, <3>3, Zenon
  <2>3. CASE ~MayLand(x)
    <3>1. shown' = shown /\ (blind => blind')
      BY <1>8, <1>9, <2>3, Zenon
    <3> QED BY <1>1, <1>11, <2>1, <3>1, Zenon DEF Tells
  <2> QED BY <2>2, <2>3
<1> QED BY <1>2, <1>7, <1>10, <1>11, Zenon DEF TruthFit

\* A turn that starts.
LEMMA StartFit ==
  ASSUME QueueInv, LatestFit, IntentFit, TruthFit, NEW i \in CallIds, Starts(i)
  PROVE  TruthFit'
<1>1. /\ Beside(i) /\ Starting(i)
      /\ UNCHANGED <<open, shown, blind, pins, gitVars>>
  BY StartsCases, StartsKeeps
<1>2. Owed(i) /\ i \in Readers
  BY <1>1, BoundsAssumption DEF Starting, Owed, InQueue, CallIds, Readers
<1>3. CASE CurrentPath(Key(i)) # None /\ Asks(i, CurrentPath(Key(i)))
  <2>1. CurrentPath(Key(i)) = open'
    BY <1>1, <1>3, CurrentPathIs DEF QueueInv
  <2> QED BY <1>2, <1>3, <2>1, AskBrings DEF QueueInv
<1>4. CASE /\ \/ call[i].kind = "reconcile" /\ CurrentPath(Key(i)) = None
              \/ call[i].kind = "apply" /\ ~Exists(i)
           /\ UNCHANGED reads
  <2>1. open # None /\ Key(i) = KeyOf[open] => ~IsLatest(i)
    BY <1>2, <1>4, CurrentPathIs DEF QueueInv, IntentFit
  <2> QED BY <1>1, <1>2, <1>4, <2>1, EndsFit DEF gitVars
<1>5. CASE Goes(i, "sent") /\ UNCHANGED <<reads, call>>
  <2>1. \A h \in CallIds : Owed(h) => Owed(h)' /\ Key(h)' = Key(h)
    BY <1>1, <1>5 DEF Goes, Beside, Owed, InQueue, Key, QueueInv, QueueTyped
  <2>2. open # None /\ Pending(KeyOf[open]) => Pending(KeyOf[open])'
    BY <1>1, <2>1 DEF Pending
  <2> QED BY <1>1, <1>5, <2>2, StillFit DEF gitVars
<1> QED BY <1>3, <1>4, <1>5, StartsCases

\* An answer.
LEMMA AnswerFit ==
  ASSUME QueueInv, LatestFit, TruthFit, NEW i \in CallIds, Answered(i)
  PROVE  TruthFit'
<1>1. Beside(i) /\ pc[i] \in {"wrote", "threw"} /\ UNCHANGED <<open, gitVars>>
  BY AnsweredKeeps
<1>2. Owed(i) /\ i \in Readers
  BY <1>1, BoundsAssumption DEF Owed, InQueue, CallIds, Readers
<1>3. \/ CurrentPath(Key(i)) # None /\ Asks(i, CurrentPath(Key(i)))
      \/ /\ UNCHANGED <<pins, shown, blind, reads>>
         /\ CurrentPath(Key(i)) = None \/ ~IsLatest(i)
  <2>1. CASE pc[i] = "threw"
    <3>1. UNCHANGED <<pins, shown, blind>> /\ ReadsBack(i, IsLatest(i))
      BY <2>1 DEF Answered
    <3> QED BY <3>1, Zenon DEF ReadsBack
  <2>2. CASE pc[i] # "threw"
    <3> DEFINE gone == call[i].kind = "apply" /\ ~Exists(i)
    <3>1. /\ IF ~gone /\ IsLatest(i) /\ CurrentPath(Key(i)) # None
               THEN Pins(i) ELSE UNCHANGED <<pins, shown, cache, blind>>
          /\ ReadsBack(i, gone \/ IsLatest(i))
      BY <2>2, Zenon DEF Answered
    <3> HIDE DEF gone
    <3>2. CASE CurrentPath(Key(i)) # None /\ (gone \/ IsLatest(i))
      BY <3>1, <3>2, Zenon DEF ReadsBack
    <3>3. CASE ~(CurrentPath(Key(i)) # None /\ (gone \/ IsLatest(i)))
      <4>1. UNCHANGED reads
        BY <3>1, <3>3, Zenon DEF ReadsBack
      <4>2. UNCHANGED <<pins, shown, blind>>
        BY <3>1, <3>3
      <4> QED BY <3>3, <4>1, <4>2
    <3> QED BY <3>2, <3>3
  <2> QED BY <2>1, <2>2
<1>4. CASE CurrentPath(Key(i)) # None /\ Asks(i, CurrentPath(Key(i)))
  <2>1. CurrentPath(Key(i)) = open'
    BY <1>1, <1>4, CurrentPathIs DEF QueueInv
  <2> QED BY <1>2, <1>4, <2>1, AskBrings DEF QueueInv
<1>5. CASE UNCHANGED <<pins, shown, blind, reads>> /\ (CurrentPath(Key(i)) = None \/ ~IsLatest(i))
  <2>1. open # None /\ Key(i) = KeyOf[open] => ~IsLatest(i)
    BY <1>5, CurrentPathIs DEF QueueInv
  <2> QED BY <1>1, <1>2, <1>5, <2>1, EndsFit DEF gitVars
<1> QED BY <1>3, <1>4, <1>5

\* The screen tells the truth or is owed it, whatever happens.
LEMMA TruthKeeps ==
  ASSUME QueueInv, LatestFit, IntentFit, TruthFit, [Next]_vars
  PROVE  TruthFit'
<1>1. ASSUME NEW c \in CardOrNone, Applies(c) PROVE TruthFit'
  <2>1. PICK n : n = asked + 1
    OBVIOUS
  <2>2. /\ n \in CallIds /\ pc[n] = "idle"
        /\ \A j \in CallIds \ {n} : pc'[j] = pc[j] /\ call'[j] = call[j]
    BY <1>1, <2>1, AppliesKeeps
  <2>3. \A j \in CallIds : Owed(j) => Owed(j)' /\ Key(j)' = Key(j)
    BY <2>2 DEF Owed, InQueue, Key
  <2>4. UNCHANGED <<open, shown, pins, reads, blind, cfg>>
    BY <1>1 DEF Applies, viewVars, readVars, gitVars
  <2>5. open # None /\ Pending(KeyOf[open]) => Pending(KeyOf[open])'
    BY <2>3, <2>4 DEF Pending
  <2> QED BY <2>4, <2>5, StillFit
<1>2. ASSUME NEW c \in Cards, Deletes(c) PROVE TruthFit'
  <2>1. \A i \in CallIds : pc[i] # "idle" => pc'[i] = pc[i] /\ call'[i] = call[i]
    BY <1>2, DeletesKeeps
  <2>2. \A j \in CallIds : Owed(j) => Owed(j)' /\ Key(j)' = Key(j)
    BY <2>1 DEF Owed, InQueue, Key
  <2>3. UNCHANGED <<open, shown, pins, reads, blind, cfg>>
    BY <1>2 DEF Deletes, viewVars, readVars, gitVars
  <2>4. open # None /\ Pending(KeyOf[open]) => Pending(KeyOf[open])'
    BY <2>2, <2>3 DEF Pending
  <2> QED BY <2>3, <2>4, StillFit
<1>3. ASSUME NEW p \in Paths, Syncs(p) PROVE TruthFit'
  <2>1. MaxCalls + synced' \in Readers /\ Asks(MaxCalls + synced', p) /\ open' = p
    BY <1>3, BoundsAssumption DEF Syncs, Readers, QueueInv, StoreTyped
  <2>2. PICK x \in Readers : x = MaxCalls + synced'
    BY <2>1
  <2>3. Asks(x, open')
    BY <2>1, <2>2
  <2> QED BY <2>3, AskBrings DEF QueueInv
<1>4. ASSUME Leaves PROVE TruthFit'
  BY <1>4 DEF Leaves, TruthFit
<1>5. ASSUME UNCHANGED <<open, shown, pins, reads, blind, cfg, pc, call>> PROVE TruthFit'
  <2>1. open # None /\ Pending(KeyOf[open]) => Pending(KeyOf[open])'
    BY <1>5 DEF Pending, Owed, Key
  <2> QED BY <1>5, <2>1, StillFit
<1>6. ASSUME UNCHANGED vars \/ (\E c \in Cards : Edits(c)) \/ Commits \/ CommitRuns
      PROVE  UNCHANGED <<open, shown, pins, reads, blind, cfg, pc, call>>
  BY <1>6 DEF vars, Edits, Commits, CommitRuns, viewVars, readVars, gitVars, queueVars
<1>7. ASSUME NEW i \in CallIds, Step(i) PROVE TruthFit'
  BY <1>7, StartFit, AnswerFit, GitFit DEF Step, GitStep
<1> QED BY <1>1, <1>2, <1>3, <1>4, <1>5, <1>6, <1>7, ReadFit, LandFit DEF Next, CardOrNone

\* When all is done, what is shown is what the next commit would carry
\* (hydrateRepoIdentity, pinRepoIdentity), unless the read of it failed or was overtaken.
THEOREM ShownIsHonest == Spec => []ShownIsTrue
<1>1. Init => TruthFit
  BY DEF Init, TruthFit
<1>2. QueueInv /\ LatestFit /\ IntentFit /\ TruthFit /\ [Next]_vars => TruthFit'
  BY TruthKeeps
<1>3. TruthFit => ShownIsTrue
  <2> SUFFICES ASSUME TruthFit, Settled, open # None
               PROVE  shown = Seen(cfg[KeyOf[open]]) \/ blind
    BY Zenon DEF ShownIsTrue
  <2>1. ~Pending(KeyOf[open])
    BY DEF Settled, Pending, Owed, InQueue
  <2>2. \A x \in Readers : ~Brings(x)
    BY DEF Settled, Brings
  <2>3. Tells
    BY <2>1, <2>2, Zenon DEF TruthFit
  <2> QED BY <2>3, Zenon DEF Tells, Truth
<1> QED BY <1>1, <1>2, <1>3, QueueInvariant, NewestIsOwed, PTL DEF Spec

=============================================================================
