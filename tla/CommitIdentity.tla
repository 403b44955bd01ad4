--------------------------- MODULE CommitIdentity ---------------------------
(***************************************************************************)
(* Identity cards applied to repositories, from the click to git's config:   *)
(* the queue of writes per repository (src/src/store/identities.ts and       *)
(* identities/writeQueue.ts), the identity the store shows and its reads     *)
(* (src/src/store/accounts.ts), and the config keys written one by one under *)
(* a lock that commits share (src/src-tauri/src/git/write/identity.rs).      *)
(* The app is not killed while keys are written: neither the lock nor the    *)
(* undo outlives it, and half a tuple would stay in the config.              *)
(***************************************************************************)
EXTENDS Naturals, FiniteSets

CONSTANTS
  Cards,       \* identity cards
  Signing,     \* those that sign
  Paths,       \* worktrees a tab can show
  KeyOf,       \* the repository each belongs to
  None,        \* no card, no tab, no value
  Composers,   \* the worktrees commits are made in
  Fields,      \* the keys an identity consists of: name, email, sign
  Before,      \* the card each repository was given in an earlier session
  MaxCalls,    \* applies, clears and reconciles
  MaxSyncs,    \* openings and refreshes of a tab
  MaxEdits     \* edits of one card

ASSUME CardsAssumption ==
  /\ Signing \subseteq Cards /\ Composers \subseteq Paths /\ None \notin Cards \cup Paths
  /\ IsFiniteSet(Paths)
  /\ {"name", "sign"} \subseteq Fields /\ Fields \subseteq {"name", "email", "sign"}
  /\ DOMAIN KeyOf = Paths /\ Before \in [{KeyOf[p] : p \in Paths} -> Cards \cup {None}]

ASSUME BoundsAssumption == {MaxCalls, MaxSyncs, MaxEdits} \subseteq Nat

VARIABLES
  cards,       \* manualIdentities: the version of each card, 0 when deleted
  applied,     \* the stored marker: which card a repository was given
  open,        \* the worktree on screen
  shown,       \* repoIdentity: who the next commit is said to be by
  cache,       \* its stored copy, per repository
  pins,        \* repoIdentityGen
  reads,       \* hydrateRepoIdentity, by the call or the sync that awaits it
  synced,      \* syncs so far
  asked,       \* calls so far
  call,        \* per call: what it wants, for which repository, behind which call
  pc,          \* what the call is about to do
  tails,       \* identityWriteTails: the last call of each repository
  latest,      \* latestIdentityWrite
  intents,     \* activeIdentityIntents
  cfg,         \* the identity keys of each repository's local config
  job,         \* the config write that holds each repository's identity lock; "was" is
               \* history: what the config held
  commit,      \* the commit under way, or how the last one ended
  torn,        \* what the last write of a config left behind when it failed
  given,       \* the card of the last write that succeeded
  blind        \* the last identity read failed, or was overtaken by a newer one

listVars == <<cards, applied>>
viewVars == <<open, shown, cache, pins>>
readVars == <<reads, synced, blind>>
queueVars == <<asked, call, tails, latest, intents>>
gitVars == <<cfg, job, torn, given>>
vars == <<listVars, viewVars, readVars, queueVars, pc, gitVars, commit>>

Repos == {KeyOf[p] : p \in Paths}
CallIds == 1..MaxCalls
Readers == 1..(MaxCalls + MaxSyncs)
Tuples == Cards \X (1..MaxEdits + 1)
Identities == [Fields -> Tuples \cup {None}]

Blank == [f \in Fields |-> None]

\* expectedIdentity, signingArgs: a card that does not sign unsets the signing keys.
Tuple(t) == [f \in Fields |-> IF f = "sign" /\ t[1] \notin Signing THEN None ELSE t]
Wanted(t) == IF t = None THEN Blank ELSE Tuple(t)

\* identity_from_config: without a name or an email there is no identity.
Seen(config) ==
  IF \E f \in Fields \ {"sign"} : config[f] = None THEN Blank ELSE config

NoRead == [at |-> "none", path |-> None, gen |-> 0, got |-> Blank, older |-> {}, late |-> FALSE]
NoCall == [kind |-> "none", want |-> None, key |-> None, after |-> 0]
NoJob == [by |-> 0, left |-> {}, undo |-> FALSE, old |-> Blank, was |-> Blank]
NoCommit == [at |-> "none", path |-> None, by |-> Blank]

Key(i) == call[i].key

\* currentPathForIdentity: the worktree on screen, if it is one of the repository.
CurrentPath(k) == IF open # None /\ KeyOf[open] = k THEN open ELSE None

Init ==
  /\ cards = [c \in Cards |-> 1]
  /\ applied = Before
  /\ open = None /\ shown = Blank /\ pins = 0
  /\ cfg = [k \in Repos |-> IF applied[k] = None THEN Blank ELSE Tuple(<<applied[k], 1>>)]
  /\ cache = cfg
  /\ reads = [x \in Readers |-> NoRead] /\ synced = 0 /\ blind = FALSE
  /\ asked = 0 /\ call = [i \in CallIds |-> NoCall] /\ pc = [i \in CallIds |-> "idle"]
  /\ tails = [k \in Repos |-> 0] /\ latest = [k \in Repos |-> 0]
  /\ intents = [k \in Repos |-> [by |-> 0, card |-> None]]
  /\ job = [k \in Repos |-> NoJob] /\ torn = [k \in Repos |-> "no"]
  /\ given = applied
  /\ commit = NoCommit

-----------------------------------------------------------------------------
(* The queue of one repository.                                              *)

\* The turn of a call ends with its write; a reconcile's with its read.
TurnOver(i) == pc[i] = "over" \/ (pc[i] = "reads" /\ call[i].kind # "reconcile")

Starting(i) ==
  pc[i] = "waits" /\ call[i].after \in {0} \cup {j \in CallIds : TurnOver(j)}

\* Promise reactions run before the webview takes up anything else.
Drained == \A i \in CallIds : ~Starting(i)

Goes(i, to) == pc' = [pc EXCEPT ![i] = to]

\* tail.finally: a newer tail stays.
EndsTurn(i) ==
  tails' = [tails EXCEPT ![Key(i)] = IF @ = i THEN 0 ELSE @]

\* The finally of applyCommitSource; nothing remembers the call.
EndsCall(i) ==
  /\ Goes(i, "over") /\ call' = [call EXCEPT ![i] = NoCall]
  /\ intents' = [intents EXCEPT ![Key(i)] = IF @.by = i THEN [by |-> 0, card |-> None] ELSE @]

\* queueIdentityWrite, for calls of distinct repositories.
Queues(new) ==
  /\ asked' = asked + Cardinality(DOMAIN new)
  /\ call' = [i \in CallIds |-> IF i \in DOMAIN new THEN new[i] ELSE call[i]]
  /\ pc' = [i \in CallIds |-> IF i \in DOMAIN new THEN "waits" ELSE pc[i]]
  /\ tails' = [k \in Repos |->
                 IF \E i \in DOMAIN new : new[i].key = k
                   THEN CHOOSE i \in DOMAIN new : new[i].key = k ELSE tails[k]]

\* Mutant: a write does not wait for the one in flight.
QueuedFirst(kind, want, k) == [kind |-> kind, want |-> want, key |-> k, after |-> 0]

Queued(kind, want, k) == [kind |-> kind, want |-> want, key |-> k, after |-> tails[k]]

\* applyCommitSource up to its first await: a card, or none for this computer.
Applies(c) ==
  /\ Drained /\ open # None /\ asked < MaxCalls
  /\ c # None => cards[c] > 0
  /\ LET i == asked + 1  k == KeyOf[open]
     IN /\ latest' = [latest EXCEPT ![k] = i]
        /\ intents' = [intents EXCEPT ![k] = [by |-> i, card |-> c]]
        /\ Queues([j \in {i} |-> IF c = None THEN Queued("clear", None, k)
                                             ELSE Queued("apply", <<c, cards[c]>>, k)])
  /\ UNCHANGED <<listVars, viewVars, readVars, gitVars, commit>>

\* deleteManualIdentity, invalidateDeletedIdentity, scrubManualId: the intents for
\* the card lose their right to publish, and a read is queued behind each.
Deletes(c) ==
  /\ Drained /\ cards[c] > 0
  /\ cards' = [cards EXCEPT ![c] = 0]
  /\ applied' = [k \in Repos |-> IF applied[k] = c THEN None ELSE applied[k]]
  /\ LET hit == {k \in Repos : intents[k].card = c}
     IN /\ asked + Cardinality(hit) <= MaxCalls
        /\ \E ids \in [hit -> asked + 1 .. asked + Cardinality(hit)] :
             /\ \A k, l \in hit : ids[k] = ids[l] => k = l
             /\ latest' = [k \in Repos |-> IF k \in hit THEN ids[k] ELSE latest[k]]
             /\ Queues([i \in {ids[k] : k \in hit} |->
                          Queued("reconcile", None, CHOOSE k \in hit : ids[k] = i)])
  /\ UNCHANGED <<viewVars, readVars, intents, gitVars, commit>>

\* saveManualIdentity of a card that exists: repositories keep what they were given.
\* Only while a call carries the card, when it is not just another card from here on.
Edits(c) ==
  /\ Drained /\ cards[c] \in 1..MaxEdits
  /\ \E i \in CallIds : call[i].want = <<c, cards[c]>>
  /\ cards' = [cards EXCEPT ![c] = @ + 1]
  /\ UNCHANGED <<applied, viewVars, readVars, queueVars, pc, gitVars, commit>>

-----------------------------------------------------------------------------
(* The identity on screen.                                                   *)

\* hydrateRepoIdentity up to its await, once the pins are what they will be.
Asks(x, p) ==
  reads' = [reads EXCEPT ![x] = [NoRead EXCEPT !.at = "asked", !.path = p, !.gen = pins']]

\* syncRepoAccount, for a tab that is opened or refreshed: the stored copy shows
\* until the config is read.
Syncs(p) ==
  /\ Drained /\ synced < MaxSyncs
  /\ synced' = synced + 1 /\ open' = p /\ shown' = cache[KeyOf[p]]
  /\ UNCHANGED pins /\ Asks(MaxCalls + synced', p)
  /\ UNCHANGED <<listVars, cache, blind, queueVars, pc, gitVars, commit>>

\* The last tab is closed.
Leaves ==
  /\ Drained /\ open # None /\ open' = None
  /\ UNCHANGED <<listVars, shown, cache, pins, readVars, queueVars, pc, gitVars, commit>>

\* repo_identity, without the lock: it sees a write that is half done.
Reads(x) ==
  /\ reads[x].at = "asked"
  /\ \E ok \in BOOLEAN :
       reads' = [reads EXCEPT ![x] =
                   [@ EXCEPT !.at = IF ok THEN "read" ELSE "failed",
                             !.got = IF ok THEN Seen(cfg[KeyOf[reads[x].path]]) ELSE Blank,
                             !.older = {y \in Readers : reads[y].at = "read"}]]
  /\ UNCHANGED <<listVars, viewVars, synced, blind, queueVars, pc, gitVars, commit>>

\* Mutant: the generation of the pins is not looked at.
MayLandAnyway(x) == reads[x].at = "read" /\ open = reads[x].path

\* The guards of hydrateRepoIdentity.
MayLand(x) == reads[x].at = "read" /\ reads[x].gen = pins /\ open = reads[x].path

\* The rest of hydrateRepoIdentity, and of the call that awaits it.
Lands(x) ==
  /\ Drained /\ reads[x].at \in {"read", "failed"}
  /\ IF MayLand(x)
       THEN /\ shown' = reads[x].got
            /\ cache' = [cache EXCEPT ![KeyOf[open]] = reads[x].got]
            /\ blind' = (reads[x].late /\ reads[x].gen = pins)
       ELSE /\ UNCHANGED <<shown, cache>>
            /\ blind' = (blind \/ (reads[x].at = "failed" /\ reads[x].path = open))
  /\ reads' = [y \in Readers |->
                 IF y = x THEN NoRead
                 ELSE IF y \in reads[x].older /\ (MayLand(x) \/ reads[x].at = "failed")
                   THEN [reads[y] EXCEPT !.late = @ \/ reads[y].at = "read"]
                 ELSE reads[y]]
  /\ IF x \in CallIds
       THEN /\ EndsCall(x)
            /\ IF call[x].kind = "reconcile" THEN EndsTurn(x) ELSE UNCHANGED tails
       ELSE UNCHANGED <<pc, call, intents, tails>>
  /\ UNCHANGED <<listVars, open, pins, synced, asked, latest, gitVars, commit>>

-----------------------------------------------------------------------------
(* The turn of a call.                                                       *)

Exists(i) == cards[call[i].want[1]] > 0

\* A card that is gone is skipped; a reconcile reads if its repository is open.
Starts(i) ==
  /\ Starting(i)
  /\ CASE call[i].kind = "reconcile" /\ CurrentPath(Key(i)) # None ->
            /\ UNCHANGED pins /\ Asks(i, CurrentPath(Key(i)))
            /\ Goes(i, "reads") /\ UNCHANGED <<call, tails, intents>>
       [] \/ call[i].kind = "reconcile" /\ CurrentPath(Key(i)) = None
          \/ call[i].kind = "apply" /\ ~Exists(i) ->
            /\ EndsTurn(i) /\ EndsCall(i) /\ UNCHANGED <<pins, reads>>
       [] OTHER ->
            /\ Goes(i, "sent") /\ UNCHANGED <<pins, reads, call, tails, intents>>
  /\ UNCHANGED <<listVars, open, shown, cache, synced, blind, asked, latest, gitVars, commit>>

\* lock_identity_config, and the snapshot the undo of a set goes back to. read_local
\* takes a key it cannot read for one that is unset.
Locks(i) ==
  /\ pc[i] = "sent" /\ job[Key(i)].by = 0
  /\ Goes(i, "writes")
  /\ LET config == cfg[Key(i)]
     IN \E missed \in SUBSET {f \in Fields : config[f] # None} :
          /\ call[i].kind # "apply" => missed = {}
          /\ job' = [job EXCEPT ![Key(i)] =
                       [NoJob EXCEPT !.by = i, !.left = Fields, !.was = config,
                          !.old = [f \in Fields |-> IF f \in missed THEN None ELSE config[f]]]]
  /\ UNCHANGED <<listVars, viewVars, readVars, queueVars, cfg, torn, given, commit>>

\* set_repo_identity writes the author first, a clear and an undo the signing keys.
Turns(i) == IF call[i].kind = "apply" /\ ~job[Key(i)].undo
              THEN [name |-> 1, email |-> 2, sign |-> 3]
              ELSE [sign |-> 1, name |-> 2, email |-> 3]

\* The next key the write that holds the lock comes to.
Due(i, f) == f \in job[Key(i)].left /\ \A g \in job[Key(i)].left : Turns(i)[f] <= Turns(i)[g]

\* One `git config`.
WritesKey(i) ==
  /\ pc[i] = "writes"
  /\ \E f \in Fields :
       /\ Due(i, f)
       /\ cfg' = [cfg EXCEPT ![Key(i)][f] = IF job[Key(i)].undo THEN job[Key(i)].old[f]
                                           ELSE Wanted(call[i].want)[f]]
       /\ job' = [job EXCEPT ![Key(i)].left = @ \ {f}]
  /\ UNCHANGED <<listVars, viewVars, readVars, queueVars, pc, torn, given, commit>>

\* The lock is dropped and the answer is on its way.
Frees(i, answer) ==
  /\ job' = [job EXCEPT ![Key(i)] = NoJob] /\ Goes(i, answer)

\* A `git config` fails: a set undoes all of its keys, a clear stops there.
KeyFails(i) ==
  /\ pc[i] = "writes" /\ job[Key(i)].left # {} /\ ~job[Key(i)].undo
  /\ IF call[i].kind = "apply"
       THEN job' = [job EXCEPT ![Key(i)].left = Fields, ![Key(i)].undo = TRUE] /\ UNCHANGED <<pc, torn>>
       ELSE /\ Frees(i, "threw")
            /\ torn' = [torn EXCEPT ![Key(i)] = IF cfg[Key(i)] # job[Key(i)].was THEN "clear" ELSE @]
  /\ UNCHANGED <<listVars, viewVars, readVars, queueVars, cfg, given, commit>>

\* So does one of the undo, and is passed over.
UndoFails(i) ==
  /\ pc[i] = "writes" /\ job[Key(i)].undo
  /\ \E f \in Fields : Due(i, f) /\ job' = [job EXCEPT ![Key(i)].left = @ \ {f}]
  /\ UNCHANGED <<listVars, viewVars, readVars, queueVars, pc, cfg, torn, given, commit>>

\* All keys are written, or put back.
Finishes(i) ==
  /\ pc[i] = "writes" /\ job[Key(i)].left = {}
  /\ LET k == Key(i)
     IN IF job[k].undo
          THEN /\ Frees(i, "threw")
               /\ torn' = [torn EXCEPT ![k] = IF cfg[k] # job[k].was THEN "set" ELSE @]
               /\ UNCHANGED given
          ELSE /\ Frees(i, "wrote")
               /\ torn' = [torn EXCEPT ![k] = "no"]
               /\ given' = [given EXCEPT ![k] = IF call[i].kind = "clear" THEN None ELSE call[i].want[1]]
  /\ UNCHANGED <<listVars, viewVars, readVars, queueVars, cfg, commit>>

-----------------------------------------------------------------------------
(* The answer.                                                               *)

IsLatest(i) == latest[Key(i)] = i

\* Mutant: whether the card still exists is not asked again.
MarksAnyway(i) ==
  applied' = [applied EXCEPT ![Key(i)] = IF call[i].kind = "clear" THEN None ELSE call[i].want[1]]

\* writeApplied, in the turn of the write and only for a card that still exists.
Marks(i) ==
  applied' = [applied EXCEPT ![Key(i)] =
                IF call[i].kind = "clear" THEN None
                ELSE IF Exists(i) THEN call[i].want[1] ELSE @]

\* pinRepoIdentity of what the config holds by now.
Pins(i) ==
  /\ pins' = pins + 1 /\ shown' = Wanted(call[i].want)
  /\ cache' = [cache EXCEPT ![Key(i)] = Wanted(call[i].want)] /\ blind' = FALSE

\* The call reads the identity back before it ends, or ends.
ReadsBack(i, wants) ==
  IF wants /\ CurrentPath(Key(i)) # None
    THEN Asks(i, CurrentPath(Key(i))) /\ Goes(i, "reads") /\ UNCHANGED <<call, intents>>
    ELSE EndsCall(i) /\ UNCHANGED reads

\* The newest intent shows what it wrote at once and then reads it back. One whose
\* card was deleted meanwhile, and the newest one that failed, only read.
Answered(i) ==
  /\ Drained /\ pc[i] \in {"wrote", "threw"} /\ EndsTurn(i)
  /\ IF pc[i] = "threw"
       THEN UNCHANGED <<applied, pins, shown, cache, blind>> /\ ReadsBack(i, IsLatest(i))
       ELSE LET gone == call[i].kind = "apply" /\ ~Exists(i)
            IN /\ Marks(i)
               /\ IF ~gone /\ IsLatest(i) /\ CurrentPath(Key(i)) # None
                    THEN Pins(i) ELSE UNCHANGED <<pins, shown, cache, blind>>
               /\ ReadsBack(i, gone \/ IsLatest(i))
  /\ UNCHANGED <<cards, open, synced, asked, latest, gitVars, commit>>

-----------------------------------------------------------------------------
(* A commit.                                                                 *)

\* commitSelected: the identity on screen goes with the request.
Commits ==
  /\ Drained /\ open \in Composers /\ commit.at # "asked"
  /\ commit' = [at |-> "asked", path |-> open, by |-> shown]
  /\ UNCHANGED <<listVars, viewVars, readVars, queueVars, pc, gitVars>>

\* Mutant: a commit does not take the lock of the identity writes.
CommitRunsUnlocked ==
  /\ commit.at = "asked"
  /\ commit' = [NoCommit EXCEPT !.at =
                  IF Seen(cfg[KeyOf[commit.path]]) = commit.by THEN "made" ELSE "none"]
  /\ UNCHANGED <<listVars, viewVars, readVars, queueVars, pc, gitVars>>

\* pinned_author_args and git commit under one lock: what was shown must still be
\* what the config holds; with no identity the config's leftovers apply.
CommitRuns ==
  /\ commit.at = "asked" /\ job[KeyOf[commit.path]].by = 0
  /\ commit' = [NoCommit EXCEPT !.at =
                  IF Seen(cfg[KeyOf[commit.path]]) = commit.by THEN "made" ELSE "none"]
  /\ UNCHANGED <<listVars, viewVars, readVars, queueVars, pc, gitVars>>

-----------------------------------------------------------------------------
Step(i) ==
  \/ Starts(i) \/ Locks(i) \/ WritesKey(i) \/ KeyFails(i) \/ UndoFails(i) \/ Finishes(i)
  \/ Answered(i)

Next ==
  \/ \E c \in Cards \cup {None} : Applies(c)
  \/ \E c \in Cards : Deletes(c) \/ Edits(c)
  \/ \E p \in Paths : Syncs(p)
  \/ \E x \in Readers : Reads(x) \/ Lands(x)
  \/ \E i \in CallIds : Step(i)
  \/ Leaves \/ Commits \/ CommitRuns

Spec == Init /\ [][Next]_vars

-----------------------------------------------------------------------------
(* Properties.                                                               *)

Whole(config) == config = Blank \/ \E t \in Tuples : config = Tuple(t)

\* Nothing of a repository is under way.
AtRest(k) ==
  \A i \in CallIds : call[i].key = k => pc[i] \in {"over", "reads"}

Settled ==
  /\ \A i \in CallIds : pc[i] \in {"idle", "over"}
  /\ \A x \in Readers : reads[x].at = "none"

\* The config a commit is made with, and what the last write left in it.
Made == commit.at = "asked" /\ commit'.at = "made"
Author == cfg[KeyOf[commit.path]]
Torn == torn[KeyOf[commit.path]]

\* No commit mixes two cards: its name, e-mail and signing key are those of one
\* card, or of none (the lock of identity.rs, the undo of set_repo_identity). After a
\* clear that broke off it is at least not signed with the cleared card's key; only
\* a set whose undo failed as well, or unset a key that its snapshot could not read,
\* can leave more behind, until the next write that succeeds.
CommitsAreWhole ==
  [][Made => \/ Whole(Author)
             \/ Torn = "clear" /\ Author["sign"] = None
             \/ Torn = "set"]_vars

\* Once the writes of a repository are done, the stored marker names the card its
\* config was last given; if that card has been deleted since, it names another
\* one that exists, or none.
MarkerNamesTheCard ==
  \A k \in Repos :
    /\ applied[k] # None => cards[applied[k]] > 0
    /\ AtRest(k) /\ (given[k] # None => cards[given[k]] > 0) => applied[k] = given[k]

\* When all is done, the identity on screen is the config's, unless the last read
\* failed or was overtaken by a newer one and no write was shown in between (the
\* generation of pinRepoIdentity and the guards of hydrateRepoIdentity).
ShownIsTrue ==
  Settled /\ open # None => shown = Seen(cfg[KeyOf[open]]) \/ blind

\* The writes of a repository reach git in the order of the clicks: one starts only
\* when those before it have been answered, however they ended.
InClickOrder ==
  \A i, j \in CallIds :
    /\ i < j /\ call[i].key = call[j].key
    /\ pc[i] # "idle" /\ pc[j] \in {"sent", "writes", "wrote", "threw"}
    => TurnOver(i)

=============================================================================
