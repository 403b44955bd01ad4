----------------------------- MODULE SignInProofs -----------------------------
(***************************************************************************)
(* What the sign-in slot guarantees for any number of concurrent calls, and   *)
(* what that gives the dialogs, the account record and the keychain for any   *)
(* number of runs, accounts and sign-outs.                                    *)
(***************************************************************************)
EXTENDS ProviderSignIn, TLAPS

-----------------------------------------------------------------------------
(* The slot alone.                                                           *)

\* What the flags of the slot say of the calls. starting may be lost while a call
\* is armed (another one's guard clears it), never kept when nothing is pending.
FlagsMatch ==
  /\ inProgress <=> \E f \in Flows : Claimed(f)
  /\ committing <=> \E f \in Flows : flow[f] = "committing"
  /\ starting => inProgress \/ \E f \in Flows : flow[f] = "armed"
  /\ canceled => ~committing

\* The inductive invariant: the flags alone decide each claim, so mutual exclusion
\* holds only together with what they mean.
SlotInv == TypeOK /\ OneFlow /\ FlagsMatch

\* A call that moves leaves the others where they are.
LEMMA MovesOne ==
  ASSUME flow \in [Flows -> Phases], NEW f \in Flows, NEW to \in Phases,
         flow' = [flow EXCEPT ![f] = to]
  PROVE  /\ flow' \in [Flows -> Phases]
         /\ flow'[f] = to
         /\ \A g \in Flows : g # f => flow'[g] = flow[g]
OBVIOUS

\* The slot starts clean and every call idle.
LEMMA InitSafe == Init => SlotInv
BY DEF Init, SlotInv, TypeOK, OneFlow, FlagsMatch, Claimed, Phases, Pending, ClaimedPhases

\* Dropping the guard of the one flow that holds the slot leaves the slot as new.
LEMMA GuardDropSafe ==
  ASSUME SlotInv, NEW f \in Flows, Claimed(f), NEW to \in {"failed", "stored"},
         flow' = [flow EXCEPT ![f] = to], GuardDrops
  PROVE  SlotInv'
<1>1. /\ flow' \in [Flows -> Phases]
      /\ flow'[f] = to
      /\ \A g \in Flows : g # f => flow'[g] = flow[g]
  BY MovesOne DEF SlotInv, TypeOK, Phases
<1>2. \A g \in Flows : ~Claimed(g)'
  BY <1>1 DEF SlotInv, OneFlow, Claimed, ClaimedPhases
<1>3. \A g \in Flows : flow'[g] # "committing"
  BY <1>2 DEF Claimed, ClaimedPhases
<1>4. TypeOK'
  BY <1>1 DEF GuardDrops, TypeOK
<1>5. OneFlow'
  BY <1>2 DEF OneFlow
<1>6. FlagsMatch'
  BY <1>2, <1>3 DEF FlagsMatch, GuardDrops
<1> QED
  BY <1>4, <1>5, <1>6 DEF SlotInv

\* A flow that holds the slot goes on holding it, at a phase before the commit.
LEMMA HoldSafe ==
  ASSUME SlotInv, NEW f \in Flows, Claimed(f), flow[f] # "committing",
         NEW to \in ClaimedPhases \ {"committing"},
         flow' = [flow EXCEPT ![f] = to],
         UNCHANGED <<starting, inProgress, canceled, committing>>
  PROVE  SlotInv'
<1>1. /\ flow' \in [Flows -> Phases]
      /\ flow'[f] = to
      /\ \A g \in Flows : g # f => flow'[g] = flow[g]
  BY MovesOne DEF SlotInv, TypeOK, Phases, Pending
<1>2. \A g \in Flows : Claimed(g)' <=> Claimed(g)
  BY <1>1 DEF Claimed
<1>3. \A g \in Flows : flow'[g] = "committing" <=> flow[g] = "committing"
  BY <1>1
<1>4. TypeOK'
  BY <1>1 DEF SlotInv, TypeOK
<1>5. OneFlow'
  BY <1>2 DEF SlotInv, OneFlow
<1>6. FlagsMatch'
  BY <1>2, <1>3, <1>1 DEF SlotInv, FlagsMatch
<1> QED
  BY <1>4, <1>5, <1>6 DEF SlotInv

\* No step of a call, nor a Cancel, breaks the invariant.
LEMMA StepSafe == SlotInv /\ [Next]_slotVars => SlotInv'
<1> SUFFICES ASSUME SlotInv, [Next]_slotVars
             PROVE  SlotInv'
  OBVIOUS
<1>1. CASE UNCHANGED slotVars
  BY <1>1 DEF slotVars, SlotInv, TypeOK, OneFlow, FlagsMatch, Claimed
<1>2. CASE CancelAccepted
  BY <1>2 DEF CancelAccepted, SlotInv, TypeOK, OneFlow, FlagsMatch, Claimed
<1>3. ASSUME NEW f \in Flows, Arm(f)
      PROVE  SlotInv'
  <2>1. /\ flow' \in [Flows -> Phases]
        /\ flow'[f] = "armed" /\ flow[f] = "idle"
        /\ \A g \in Flows : g # f => flow'[g] = flow[g]
    BY <1>3, MovesOne DEF Arm, Moves, SlotInv, TypeOK, Phases, Pending
  <2>2. \A g \in Flows : Claimed(g)' <=> Claimed(g)
    BY <2>1 DEF Claimed, ClaimedPhases
  <2>3. TypeOK'
    BY <1>3, <2>1 DEF Arm, SlotInv, TypeOK
  <2>4. OneFlow'
    BY <2>2 DEF SlotInv, OneFlow
  <2>5. FlagsMatch'
    BY <1>3, <2>1, <2>2 DEF Arm, SlotInv, FlagsMatch
  <2> QED
    BY <2>3, <2>4, <2>5 DEF SlotInv
<1>4. ASSUME NEW f \in Flows, ClaimRefused(f)
      PROVE  SlotInv'
  <2>1. /\ flow' \in [Flows -> Phases]
        /\ flow'[f] = "busy" /\ flow[f] = "armed"
        /\ \A g \in Flows : g # f => flow'[g] = flow[g]
    BY <1>4, MovesOne DEF ClaimRefused, Moves, SlotInv, TypeOK, Phases
  <2>2. \A g \in Flows : Claimed(g)' <=> Claimed(g)
    BY <2>1 DEF Claimed, ClaimedPhases
  <2>3. TypeOK'
    BY <1>4, <2>1 DEF ClaimRefused, SlotInv, TypeOK
  <2>4. OneFlow'
    BY <2>2 DEF SlotInv, OneFlow
  <2>5. FlagsMatch'
    BY <1>4, <2>1, <2>2 DEF ClaimRefused, SlotInv, FlagsMatch
  <2> QED
    BY <2>3, <2>4, <2>5 DEF SlotInv
<1>5. ASSUME NEW f \in Flows, ClaimCanceled(f)
      PROVE  SlotInv'
  <2>1. /\ flow' \in [Flows -> Phases]
        /\ flow'[f] = "failed" /\ flow[f] = "armed"
        /\ \A g \in Flows : g # f => flow'[g] = flow[g]
    BY <1>5, MovesOne DEF ClaimCanceled, Moves, SlotInv, TypeOK, Phases
  <2>2. \A g \in Flows : Claimed(g)' <=> Claimed(g)
    BY <2>1 DEF Claimed, ClaimedPhases
  <2>3. TypeOK'
    BY <1>5, <2>1 DEF ClaimCanceled, SlotInv, TypeOK
  <2>4. OneFlow'
    BY <2>2 DEF SlotInv, OneFlow
  <2>5. FlagsMatch'
    BY <1>5, <2>1, <2>2 DEF ClaimCanceled, SlotInv, FlagsMatch
  <2> QED
    BY <2>3, <2>4, <2>5 DEF SlotInv
<1>6. ASSUME NEW f \in Flows, Claim(f)
      PROVE  SlotInv'
  <2>1. /\ flow' \in [Flows -> Phases]
        /\ flow'[f] = "claimed" /\ flow[f] = "armed"
        /\ \A g \in Flows : g # f => flow'[g] = flow[g]
    BY <1>6, MovesOne DEF Claim, Moves, SlotInv, TypeOK, Phases, Pending, ClaimedPhases
  <2>2. \A g \in Flows : Claimed(g)' <=> g = f
    BY <1>6, <2>1 DEF Claim, Claimed, ClaimedPhases, SlotInv, FlagsMatch
  <2>3. TypeOK'
    BY <1>6, <2>1 DEF Claim, SlotInv, TypeOK
  <2>4. OneFlow'
    BY <2>2 DEF OneFlow
  <2>5. \A g \in Flows : flow'[g] # "committing"
    BY <2>1, <2>2 DEF Claimed, ClaimedPhases
  <2>6. FlagsMatch'
    BY <1>6, <2>2, <2>5 DEF Claim, FlagsMatch
  <2> QED
    BY <2>3, <2>4, <2>6 DEF SlotInv
<1>7. ASSUME NEW f \in Flows, AsksForPage(f) \/ PageOpens(f) \/ Authorized(f)
      PROVE  SlotInv'
  <2>1. PICK to \in ClaimedPhases \ {"committing"} :
          /\ Claimed(f) /\ flow[f] # "committing"
          /\ flow' = [flow EXCEPT ![f] = to]
          /\ UNCHANGED <<starting, inProgress, canceled, committing>>
    BY <1>7 DEF AsksForPage, PageOpens, Authorized, Moves, Claimed, ClaimedPhases
  <2> QED
    BY <2>1, HoldSafe
<1>8. ASSUME NEW f \in Flows, BeginCommit(f)
      PROVE  SlotInv'
  <2>1. /\ flow' \in [Flows -> Phases]
        /\ flow'[f] = "committing" /\ flow[f] = "authorized"
        /\ \A g \in Flows : g # f => flow'[g] = flow[g]
    BY <1>8, MovesOne DEF BeginCommit, Moves, SlotInv, TypeOK, Phases, Pending, ClaimedPhases
  <2>2. \A g \in Flows : Claimed(g)' <=> Claimed(g)
    BY <2>1 DEF Claimed, ClaimedPhases
  <2>3. TypeOK'
    BY <1>8, <2>1 DEF BeginCommit, SlotInv, TypeOK
  <2>4. OneFlow'
    BY <2>2 DEF SlotInv, OneFlow
  <2>5. FlagsMatch'
    BY <1>8, <2>1, <2>2 DEF BeginCommit, SlotInv, FlagsMatch
  <2> QED
    BY <2>3, <2>4, <2>5 DEF SlotInv
<1>9. ASSUME NEW f \in Flows, Stores(f) \/ Fails(f)
      PROVE  SlotInv'
  <2>1. PICK to \in {"failed", "stored"} :
          Claimed(f) /\ flow' = [flow EXCEPT ![f] = to] /\ GuardDrops
    BY <1>9 DEF Stores, Fails, Moves, Claimed, ClaimedPhases
  <2> QED
    BY <2>1, GuardDropSafe
<1> QED
  BY <1>1, <1>2, <1>3, <1>4, <1>5, <1>6, <1>7, <1>8, <1>9 DEF Next, Worker

\* What the flags mean holds of every reachable state of the slot.
THEOREM SlotInvariant == Spec => []SlotInv
<1> QED
  BY InitSafe, StepSafe, PTL DEF Spec

\* The slot keeps its shape: a Cancel is on record only while a call is pending.
THEOREM SlotTyped == Spec => []TypeOK
<1>1. SlotInv => TypeOK
  BY DEF SlotInv
<1> QED
  BY <1>1, SlotInvariant, PTL

\* However many sign-ins are called for at once, one at most holds the slot.
THEOREM MutualExclusion == Spec => []OneFlow
<1>1. SlotInv => OneFlow
  BY DEF SlotInv
<1> QED
  BY <1>1, SlotInvariant, PTL

\* Once no call is pending, the slot is as it was at launch: no Cancel, refusal or
\* failure of the past can fail or block the next sign-in.
THEOREM CleanSlot == Spec => []SlotIsClean
<1>1. SlotInv => SlotIsClean
  <2> SUFFICES ASSUME SlotInv, \A f \in Flows : ~IsPending(f)
               PROVE  ~starting /\ ~inProgress /\ ~canceled /\ ~committing
    BY DEF SlotIsClean
  <2>1. \A f \in Flows : ~Claimed(f) /\ flow[f] # "armed" /\ flow[f] # "committing"
    BY DEF IsPending, Pending, Claimed, ClaimedPhases
  <2> QED
    BY <2>1 DEF SlotInv, FlagsMatch, TypeOK
<1> QED
  BY <1>1, SlotInvariant, PTL

\* A Cancel on record while a flow holds the slot stays there until that flow fails:
\* no other call can consume it, and the flow never gets to store a token.
THEOREM CancelIsNeverLost == Spec => RecordedCancelWins
<1>1. ASSUME SlotInv, [Next]_slotVars, NEW f \in Flows, Claimed(f), canceled
      PROVE  (Claimed(f)' /\ flow[f]' # "committing" /\ canceled') \/ flow[f]' = "failed"
  <2>1. flow[f] # "committing" /\ inProgress /\ flow \in [Flows -> Phases]
    BY <1>1 DEF SlotInv, FlagsMatch, TypeOK
  <2>2. CASE UNCHANGED slotVars \/ CancelAccepted
    BY <1>1, <2>1, <2>2 DEF slotVars, CancelAccepted, Claimed
  <2>3. ASSUME NEW g \in Flows, Arm(g) \/ ClaimRefused(g)
        PROVE  Claimed(f)' /\ flow[f]' # "committing" /\ canceled'
    <3>1. g # f
      BY <1>1, <2>3 DEF Arm, ClaimRefused, Moves, Claimed, ClaimedPhases
    <3> QED
      BY <1>1, <2>1, <2>3, <3>1 DEF Arm, ClaimRefused, Moves, Claimed
  <2>4. ASSUME NEW g \in Flows, ClaimCanceled(g) \/ Claim(g)
        PROVE  FALSE
    BY <2>1, <2>4 DEF ClaimCanceled, Claim
  <2>5. ASSUME NEW g \in Flows, AsksForPage(g) \/ Authorized(g) \/ BeginCommit(g)
        PROVE  FALSE
    BY <1>1, <2>5 DEF AsksForPage, Authorized, BeginCommit
  <2>6. ASSUME NEW g \in Flows, PageOpens(g)
        PROVE  Claimed(f)' /\ flow[f]' # "committing" /\ canceled'
    BY <1>1, <2>1, <2>6 DEF PageOpens, Moves, Claimed, ClaimedPhases
  <2>7. ASSUME NEW g \in Flows, Stores(g)
        PROVE  FALSE
    <3>1. Claimed(g) /\ flow[g] = "committing"
      BY <2>7 DEF Stores, Moves, Claimed, ClaimedPhases
    <3> QED
      BY <1>1, <2>1, <3>1 DEF SlotInv, OneFlow
  <2>8. ASSUME NEW g \in Flows, Fails(g)
        PROVE  flow[f]' = "failed"
    <3>1. g = f
      BY <1>1, <2>8 DEF Fails, SlotInv, OneFlow
    <3> QED
      BY <2>1, <2>8, <3>1 DEF Fails
  <2> QED
    BY <1>1, <2>2, <2>3, <2>4, <2>5, <2>6, <2>7, <2>8 DEF Next, Worker
<1>2. SlotInv /\ [Next]_slotVars =>
        [\A f \in Flows : Claimed(f) /\ canceled =>
           (Claimed(f)' /\ flow[f]' # "committing" /\ canceled') \/ flow[f]' = "failed"]_slotVars
  BY <1>1
<1> QED
  BY <1>2, SlotInvariant, PTL DEF Spec, RecordedCancelWins

-----------------------------------------------------------------------------
(* The slot under the dialogs.                                               *)

\* Where the call of a run stands, given where its dialog awaits.
FlowFits(r) ==
  /\ IsPending(r) => stage[r] = "backend"
  /\ stage[r] \in {"idle", "listening", "probing"} => flow[r] = "idle"
  /\ stage[r] \notin {"idle", "listening", "probing", "backend", "failing", "over"} =>
       flow[r] = "stored"

\* Unlike at the bare slot, starting is not lost: no second call is pending.
StartingIsKept == \A r \in Flows : flow[r] = "armed" => starting

\* A Cancel accepted before the commit has failed its flow or is still on record.
CancelHolds ==
  \A r \in Flows :
    cancel[r] = "accepted" /\ heard[r] \in Pending \ {"committing"} =>
      flow[r] = "failed" \/ (IsPending(r) /\ flow[r] # "committing" /\ canceled)

\* A stored token has an account, and the entry of a run is of its account.
AccountsMatch ==
  /\ \A r \in Flows : flow[r] = "stored" => account[r] \in Accounts
  /\ \A r \in Flows : entry.run = r => flow[r] = "stored" /\ entry.account = account[r]

\* Runs that have stored a token which their entry does not show yet.
Unrecorded ==
  {r \in Flows : stage[r] \in {"replacing", "undoing"} \/ (stage[r] = "backend" /\ flow[r] = "stored")}

\* Every token is the entry's, one of a run about to record it, or a known stray.
TokensAccounted == keychain \subseteq {entry.account} \cup stray \cup {account[r] : r \in Unrecorded}

SignInInv ==
  /\ SlotInv /\ SignInTypeOK /\ NeverBusy /\ \A r \in Flows : FlowFits(r)
  /\ StartingIsKept /\ CancelHolds /\ AccountsMatch /\ TokensAccounted

\* Nothing is signed in, stored or promised when the application starts.
LEMMA SignInInitSafe == SignInInit => SignInInv
<1> SUFFICES ASSUME SignInInit PROVE SignInInv
  OBVIOUS
<1>1. SlotInv
  BY InitSafe DEF SignInInit
<1>2. SignInTypeOK
  BY <1>1, SignInAssumption DEF SignInInit, Init, SignInTypeOK, SlotInv, Stages, NoEntry, NoSignOut, Phases
<1>3. NeverBusy /\ \A r \in Flows : FlowFits(r)
  BY DEF SignInInit, Init, NeverBusy, FlowFits, IsPending, Pending, ClaimedPhases
<1>4. StartingIsKept /\ CancelHolds /\ AccountsMatch /\ TokensAccounted
  BY SignInAssumption DEF SignInInit, Init, StartingIsKept, CancelHolds, AccountsMatch, TokensAccounted, NoEntry
<1> QED
  BY <1>1, <1>2, <1>3, <1>4 DEF SignInInv

\* Whatever the dialogs and sign-outs do, the slot sees its own steps only.
LEMMA SlotStep == [SignInNext]_vars => [Next]_slotVars
<1> SUFFICES ASSUME [SignInNext]_vars PROVE [Next]_slotVars
  OBVIOUS
<1>1. CASE UNCHANGED vars
  BY <1>1 DEF vars
<1>2. ASSUME NEW r \in Flows, BackendArms(r) \/ BackendRuns(r) \/ BackendStores(r)
      PROVE  Next
  BY <1>2 DEF BackendArms, BackendRuns, BackendStores, Next
<1>3. ASSUME NEW r \in Flows, CancelAnswered(r) PROVE [Next]_slotVars
  BY <1>3 DEF CancelAnswered, Next
<1>4. ASSUME NEW r \in Flows,
             \/ Start(r) \/ AskCancel(r) \/ ListenFails(r) \/ Listens(r) \/ Invokes(r)
             \/ SignInFails(r) \/ SignInSucceeds(r)
             \/ OldTokenGoes(r) \/ OldTokenStays(r) \/ NewTokenUndone(r)
             \/ Pins(r) \/ PinFails(r) \/ RunFails(r) \/ RunSucceeds(r)
             \/ RollsBack(r) \/ Unpins(r) \/ RemotesListed(r) \/ UnpinFails(r)
             \/ TokenDeleted(r) \/ TokenStays(r)
      PROVE  UNCHANGED slotVars
  BY <1>4 DEF Start, AskCancel, ListenFails, Listens, Invokes, SignInFails, SignInSucceeds,
       OldTokenGoes, OldTokenStays, NewTokenUndone, Pins, PinFails, RunFails, RunSucceeds,
       RollsBack, Unpins, RemotesListed, UnpinFails, TokenDeleted, TokenStays
<1>5. CASE SignOutBegins \/ SignOutDeletes \/ SignOutFails \/ SignOutEnds
  BY <1>5 DEF SignOutBegins, SignOutDeletes, SignOutFails, SignOutEnds
<1> QED
  BY <1>1, <1>2, <1>3, <1>4, <1>5 DEF SignInNext, RunStep

\* The dialogs let one run begin at a time, so one call at most is pending.
LEMMA OneIsPending ==
  ASSUME SignInInv, NEW f \in Flows, NEW g \in Flows, IsPending(f), IsPending(g)
  PROVE  f = g
BY DEF SignInInv, SignInTypeOK, FlowFits

\* What a step of a run's dialog does to its own stage.
LEMMA StageMoves ==
  ASSUME SignInTypeOK, NEW r \in Flows, NEW from, NEW to \in Stages, Steps(r, from, to)
  PROVE  /\ stage' \in [Flows -> Stages] /\ stage[r] = from /\ stage'[r] = to
         /\ \A q \in Flows : q # r => stage'[q] = stage[q]
BY DEF SignInTypeOK, Steps

\* The latch follows a run from its start to its end.
LEMMA LatchFollows ==
  ASSUME SignInTypeOK, NEW r \in Flows, NEW from, NEW to \in Stages, Steps(r, from, to),
         \/ from = "idle" /\ active = None /\ to \notin {"idle", "over"} /\ active' = r
         \/ from \notin {"idle", "over"} /\ to \notin {"idle", "over"} /\ UNCHANGED active
         \/ from \notin {"idle", "over"} /\ to = "over" /\ active' = None
  PROVE  /\ active' \in Flows \cup {None}
         /\ \A q \in Flows : active' = q <=> stage'[q] \notin {"idle", "over"}
<1>1. /\ stage[r] = from /\ stage'[r] = to
      /\ \A q \in Flows : q # r => stage'[q] = stage[q]
  BY StageMoves
<1>2. \A q \in Flows : active = q <=> stage[q] \notin {"idle", "over"}
  BY DEF SignInTypeOK
<1>3. active \in Flows \cup {None} /\ None \notin Flows
  BY SignInAssumption DEF SignInTypeOK
<1> QED
  BY <1>1, <1>2, <1>3

\* A step that keeps everything typed that it does not name.
LEMMA SignInTyped == SignInInv /\ SlotInv' /\ [SignInNext]_vars => SignInTypeOK'
<1> SUFFICES ASSUME SignInInv, SlotInv', [SignInNext]_vars PROVE SignInTypeOK'
  OBVIOUS
<1> DEFINE Latch == \A q \in Flows : active' = q <=> stage'[q] \notin {"idle", "over"}
<1>1. SignInTypeOK /\ TypeOK' /\ AccountsMatch
  BY DEF SignInInv, SlotInv
<1>2. CASE UNCHANGED vars
  BY <1>1, <1>2 DEF vars, frontVars, storedVars, outVars, histVars, SignInTypeOK
<1>3. ASSUME NEW r \in Flows, Start(r) PROVE SignInTypeOK'
  <2>1. Steps(r, "idle", "listening") /\ active = None /\ active' = r
    BY <1>3 DEF Start
  <2>2. active' \in Flows \cup {None} /\ Latch /\ stage' \in [Flows -> Stages]
    BY <1>1, <2>1, LatchFollows, StageMoves DEF Stages
  <2> QED
    BY <1>1, <1>3, <2>2 DEF Start, SignInTypeOK, storedVars, outVars, histVars
<1>4. ASSUME NEW r \in Flows,
             \/ ListenFails(r) \/ Listens(r) \/ Invokes(r) \/ SignInFails(r)
             \/ OldTokenStays(r) \/ PinFails(r)
      PROVE  SignInTypeOK'
  <2>1. PICK from, to \in Stages \ {"idle", "over"} :
          Steps(r, from, to) /\ UNCHANGED active /\ from \notin {"idle", "over"}
    BY <1>4 DEF ListenFails, Listens, Invokes, SignInFails, OldTokenStays, PinFails, Stages
  <2>2. active' \in Flows \cup {None} /\ Latch /\ stage' \in [Flows -> Stages]
    BY <1>1, <2>1, LatchFollows, StageMoves
  <2> QED
    BY <1>1, <1>4, <2>2 DEF ListenFails, Listens, Invokes, SignInFails, OldTokenStays, PinFails,
      SignInTypeOK, storedVars, outVars, histVars
<1>5. ASSUME NEW r \in Flows, SignInSucceeds(r) \/ OldTokenGoes(r) \/ NewTokenUndone(r) \/ Pins(r)
      PROVE  SignInTypeOK'
  <2>1. PICK from, to \in Stages \ {"idle", "over"} :
          Steps(r, from, to) /\ UNCHANGED active /\ from \notin {"idle", "over"}
    BY <1>5 DEF SignInSucceeds, OldTokenGoes, NewTokenUndone, Pins, Records, Stages
  <2>2. active' \in Flows \cup {None} /\ Latch /\ stage' \in [Flows -> Stages]
    BY <1>1, <2>1, LatchFollows, StageMoves
  <2>3. account[r] \in Accounts \/ Pins(r)
    BY <1>5 DEF SignInInv, AccountsMatch, FlowFits, SignInSucceeds, OldTokenGoes, NewTokenUndone,
      Records, Steps
  <2>4. entry' = NoEntry \/ entry' \in [account : Accounts, run : Flows]
    BY <1>1, <1>5, <2>3 DEF SignInSucceeds, OldTokenGoes, NewTokenUndone, Pins, Records, SignInTypeOK
  <2>5. keychain' \cup stray' \subseteq Accounts
    BY <1>1, <1>5, <2>3 DEF SignInSucceeds, OldTokenGoes, NewTokenUndone, Pins, SignInTypeOK, histVars
  <2> QED
    BY <1>1, <1>5, <2>2, <2>4, <2>5 DEF SignInSucceeds, OldTokenGoes, NewTokenUndone, Pins,
      SignInTypeOK, outVars, histVars
<1>6. ASSUME NEW r \in Flows,
             \/ RunFails(r) \/ RunSucceeds(r) \/ RollsBack(r) \/ Unpins(r) \/ RemotesListed(r)
             \/ UnpinFails(r) \/ TokenDeleted(r) \/ TokenStays(r)
      PROVE  SignInTypeOK'
  <2>1. PICK from, to \in Stages \ {"idle"} :
          /\ Steps(r, from, to) /\ from \notin {"idle", "over"}
          /\ IF to = "over" THEN active' = None ELSE UNCHANGED active
    BY <1>6 DEF RunFails, RunSucceeds, RollsBack, Unpins, RemotesListed, UnpinFails, TokenDeleted,
      TokenStays, DeletesOrEnds, Ends, Stages
  <2>2. active' \in Flows \cup {None} /\ Latch /\ stage' \in [Flows -> Stages]
    BY <1>1, <2>1, LatchFollows, StageMoves
  <2>3. /\ remote' \in {"own", "sentinel"} /\ lastPin' \in Flows \cup {None}
        /\ entry' = NoEntry \/ entry' \in [account : Accounts, run : Flows]
        /\ keychain' \cup stray' \subseteq Accounts
    BY <1>1, <1>6 DEF RunFails, RunSucceeds, RollsBack, Unpins, RemotesListed, UnpinFails,
      TokenDeleted, TokenStays, SignInTypeOK, storedVars, histVars
  <2> QED
    BY <1>1, <1>6, <2>2, <2>3 DEF RunFails, RunSucceeds, RollsBack, Unpins, RemotesListed, UnpinFails,
      TokenDeleted, TokenStays, SignInTypeOK, outVars, histVars
<1>7. ASSUME NEW r \in Flows, BackendArms(r) \/ BackendRuns(r) PROVE SignInTypeOK'
  BY <1>1, <1>7 DEF BackendArms, BackendRuns, SignInTypeOK, frontVars, storedVars, outVars, histVars
<1>8. ASSUME NEW r \in Flows, BackendStores(r) PROVE SignInTypeOK'
  BY <1>1, <1>8 DEF BackendStores, SignInTypeOK, outVars
<1>9. ASSUME NEW r \in Flows, AskCancel(r) PROVE SignInTypeOK'
  BY <1>1, <1>9 DEF AskCancel, SignInTypeOK, storedVars, outVars, histVars
<1>10. ASSUME NEW r \in Flows, CancelAnswered(r) PROVE SignInTypeOK'
  <2>1. flow[r] \in Phases
    BY <1>1 DEF SignInTypeOK, TypeOK
  <2> QED
    BY <1>1, <1>10, <2>1 DEF CancelAnswered, Answered, SignInTypeOK, storedVars, outVars
<1>11. CASE SignOutBegins
  <2>1. entry.account \in Accounts
    BY <1>1, <1>11 DEF SignOutBegins, SignInTypeOK
  <2> QED
    BY <1>1, <1>11, <2>1, SignInAssumption
      DEF SignOutBegins, SignInTypeOK, frontVars, storedVars, histVars
<1>12. CASE SignOutDeletes
  BY <1>1, <1>12 DEF SignOutDeletes, SignInTypeOK, frontVars, histVars, NoSignOut
<1>13. CASE SignOutFails \/ SignOutEnds
  BY <1>1, <1>13 DEF SignOutFails, SignOutEnds, SignInTypeOK, frontVars, storedVars, histVars
<1> QED
  BY <1>2, <1>3, <1>4, <1>5, <1>6, <1>7, <1>8, <1>9, <1>10, <1>11, <1>12, <1>13
    DEF SignInNext, RunStep

FlowInv == NeverBusy /\ (\A r \in Flows : FlowFits(r)) /\ StartingIsKept /\ CancelHolds

\* The slot moves for the one run that is at the backend. Its call is never refused,
\* and a Cancel on record lets it end in a failure only.
LEMMA BackendSafe ==
  ASSUME SignInInv, NEW r \in Flows, stage[r] = "backend", Arm(r) \/ Worker(r) \/ Stores(r),
         UNCHANGED <<stage, cancel, heard>>
  PROVE  FlowInv'
<1>1. flow \in [Flows -> Phases] /\ \A g \in Flows : g # r => stage[g] # "backend"
  BY DEF SignInInv, SignInTypeOK, TypeOK
<1>2. \A g \in Flows : g # r => ~IsPending(g) /\ flow'[g] = flow[g]
  <2>1. \A g \in Flows : g # r => ~IsPending(g)
    BY <1>1 DEF SignInInv, FlowFits
  <2>2. \E to \in Phases : flow' = [flow EXCEPT ![r] = to]
    BY DEF Arm, Worker, Stores, ClaimRefused, ClaimCanceled, Claim, AsksForPage, PageOpens,
      Authorized, BeginCommit, Fails, Moves, Phases, Pending, ClaimedPhases
  <2> QED
    BY <1>1, <2>1, <2>2
<1>3. ~ClaimRefused(r)
  <2>1. ASSUME ClaimRefused(r) PROVE FALSE
    <3>1. PICK f \in Flows : Claimed(f)
      BY <2>1 DEF ClaimRefused, SignInInv, SlotInv, FlagsMatch
    <3>2. f = r
      BY <1>2, <3>1 DEF IsPending, Pending, Claimed
    <3> QED
      BY <2>1, <3>1, <3>2 DEF ClaimRefused, Moves, Claimed, ClaimedPhases
  <2> QED
    BY <2>1
<1>4. flow'[r] # "busy" /\ (flow'[r] = "armed" => starting')
  BY <1>1, <1>3 DEF Arm, Worker, Stores, ClaimCanceled, Claim, AsksForPage, PageOpens,
    Authorized, BeginCommit, Fails, Moves
<1>5. NeverBusy'
  BY <1>2, <1>4 DEF NeverBusy, SignInInv
<1>6. \A g \in Flows : FlowFits(g)'
  BY <1>1, <1>2 DEF SignInInv, FlowFits, IsPending
<1>7. StartingIsKept'
  BY <1>2, <1>4 DEF StartingIsKept, IsPending, Pending
<1>8. CancelHolds'
  <2> SUFFICES ASSUME NEW g \in Flows, cancel[g] = "accepted", heard[g] \in Pending \ {"committing"}
               PROVE  flow'[g] = "failed" \/ (IsPending(g)' /\ flow'[g] # "committing" /\ canceled')
    BY DEF CancelHolds
  <2>1. flow[g] = "failed" \/ (IsPending(g) /\ flow[g] # "committing" /\ canceled)
    BY DEF SignInInv, CancelHolds
  <2>2. CASE g # r
    BY <1>2, <2>1, <2>2
  <2>3. CASE g = r /\ flow[r] = "failed"
    BY <2>3 DEF Arm, Worker, Stores, ClaimRefused, ClaimCanceled, Claim, AsksForPage, PageOpens,
      Authorized, BeginCommit, Fails, Moves, Claimed, ClaimedPhases
  <2>4. CASE g = r /\ IsPending(r) /\ flow[r] # "committing" /\ canceled
    <3>1. flow[r] # "idle"
      BY <2>4 DEF IsPending, Pending, ClaimedPhases
    <3>2. ClaimCanceled(r) \/ PageOpens(r) \/ Fails(r)
      BY <1>3, <2>4, <3>1 DEF Arm, Worker, Stores, Claim, AsksForPage, Authorized, BeginCommit, Moves
    <3> QED
      BY <1>1, <2>4, <3>2 DEF ClaimCanceled, PageOpens, Fails, Moves, IsPending, Pending, ClaimedPhases
  <2> QED
    BY <2>1, <2>2, <2>3, <2>4
<1> QED
  BY <1>5, <1>6, <1>7, <1>8 DEF FlowInv

\* A Cancel is on record for the pending flow once the backend has accepted it.
LEMMA CancelSafe ==
  ASSUME SignInInv, NEW r \in Flows, CancelAnswered(r)
  PROVE  FlowInv'
<1>1. /\ UNCHANGED <<starting, flow, stage>>
      /\ cancel \in [Flows -> {"none", "asked", "accepted", "refused"}]
      /\ heard \in [Flows -> Phases]
  BY DEF CancelAnswered, Answered, CancelAccepted, slotVars, SignInInv, SignInTypeOK
<1>A. canceled => canceled'
  BY DEF CancelAnswered, CancelAccepted, slotVars
<1>2. NeverBusy' /\ (\A g \in Flows : FlowFits(g)') /\ StartingIsKept'
  BY <1>1 DEF SignInInv, NeverBusy, FlowFits, StartingIsKept, IsPending
<1>3. CancelHolds'
  <2> SUFFICES ASSUME NEW g \in Flows, cancel'[g] = "accepted", heard'[g] \in Pending \ {"committing"}
               PROVE  flow'[g] = "failed" \/ (IsPending(g)' /\ flow'[g] # "committing" /\ canceled')
    BY DEF CancelHolds
  <2>1. CASE g # r
    <3>1. cancel'[g] = cancel[g] /\ heard'[g] = heard[g]
      BY <1>1, <2>1 DEF CancelAnswered, Answered
    <3> QED
      BY <1>1, <1>A, <3>1 DEF SignInInv, CancelHolds, IsPending
  <2>2. CASE g = r
    <3>1. CancelAccepted /\ flow[r] \in Pending \ {"committing"}
      BY <1>1, <2>2 DEF CancelAnswered, Answered
    <3>2. starting \/ inProgress
      BY <3>1 DEF SignInInv, SlotInv, FlagsMatch, StartingIsKept, Pending, Claimed
    <3> QED
      BY <1>1, <2>2, <3>1, <3>2 DEF CancelAccepted, IsPending
  <2> QED
    BY <2>1, <2>2
<1> QED
  BY <1>2, <1>3 DEF FlowInv

\* A step of a dialog leaves the flow be, at a stage that fits where the flow stands.
LEMMA DialogSafe ==
  ASSUME SignInInv, NEW r \in Flows, NEW from, NEW to \in Stages,
         Steps(r, from, to), UNCHANGED <<slotVars, cancel, heard>>,
         ~IsPending(r),
         to \in {"idle", "listening", "probing"} => flow[r] = "idle",
         \/ to \in {"idle", "listening", "probing", "backend", "failing", "over"}
         \/ flow[r] = "stored"
  PROVE  FlowInv'
<1>1. /\ stage'[r] = to /\ \A q \in Flows : q # r => stage'[q] = stage[q]
      /\ UNCHANGED <<starting, canceled, flow, cancel, heard>>
  BY StageMoves DEF SignInInv, slotVars
<1> QED
  BY <1>1 DEF SignInInv, FlowInv, NeverBusy, FlowFits, StartingIsKept, CancelHolds, IsPending

\* No step lets the flow and its dialog lose sight of each other.
LEMMA FlowSafe == SignInInv /\ [SignInNext]_vars => FlowInv'
<1> SUFFICES ASSUME SignInInv, [SignInNext]_vars PROVE FlowInv'
  OBVIOUS
<1>1. CASE UNCHANGED <<slotVars, stage, cancel, heard>>
  BY <1>1 DEF SignInInv, FlowInv, slotVars, NeverBusy, FlowFits, StartingIsKept, CancelHolds, IsPending
<1>2. ASSUME NEW r \in Flows, BackendArms(r) \/ BackendRuns(r) \/ BackendStores(r)
      PROVE  FlowInv'
  BY <1>2, BackendSafe DEF BackendArms, BackendRuns, BackendStores, frontVars, histVars
<1>3. ASSUME NEW r \in Flows, CancelAnswered(r) PROVE FlowInv'
  BY <1>3, CancelSafe
<1>4. ASSUME NEW r \in Flows, AskCancel(r) PROVE FlowInv'
  <2>1. cancel' = [cancel EXCEPT ![r] = "asked"] /\ UNCHANGED <<slotVars, stage, heard>>
    BY <1>4 DEF AskCancel, histVars
  <2> QED
    BY <2>1 DEF SignInInv, SignInTypeOK, FlowInv, slotVars, NeverBusy, FlowFits, StartingIsKept,
      CancelHolds, IsPending
<1>5. ASSUME NEW r \in Flows,
             \/ Start(r) \/ ListenFails(r) \/ Listens(r) \/ Invokes(r) \/ SignInFails(r)
             \/ SignInSucceeds(r) \/ OldTokenGoes(r) \/ OldTokenStays(r) \/ NewTokenUndone(r)
             \/ Pins(r) \/ PinFails(r) \/ RunFails(r) \/ RunSucceeds(r)
             \/ RollsBack(r) \/ Unpins(r) \/ RemotesListed(r) \/ UnpinFails(r)
             \/ TokenDeleted(r) \/ TokenStays(r)
      PROVE  FlowInv'
  <2>1. PICK from, to \in Stages :
          /\ Steps(r, from, to) /\ UNCHANGED <<slotVars, cancel, heard>>
          /\ from = "idle" => to = "listening"
          /\ from = "listening" => to \in {"probing", "failing"}
          /\ from = "probing" => to = "backend"
          /\ from = "backend" =>
               \/ flow[r] = "stored" /\ to \in {"replacing", "pinning", "returned"}
               \/ flow[r] \in {"failed", "busy"} /\ to = "failing"
          /\ from = "failing" => to = "over"
          /\ from # "over" /\ to \notin {"idle"}
          /\ to = "listening" => from = "idle"
          /\ to = "probing" => from = "listening"
    BY <1>5 DEF Start, ListenFails, Listens, Invokes, SignInFails, SignInSucceeds, OldTokenGoes,
      OldTokenStays, NewTokenUndone, Pins, PinFails, RunFails, RunSucceeds, RollsBack, Unpins,
      RemotesListed, UnpinFails, TokenDeleted, TokenStays, Records, DeletesOrEnds, Ends, Stages,
      Steps, histVars
  <2>2. FlowFits(r) /\ stage[r] = from
    BY <2>1 DEF SignInInv, Steps
  <2>3. ~IsPending(r)
    BY <2>1, <2>2 DEF FlowFits, IsPending, Pending, ClaimedPhases
  <2>4. to \in {"idle", "listening", "probing"} => flow[r] = "idle"
    BY <2>1, <2>2 DEF FlowFits
  <2>5. to \in {"idle", "listening", "probing", "backend", "failing", "over"} \/ flow[r] = "stored"
    BY <2>1, <2>2 DEF FlowFits, Stages
  <2> QED
    BY <2>1, <2>3, <2>4, <2>5, DialogSafe
<1>6. CASE SignOutBegins \/ SignOutDeletes \/ SignOutFails \/ SignOutEnds \/ UNCHANGED vars
  BY <1>1, <1>6 DEF SignOutBegins, SignOutDeletes, SignOutFails, SignOutEnds, vars, frontVars, histVars
<1> QED
  BY <1>2, <1>3, <1>4, <1>5, <1>6 DEF SignInNext, RunStep

\* Tokens and entries stay accounted for: what a run stored is its own to record
\* until it does, or undoes it.
LEMMA TokensSafe == SignInInv /\ [SignInNext]_vars => AccountsMatch' /\ TokensAccounted'
<1> SUFFICES ASSUME SignInInv, [SignInNext]_vars PROVE AccountsMatch' /\ TokensAccounted'
  OBVIOUS
<1>1. /\ SignInTypeOK /\ AccountsMatch /\ TokensAccounted /\ \A r \in Flows : FlowFits(r)
      /\ NoEntry.run = None /\ None \notin Flows /\ flow \in [Flows -> Phases]
      /\ account \in [Flows -> Accounts \cup {None}] /\ stage \in [Flows -> Stages]
  BY SignInAssumption DEF SignInInv, SignInTypeOK, TypeOK, NoEntry
<1>2. CASE UNCHANGED <<flow, stage, account, storedVars, stray>>
  BY <1>1, <1>2 DEF AccountsMatch, TokensAccounted, Unrecorded, storedVars
<1>3. ASSUME NEW r \in Flows, BackendArms(r) \/ BackendRuns(r)
      PROVE  AccountsMatch' /\ TokensAccounted'
  <2>1. /\ UNCHANGED <<account, stage, entry, keychain, stray>> /\ flow[r] # "stored"
        /\ \E to \in Phases \ {"stored"} : flow' = [flow EXCEPT ![r] = to]
    BY <1>3 DEF BackendArms, BackendRuns, Arm, Worker, ClaimRefused, ClaimCanceled, Claim, AsksForPage,
      PageOpens, Authorized, BeginCommit, Fails, Moves, Claimed, Phases, Pending, ClaimedPhases,
      frontVars, storedVars, histVars
  <2>2. \A g \in Flows : flow'[g] = "stored" <=> flow[g] = "stored"
    BY <1>1, <2>1
  <2>3. Unrecorded' = Unrecorded
    BY <2>1, <2>2 DEF Unrecorded
  <2> QED
    BY <1>1, <2>1, <2>2, <2>3 DEF AccountsMatch, TokensAccounted
<1>4. ASSUME NEW r \in Flows, BackendStores(r)
      PROVE  AccountsMatch' /\ TokensAccounted'
  <2>1. PICK a \in Accounts : /\ account' = [account EXCEPT ![r] = a]
                              /\ keychain' = keychain \cup {a} /\ stray' = stray \ {a}
    BY <1>4 DEF BackendStores
  <2>2. /\ UNCHANGED <<stage, entry>> /\ stage[r] = "backend"
        /\ flow[r] = "committing" /\ flow' = [flow EXCEPT ![r] = "stored"]
    BY <1>4 DEF BackendStores, Stores, Moves
  <2>3. entry.run # r /\ account'[r] = a /\ flow'[r] = "stored"
    BY <1>1, <2>1, <2>2 DEF AccountsMatch
  <2>4. \A g \in Flows : g # r => account'[g] = account[g] /\ flow'[g] = flow[g]
    BY <1>1, <2>1, <2>2
  <2>5. AccountsMatch'
    BY <1>1, <2>2, <2>3, <2>4 DEF AccountsMatch
  <2>6. r \in Unrecorded' /\ r \notin Unrecorded /\ \A g \in Unrecorded : g \in Unrecorded'
    BY <2>2, <2>3, <2>4 DEF Unrecorded
  <2>7. TokensAccounted'
    BY <1>1, <2>1, <2>2, <2>3, <2>4, <2>6 DEF TokensAccounted, Unrecorded
  <2> QED
    BY <2>5, <2>7

<1>5. ASSUME NEW r \in Flows,
             \/ Start(r) \/ ListenFails(r) \/ Listens(r) \/ Invokes(r) \/ SignInFails(r)
             \/ OldTokenStays(r) \/ Pins(r) \/ PinFails(r) \/ RunFails(r) \/ RunSucceeds(r)
             \/ RollsBack(r) \/ Unpins(r) \/ RemotesListed(r) \/ UnpinFails(r) \/ TokenStays(r)
      PROVE  AccountsMatch' /\ TokensAccounted'
  <2>1. PICK from, to \in Stages :
          /\ Steps(r, from, to) /\ UNCHANGED <<flow, account, entry, keychain, stray>>
          /\ from \notin {"replacing", "undoing"} \/ to = "undoing"
          /\ from = "backend" => flow[r] # "stored"
    BY <1>5 DEF Start, ListenFails, Listens, Invokes, SignInFails, OldTokenStays, Pins, PinFails,
      RunFails, RunSucceeds, RollsBack, Unpins, RemotesListed, UnpinFails, TokenStays,
      DeletesOrEnds, Ends, Stages, slotVars, storedVars, histVars
  <2>2. stage[r] = from /\ stage'[r] = to /\ \A q \in Flows : q # r => stage'[q] = stage[q]
    BY <1>1, <2>1, StageMoves
  <2>3. Unrecorded \subseteq Unrecorded'
    BY <2>1, <2>2 DEF Unrecorded
  <2> QED
    BY <1>1, <2>1, <2>3 DEF AccountsMatch, TokensAccounted
<1>6. ASSUME NEW r \in Flows, NEW from, Records(r, from), stage[r] \in {"backend", "replacing"},
             flow[r] = "stored", UNCHANGED <<flow, account, stray>>,
             keychain' \subseteq keychain,
             \A a \in keychain' : a # account[r] => a # entry.account
      PROVE  AccountsMatch' /\ TokensAccounted'
  <2>1. /\ entry' = [account |-> account[r], run |-> r]
        /\ Steps(r, from, IF r \in binds THEN "pinning" ELSE "returned")
    BY <1>6 DEF Records
  <2>2. \A q \in Flows : q # r => stage'[q] = stage[q]
    BY <1>1, <2>1, StageMoves DEF Stages
  <2>3. \A q \in Unrecorded : q # r => q \in Unrecorded'
    BY <1>6, <2>2 DEF Unrecorded
  <2>4. TokensAccounted'
    BY <1>1, <1>6, <2>1, <2>3 DEF TokensAccounted
  <2> QED
    BY <1>1, <1>6, <2>1, <2>4 DEF AccountsMatch
<1>7. ASSUME NEW r \in Flows, SignInSucceeds(r) PROVE AccountsMatch' /\ TokensAccounted'
  <2>1. flow[r] = "stored" /\ UNCHANGED <<flow, account, keychain, stray>> /\ stage[r] = "backend"
    BY <1>7 DEF SignInSucceeds, Records, Steps, slotVars, histVars
  <2>2. CASE Supersedes(r)
    <3>1. Steps(r, "backend", "replacing") /\ UNCHANGED entry
      BY <1>7, <2>2 DEF SignInSucceeds
    <3>2. stage'[r] = "replacing" /\ \A q \in Flows : q # r => stage'[q] = stage[q]
      BY <1>1, <3>1, StageMoves DEF Stages
    <3>3. Unrecorded \subseteq Unrecorded'
      BY <2>1, <3>2 DEF Unrecorded
    <3> QED
      BY <1>1, <2>1, <3>1, <3>3 DEF AccountsMatch, TokensAccounted
  <2>3. CASE ~Supersedes(r)
    <3>1. Records(r, "backend")
      BY <1>7, <2>3 DEF SignInSucceeds
    <3>2. \A a \in keychain' : a # account[r] => a # entry.account
      BY <1>1, <2>1, <2>3, SignInAssumption DEF Supersedes, SignInTypeOK, NoEntry
    <3> QED
      BY <1>6, <2>1, <3>1, <3>2
  <2> QED
    BY <2>2, <2>3
<1>8. ASSUME NEW r \in Flows, OldTokenGoes(r) PROVE AccountsMatch' /\ TokensAccounted'
  <2>1. /\ Records(r, "replacing") /\ keychain' = keychain \ {entry.account}
        /\ UNCHANGED <<flow, account, stray>> /\ stage[r] = "replacing"
    BY <1>8 DEF OldTokenGoes, Records, Steps, slotVars, histVars
  <2>2. flow[r] = "stored"
    BY <1>1, <2>1 DEF FlowFits
  <2> QED
    BY <1>6, <2>1, <2>2
<1>9. ASSUME NEW r \in Flows, NewTokenUndone(r) PROVE AccountsMatch' /\ TokensAccounted'
  <2>1. /\ Steps(r, "undoing", "failing") /\ UNCHANGED <<flow, account, entry>>
        /\ \/ keychain' = keychain \ {account[r]} /\ UNCHANGED stray
           \/ stray' = stray \cup {account[r]} /\ UNCHANGED keychain
    BY <1>9 DEF NewTokenUndone, slotVars
  <2>2. \A q \in Flows : q # r => stage'[q] = stage[q]
    BY <1>1, <2>1, StageMoves DEF Stages
  <2>3. \A q \in Unrecorded : q # r => q \in Unrecorded'
    BY <2>1, <2>2 DEF Unrecorded
  <2> QED
    BY <1>1, <2>1, <2>3 DEF AccountsMatch, TokensAccounted
<1>10. ASSUME NEW r \in Flows, TokenDeleted(r) PROVE AccountsMatch' /\ TokensAccounted'
  <2>1. /\ Steps(r, "deleting", "over") /\ UNCHANGED <<flow, account, stray>>
        /\ keychain' = keychain \ {account[r]}
        /\ entry' = IF entry.run = r THEN NoEntry ELSE entry
    BY <1>10 DEF TokenDeleted, Ends, slotVars, histVars
  <2>2. stage[r] = "deleting" /\ \A q \in Flows : q # r => stage'[q] = stage[q]
    BY <1>1, <2>1, StageMoves DEF Stages
  <2>3. Unrecorded \subseteq Unrecorded'
    BY <2>1, <2>2 DEF Unrecorded
  <2>4. entry.run = r => entry.account = account[r]
    BY <1>1 DEF AccountsMatch
  <2> QED
    BY <1>1, <2>1, <2>3, <2>4 DEF AccountsMatch, TokensAccounted
<1>11. CASE SignOutDeletes \/ SignOutEnds
  <2>1. /\ UNCHANGED <<flow, stage, account>>
        /\ \/ /\ UNCHANGED <<entry, stray>> /\ keychain' \subseteq keychain
           \/ /\ entry' = NoEntry /\ UNCHANGED keychain
              /\ stray' = stray \cup ({entry.account} \cap keychain)
    BY <1>11 DEF SignOutDeletes, SignOutEnds, slotVars, frontVars, histVars
  <2>2. Unrecorded' = Unrecorded
    BY <2>1 DEF Unrecorded
  <2> QED
    BY <1>1, <2>1, <2>2 DEF AccountsMatch, TokensAccounted
<1>12. ASSUME NEW r \in Flows, AskCancel(r) \/ CancelAnswered(r)
       PROVE  AccountsMatch' /\ TokensAccounted'
  BY <1>2, <1>12 DEF AskCancel, CancelAnswered, Answered, CancelAccepted, slotVars, histVars
<1>13. CASE SignOutBegins \/ SignOutFails \/ UNCHANGED vars
  BY <1>2, <1>13 DEF SignOutBegins, SignOutFails, vars, slotVars, frontVars, histVars
<1> QED
  BY <1>3, <1>4, <1>5, <1>7, <1>8, <1>9, <1>10, <1>11, <1>12, <1>13 DEF SignInNext, RunStep

\* The slot, the dialogs and the record keep together in every reachable state.
THEOREM SignInInvariant == SignInSpec => []SignInInv
<1>1. SignInInv /\ [SignInNext]_vars => SignInInv'
  <2> SUFFICES ASSUME SignInInv, [SignInNext]_vars PROVE SignInInv'
    OBVIOUS
  <2>1. SlotInv'
    BY SlotStep, StepSafe DEF SignInInv
  <2> QED
    BY <2>1, SignInTyped, FlowSafe, TokensSafe DEF SignInInv, FlowInv
<1> QED
  BY <1>1, SignInInitSafe, PTL DEF SignInSpec

\* Everything keeps its shape, and the latch is held exactly while a run is on.
THEOREM SignInTypeCorrect == SignInSpec => []SignInTypeOK
<1>1. SignInInv => SignInTypeOK
  BY DEF SignInInv
<1> QED
  BY <1>1, SignInInvariant, PTL

\* No sign-in a dialog was allowed to begin finds the slot taken, for any number of
\* runs (useProviderOauthRun's latch against slot.rs).
THEOREM NeverTurnedAway == SignInSpec => []NeverBusy
<1>1. SignInInv => NeverBusy
  BY DEF SignInInv
<1> QED
  BY <1>1, SignInInvariant, PTL

\* A Cancel accepted before the commit keeps the token from being stored.
THEOREM CancelStopsTheToken == SignInSpec => []CancelBeatsStore
<1>1. SignInInv => CancelBeatsStore
  BY DEF SignInInv, CancelHolds, CancelBeatsStore, IsPending, Pending, ClaimedPhases
<1> QED
  BY <1>1, SignInInvariant, PTL

\* With no run on, each token in the keychain is the entry's or a known stray.
THEOREM TokensHaveEntries == SignInSpec => []NoOrphanToken
<1>1. SignInInv => NoOrphanToken
  <2> SUFFICES ASSUME SignInInv, active = None PROVE keychain \subseteq {entry.account} \cup stray
    BY DEF NoOrphanToken
  <2>1. Unrecorded = {}
    BY SignInAssumption DEF SignInInv, SignInTypeOK, Unrecorded
  <2> QED
    BY <2>1 DEF SignInInv, TokensAccounted
<1> QED
  BY <1>1, SignInInvariant, PTL
=============================================================================
