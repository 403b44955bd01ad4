----------------------------- MODULE SignInSlot -----------------------------
(***************************************************************************)
(* The slot that lets one native OAuth sign-in run at a time and a Cancel    *)
(* reach it (src-tauri/src/git/oauth/slot.rs), with the flow that claims it  *)
(* (run_sign_in in oauth/mod.rs) and the two commands over it                *)
(* (commands/auth.rs). Every access of the slot is one step under its mutex; *)
(* what a flow does between two of them, network included, is not.           *)
(***************************************************************************)
CONSTANT Flows  \* calls of provider_oauth_sign_in

VARIABLES
  starting, inProgress, canceled, committing,  \* SignInSlotState
  flow  \* where each call stands

slotVars == <<starting, inProgress, canceled, committing, flow>>

\* Holding the InProgressGuard, in the order a flow gets there.
ClaimedPhases == {"claimed", "asking", "waiting", "authorized", "committing"}
Pending == {"armed"} \cup ClaimedPhases
Phases == Pending \cup {"idle", "busy", "failed", "stored"}

Claimed(f) == flow[f] \in ClaimedPhases
IsPending(f) == flow[f] \in Pending

Moves(f, from, to) == flow[f] = from /\ flow' = [flow EXCEPT ![f] = to]

\* provider_oauth_sign_in, before its worker is scheduled.
Arm(f) ==
  /\ Moves(f, "idle", "armed")
  /\ starting' = TRUE
  /\ UNCHANGED <<inProgress, canceled, committing>>

ClaimRefused(f) ==
  /\ inProgress
  /\ Moves(f, "armed", "busy")
  /\ UNCHANGED <<starting, inProgress, canceled, committing>>

\* A Cancel came before the worker: consume it and do not start.
ClaimCanceled(f) ==
  /\ ~inProgress /\ canceled
  /\ Moves(f, "armed", "failed")
  /\ starting' = FALSE
  /\ canceled' = FALSE
  /\ UNCHANGED <<inProgress, committing>>

\* Mutation: the slot is taken without looking whether it is taken.
ClaimTaken(f) ==
  /\ ~canceled
  /\ Moves(f, "armed", "claimed")
  /\ starting' = FALSE
  /\ inProgress' = TRUE
  /\ committing' = FALSE
  /\ UNCHANGED canceled

\* Mutation: a Cancel that came before the worker is overlooked.
ClaimAnyway(f) ==
  /\ ~inProgress
  /\ Moves(f, "armed", "claimed")
  /\ starting' = FALSE
  /\ inProgress' = TRUE
  /\ canceled' = FALSE
  /\ committing' = FALSE

Claim(f) ==
  /\ ~inProgress /\ ~canceled
  /\ Moves(f, "armed", "claimed")
  /\ starting' = FALSE
  /\ inProgress' = TRUE
  /\ committing' = FALSE
  /\ UNCHANGED canceled

\* The last check before the page the user authorizes on is requested.
AsksForPage(f) ==
  /\ ~canceled
  /\ Moves(f, "claimed", "asking")
  /\ UNCHANGED <<starting, inProgress, canceled, committing>>

\* Its address is sent to the window, which opens it.
PageOpens(f) ==
  /\ Moves(f, "asking", "waiting")
  /\ UNCHANGED <<starting, inProgress, canceled, committing>>

\* The user authorized, and the flow looked once more for a Cancel.
Authorized(f) ==
  /\ ~canceled
  /\ Moves(f, "waiting", "authorized")
  /\ UNCHANGED <<starting, inProgress, canceled, committing>>

\* Mutation: the account was resolved, so the token is stored regardless.
BeginCommitAnyway(f) ==
  /\ Moves(f, "authorized", "committing")
  /\ committing' = TRUE
  /\ UNCHANGED <<starting, inProgress, canceled>>

BeginCommit(f) ==
  /\ ~canceled
  /\ Moves(f, "authorized", "committing")
  /\ committing' = TRUE
  /\ UNCHANGED <<starting, inProgress, canceled>>

\* Mutation: the guard forgets the Cancel it leaves behind.
GuardDropsKeepingCancel ==
  /\ starting' = FALSE
  /\ inProgress' = FALSE
  /\ committing' = FALSE
  /\ UNCHANGED canceled

\* The flow returns and its InProgressGuard is dropped.
GuardDrops ==
  /\ starting' = FALSE
  /\ inProgress' = FALSE
  /\ canceled' = FALSE
  /\ committing' = FALSE

Stores(f) == Moves(f, "committing", "stored") /\ GuardDrops

\* Refused, denied, expired, timed out, canceled, or the keychain failed.
Fails(f) ==
  /\ Claimed(f)
  /\ flow' = [flow EXCEPT ![f] = "failed"]
  /\ GuardDrops

\* cancel_sign_in answers Ok; it answers Err, changing nothing, while committing.
CancelAccepted ==
  /\ ~committing
  /\ canceled' = (canceled \/ starting \/ inProgress)
  /\ UNCHANGED <<starting, inProgress, committing, flow>>

Init ==
  /\ starting = FALSE /\ inProgress = FALSE /\ canceled = FALSE /\ committing = FALSE
  /\ flow = [f \in Flows |-> "idle"]

\* run_sign_in up to the keychain.
Worker(f) ==
  \/ ClaimRefused(f) \/ ClaimCanceled(f) \/ Claim(f)
  \/ AsksForPage(f) \/ PageOpens(f) \/ Authorized(f)
  \/ BeginCommit(f) \/ Fails(f)

Next == CancelAccepted \/ \E f \in Flows : Arm(f) \/ Worker(f) \/ Stores(f)

Spec == Init /\ [][Next]_slotVars

-----------------------------------------------------------------------------
(* Properties, for any number of calls at once.                              *)

\* The flags are Booleans, a Cancel is on record only while there is something to
\* cancel, and each call stands at one of its phases.
TypeOK ==
  /\ {starting, inProgress, committing} \subseteq BOOLEAN
  /\ canceled \in {FALSE, starting \/ inProgress}
  /\ flow \in [Flows -> Phases]

\* Two sign-ins never run at once, whatever order their workers are scheduled in.
OneFlow == \A f, g \in Flows : Claimed(f) /\ Claimed(g) => f = g

\* Once every call is over the slot is as new: a late Cancel, a refused call or a
\* failure leaves nothing behind that could fail or block the next sign-in.
SlotIsClean ==
  (\A f \in Flows : ~IsPending(f)) =>
    ~starting /\ ~inProgress /\ ~canceled /\ ~committing

\* A Cancel the running flow's slot has recorded is never lost to another call
\* arming, claiming or failing: the flow can only fail, and stores no token.
RecordedCancelWins ==
  [][\A f \in Flows : Claimed(f) /\ canceled =>
       (Claimed(f)' /\ flow[f]' # "committing" /\ canceled') \/ flow[f]' = "failed"]_slotVars
=============================================================================
