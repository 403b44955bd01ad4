--------------------------- MODULE ProviderSignIn ---------------------------
(***************************************************************************)
(* A native provider sign-in from the dialog to the keychain: the run hook   *)
(* (useProviderOauthRun.ts), the store actions it awaits (accounts/oauth.ts) *)
(* and the backend flow. Extends SignInSlot: a flow is a press of Sign in,   *)
(* and the steps of the slot become parts of its run. All runs sign in on    *)
(* one host: they share one entry of providerTokens. A sign-out of that      *)
(* entry (accounts/credentials.ts) runs beside them.                         *)
(*                                                                           *)
(* One step is what runs between two awaits. Deleting a token and reacting   *)
(* to the answer is one step of a run, two of a sign-out.                    *)
(***************************************************************************)
EXTENDS SignInSlot, Naturals

CONSTANTS
  Accounts,     \* who the user may authorize as
  None,
  MaxSignOuts   \* bound on the sign-outs of a behaviour

ASSUME SignInAssumption ==
  /\ MaxSignOuts \in Nat
  /\ None \notin Flows \cup Accounts

VARIABLES
  active,    \* activeProviderOauthRun
  stage,     \* where each run awaits
  cancel,    \* cancelDecision of each run: its Cancel and the answer to it
  account,   \* whom the flow of each run stored a token for
  binds,     \* the runs that were asked to pin a remote
  prior,     \* priorRemoteUsername
  lastPin,   \* lastOauthRemotePin: the run whose pin may be rolled back
  remote,    \* user name in the URL of the remote: "own" or the shared "sentinel"
  entry,     \* the entry of the host in providerTokens, and the run that made it
  keychain,  \* accounts with a token in the OS keychain
  signOut,   \* the sign-out in flight and the account it captured
  signOuts,  \* sign-outs begun
  heard,     \* history: phase of the flow when a Cancel of the run was answered
  stray      \* history: tokens left without an entry by a failure or a sign-out

frontVars == <<active, stage, cancel, account, binds, prior, lastPin>>
storedVars == <<remote, entry, keychain>>
outVars == <<signOut, signOuts>>
histVars == <<heard, stray>>
vars == <<slotVars, frontVars, storedVars, outVars, histVars>>

Stages == {"idle", "listening", "probing", "backend", "replacing", "undoing", "pinning",
           "returned", "unpinning", "relisting", "deleting", "failing", "over"}

NoEntry == [account |-> None, run |-> None]
NoSignOut == [at |-> "idle", account |-> None]

Steps(r, from, to) == stage[r] = from /\ stage' = [stage EXCEPT ![r] = to]

\* The run ends and, in its finally, lets the next one start.
Ends(r, from) == Steps(r, from, "over") /\ active' = None

\* The run waits for the answer to its Cancel, if it asked.
Decided(r) == cancel[r] # "asked"

-----------------------------------------------------------------------------
(* start and signInProviderOauth.                                            *)

\* Mutation: each dialog looks only at its own latch.
StartUnlatched(r) ==
  /\ Steps(r, "idle", "listening")
  /\ active' = r
  /\ \E asked \in BOOLEAN :
       /\ binds' = IF asked THEN binds \cup {r} ELSE binds
       /\ prior' = [prior EXCEPT ![r] = IF asked THEN remote ELSE "own"]
  /\ UNCHANGED <<slotVars, storedVars, outVars, histVars, cancel, account, lastPin>>

Start(r) ==
  /\ active = None
  /\ Steps(r, "idle", "listening")
  /\ active' = r
  /\ \E asked \in BOOLEAN :
       /\ binds' = IF asked THEN binds \cup {r} ELSE binds
       /\ prior' = [prior EXCEPT ![r] = IF asked THEN remote ELSE "own"]
  /\ UNCHANGED <<slotVars, storedVars, outVars, histVars, cancel, account, lastPin>>

\* Mutation: the listener fails outside the try that releases the owner.
ListenFailsOutside(r) ==
  /\ Steps(r, "listening", "over")
  /\ UNCHANGED <<slotVars, storedVars, outVars, histVars, active, cancel, account, binds, prior, lastPin>>

ListenFails(r) ==
  /\ Steps(r, "listening", "failing")
  /\ UNCHANGED <<slotVars, storedVars, outVars, histVars, active, cancel, account, binds, prior, lastPin>>

Listens(r) ==
  /\ Steps(r, "listening", "probing")
  /\ lastPin' = None
  /\ UNCHANGED <<slotVars, storedVars, outVars, histVars, active, cancel, account, binds, prior>>

Invokes(r) ==
  /\ Steps(r, "probing", "backend")
  /\ UNCHANGED <<slotVars, storedVars, outVars, histVars, active, cancel, account, binds, prior, lastPin>>

\* The command and its worker. The user may authorize as anyone.
BackendArms(r) ==
  /\ stage[r] = "backend"
  /\ Arm(r)
  /\ UNCHANGED <<frontVars, storedVars, outVars, histVars>>

BackendRuns(r) ==
  /\ stage[r] = "backend"
  /\ Worker(r)
  /\ UNCHANGED <<frontVars, storedVars, outVars, histVars>>

BackendStores(r) ==
  /\ stage[r] = "backend"
  /\ Stores(r)
  /\ \E a \in Accounts :
       /\ account' = [account EXCEPT ![r] = a]
       /\ keychain' = keychain \cup {a}
       /\ stray' = stray \ {a}
  /\ UNCHANGED <<active, stage, cancel, binds, prior, lastPin, remote, entry, outVars, heard>>

SignInFails(r) ==
  /\ flow[r] \in {"failed", "busy"}
  /\ Steps(r, "backend", "failing")
  /\ UNCHANGED <<slotVars, storedVars, outVars, histVars, active, cancel, account, binds, prior, lastPin>>

\* The entry is written and the remote, if any, is about to be pinned.
Records(r, from) ==
  /\ Steps(r, from, IF r \in binds THEN "pinning" ELSE "returned")
  /\ entry' = [account |-> account[r], run |-> r]

\* Mutation: the entry is written without a look at the one it replaces.
SupersedesNone(r) == FALSE

\* Another account's entry is in the way: its token goes first.
Supersedes(r) == entry # NoEntry /\ entry.account # account[r]

SignInSucceeds(r) ==
  /\ flow[r] = "stored"
  /\ IF Supersedes(r)
     THEN Steps(r, "backend", "replacing") /\ UNCHANGED entry
     ELSE Records(r, "backend")
  /\ UNCHANGED <<slotVars, remote, keychain, outVars, histVars>>
  /\ UNCHANGED <<active, cancel, account, binds, prior, lastPin>>

\* A sign-out that removed the entry meanwhile has deleted its token already.
OldTokenGoes(r) ==
  /\ Records(r, "replacing")
  /\ keychain' = keychain \ {entry.account}
  /\ UNCHANGED <<slotVars, remote, outVars, histVars>>
  /\ UNCHANGED <<active, cancel, account, binds, prior, lastPin>>

OldTokenStays(r) ==
  /\ Steps(r, "replacing", "undoing")
  /\ UNCHANGED <<slotVars, storedVars, outVars, histVars, active, cancel, account, binds, prior, lastPin>>

\* The token the backend just wrote is deleted again, or stays as well.
NewTokenUndone(r) ==
  /\ Steps(r, "undoing", "failing")
  /\ \/ keychain' = keychain \ {account[r]} /\ UNCHANGED stray
     \/ stray' = stray \cup {account[r]} /\ UNCHANGED keychain
  /\ UNCHANGED <<slotVars, remote, entry, outVars, heard>>
  /\ UNCHANGED <<active, cancel, account, binds, prior, lastPin>>

Pins(r) ==
  /\ remote' = "sentinel"
  /\ lastPin' = r
  /\ \/ Steps(r, "pinning", "returned")
     \/ Steps(r, "pinning", "failing")   \* reading the remotes back failed
  /\ UNCHANGED <<slotVars, entry, keychain, outVars, histVars, active, cancel, account, binds, prior>>

PinFails(r) ==
  /\ Steps(r, "pinning", "failing")
  /\ UNCHANGED <<slotVars, storedVars, outVars, histVars, active, cancel, account, binds, prior, lastPin>>

-----------------------------------------------------------------------------
(* The end of a run, and the rollback of one canceled too late to stop it.   *)

RunFails(r) ==
  /\ Decided(r)
  /\ Ends(r, "failing")
  /\ UNCHANGED <<slotVars, storedVars, outVars, histVars, cancel, account, binds, prior, lastPin>>

RunSucceeds(r) ==
  /\ cancel[r] \in {"none", "refused"}
  /\ Ends(r, "returned")
  /\ UNCHANGED <<slotVars, storedVars, outVars, histVars, cancel, account, binds, prior, lastPin>>

\* The token is deleted only while the entry is the one this run wrote.
DeletesOrEnds(r, from) ==
  IF entry.run = r
  THEN Steps(r, from, "deleting") /\ UNCHANGED active
  ELSE Ends(r, from)

RollsBack(r) ==
  /\ cancel[r] = "accepted"
  /\ IF r \in binds /\ lastPin = r
     THEN Steps(r, "returned", "unpinning") /\ UNCHANGED active
     ELSE DeletesOrEnds(r, "returned")
  /\ UNCHANGED <<slotVars, storedVars, outVars, histVars, cancel, account, binds, prior, lastPin>>

Unpins(r) ==
  /\ Steps(r, "unpinning", "relisting")
  /\ remote' = prior[r]
  /\ lastPin' = None
  /\ UNCHANGED <<slotVars, entry, keychain, outVars, histVars, active, cancel, account, binds, prior>>

RemotesListed(r) ==
  /\ DeletesOrEnds(r, "relisting")
  /\ UNCHANGED <<slotVars, storedVars, outVars, histVars, cancel, account, binds, prior, lastPin>>

UnpinFails(r) ==
  /\ Ends(r, "unpinning")
  /\ UNCHANGED <<slotVars, storedVars, outVars, histVars, cancel, account, binds, prior, lastPin>>

TokenDeleted(r) ==
  /\ Ends(r, "deleting")
  /\ keychain' = keychain \ {account[r]}
  /\ entry' = IF entry.run = r THEN NoEntry ELSE entry
  /\ UNCHANGED <<slotVars, remote, outVars, histVars, cancel, account, binds, prior, lastPin>>

TokenStays(r) ==
  /\ Ends(r, "deleting")
  /\ UNCHANGED <<slotVars, storedVars, outVars, histVars, cancel, account, binds, prior, lastPin>>

-----------------------------------------------------------------------------
(* Cancel, by the dialog of the run or by closing it: once per run.          *)

AskCancel(r) ==
  /\ stage[r] \in {"listening", "probing", "backend", "replacing", "undoing", "pinning"}
  /\ cancel[r] = "none"
  /\ cancel' = [cancel EXCEPT ![r] = "asked"]
  /\ UNCHANGED <<slotVars, storedVars, outVars, histVars>>
  /\ UNCHANGED <<active, stage, account, binds, prior, lastPin>>

Answered(r, answer) ==
  /\ cancel[r] = "asked"
  /\ cancel' = [cancel EXCEPT ![r] = answer]
  /\ heard' = [heard EXCEPT ![r] = flow[r]]
  /\ UNCHANGED <<storedVars, outVars, stray, active, stage, account, binds, prior, lastPin>>

CancelAnswered(r) ==
  \/ Answered(r, "accepted") /\ CancelAccepted
  \/ Answered(r, "refused") /\ committing /\ UNCHANGED slotVars

-----------------------------------------------------------------------------
(* signOutProviderToken.                                                     *)

SignOutBegins ==
  /\ signOut = NoSignOut /\ signOuts < MaxSignOuts
  /\ entry # NoEntry
  /\ signOut' = [at |-> "deleting", account |-> entry.account]
  /\ signOuts' = signOuts + 1
  /\ UNCHANGED <<slotVars, frontVars, storedVars, histVars>>

SignOutDeletes ==
  /\ signOut.at = "deleting"
  /\ keychain' = keychain \ {signOut.account}
  /\ signOut' = [signOut EXCEPT !.at = "answered"]
  /\ UNCHANGED <<slotVars, frontVars, remote, entry, signOuts, histVars>>

SignOutFails ==
  /\ signOut.at = "deleting"
  /\ signOut' = NoSignOut
  /\ UNCHANGED <<slotVars, frontVars, storedVars, signOuts, histVars>>

\* Whatever the entry has become since the sign-out captured its account.
SignOutEnds ==
  /\ signOut.at = "answered"
  /\ entry' = NoEntry
  /\ stray' = stray \cup ({entry.account} \cap keychain)
  /\ signOut' = NoSignOut
  /\ UNCHANGED <<slotVars, frontVars, remote, keychain, signOuts, heard>>

-----------------------------------------------------------------------------
SignInInit ==
  /\ Init
  /\ active = None
  /\ stage = [r \in Flows |-> "idle"]
  /\ cancel = [r \in Flows |-> "none"]
  /\ account = [r \in Flows |-> None]
  /\ binds = {}
  /\ prior = [r \in Flows |-> "own"]
  /\ lastPin = None
  /\ remote = "own"
  /\ entry = NoEntry
  /\ keychain = {}
  /\ signOut = NoSignOut
  /\ signOuts = 0
  /\ heard = [r \in Flows |-> "idle"]
  /\ stray = {}

\* What goes on by itself once a run has started: calls that answer or fail, and
\* a page the user leaves, which times out.
RunStep(r) ==
  \/ ListenFails(r) \/ Listens(r) \/ Invokes(r)
  \/ BackendArms(r) \/ BackendRuns(r) \/ BackendStores(r)
  \/ SignInFails(r) \/ SignInSucceeds(r)
  \/ OldTokenGoes(r) \/ OldTokenStays(r) \/ NewTokenUndone(r)
  \/ Pins(r) \/ PinFails(r)
  \/ RunFails(r) \/ RunSucceeds(r)
  \/ RollsBack(r) \/ Unpins(r) \/ RemotesListed(r) \/ UnpinFails(r)
  \/ TokenDeleted(r) \/ TokenStays(r)
  \/ CancelAnswered(r)

SignInNext ==
  \/ \E r \in Flows : Start(r) \/ AskCancel(r) \/ RunStep(r)
  \/ SignOutBegins \/ SignOutDeletes \/ SignOutFails \/ SignOutEnds

SignInSpec == SignInInit /\ [][SignInNext]_vars

FairSpec == SignInSpec /\ \A r \in Flows : WF_vars(RunStep(r))

-----------------------------------------------------------------------------
(* Properties.                                                               *)

\* The shape of the state; at most one run is between Start and its end.
SignInTypeOK ==
  /\ TypeOK
  /\ active \in Flows \cup {None}
  /\ stage \in [Flows -> Stages]
  /\ \A r \in Flows : active = r <=> stage[r] \notin {"idle", "over"}
  /\ cancel \in [Flows -> {"none", "asked", "accepted", "refused"}]
  /\ account \in [Flows -> Accounts \cup {None}]
  /\ binds \subseteq Flows
  /\ prior \in [Flows -> {"own", "sentinel"}]
  /\ lastPin \in Flows \cup {None}
  /\ remote \in {"own", "sentinel"}
  /\ entry = NoEntry \/ entry \in [account : Accounts, run : Flows]
  /\ keychain \cup stray \subseteq Accounts
  /\ signOut = NoSignOut \/ signOut \in [at : {"deleting", "answered"}, account : Accounts]
  /\ signOuts \in 0 .. MaxSignOuts
  /\ heard \in [Flows -> Phases]

\* The latch of the dialogs and the slot of the backend agree: no sign-in a dialog
\* was allowed to begin is turned away because another one still runs.
NeverBusy == \A r \in Flows : flow[r] # "busy"

\* A Cancel the backend accepted while the flow was pending and had not begun to
\* store its token keeps it from ever storing one.
CancelBeatsStore ==
  \A r \in Flows :
    cancel[r] = "accepted" /\ heard[r] \in Pending \ {"committing"} =>
      flow[r] \notin {"committing", "stored"}

\* With no sign-in running, a token in the keychain has the entry the user can sign
\* out with, but for those a failed undo or an overlapping sign-out is known to leave.
NoOrphanToken == active = None => keychain \subseteq {entry.account} \cup stray

\* Every run lets the next one start, whatever failed or was canceled in it.
RunEnds == \A r \in Flows : active = r ~> active # r
=============================================================================
