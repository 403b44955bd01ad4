----------------------------- MODULE RepoScreen -----------------------------
(***************************************************************************)
(* What opening repositories promises the user, with no tabs, leases or     *)
(* answers in flight: one screen, at most one pending pick, and a           *)
(* repository comes on screen only as the landing of the pending pick.      *)
(* RepoNavigation implements it, and RepoRefresh runs its reads and writes  *)
(* against it.                                                              *)
(***************************************************************************)
EXTENDS Naturals

CONSTANTS Picks, Canon, None

VARIABLES
  shown,     \* the repository on screen, or None
  missing,   \* the path on the missing-repository screen, or None
  pending,   \* the pick the spinner stands for, or None
  session,   \* how many times the screen was given to another repository
  intent     \* how many opens were begun

screenVars == <<shown, missing, pending, session, intent>>

Init == shown = None /\ missing = None /\ pending = None /\ session = 0 /\ intent = 0

\* A newer pick replaces the pending one.
Claim(p) == pending' = p /\ intent' = intent + 1

\* The pending pick stays, or was cancelled, closed or answered.
Keep == pending' \in {pending, None} /\ UNCHANGED intent

Ask(p) == Claim(p) /\ UNCHANGED <<shown, missing, session>>

\* Cancelled, failed or closed: the screen stays as it is.
Forget == pending' = None /\ UNCHANGED <<shown, missing, session, intent>>

Land ==
  /\ pending # None
  /\ shown' = Canon[pending]
  /\ missing' = None
  /\ pending' = None
  /\ session' = session + 1
  /\ UNCHANGED intent

\* Only what was asked for, or what is shown, can turn out to be missing.
GoMissing(p) ==
  /\ p # None
  /\ p \in {shown, pending}
  /\ shown' = None
  /\ missing' = p
  /\ session' = session + 1
  /\ Keep

\* The tab on screen was closed or its worktree is gone, perhaps for another.
Leave ==
  /\ shown' = None
  /\ missing' = None
  /\ session' \in {session, session + 1}
  /\ shown # None => session' = session + 1
  /\ Keep \/ \E p \in Picks : Claim(p)

Next ==
  \/ \E p \in Picks : Ask(p) \/ GoMissing(p)
  \/ Forget
  \/ Land
  \/ Leave

Spec == Init /\ [][Next]_screenVars
=============================================================================
