-------------------------- MODULE MCRepoNavigation --------------------------
(***************************************************************************)
(* Small instances of RepoNavigation: a standalone repository a with a      *)
(* linked worktree w and a spelling l that opens a, and a second            *)
(* repository b.                                                            *)
(***************************************************************************)
EXTENDS RepoNavigation, TLC

CONSTANTS a, b, w, l

\* w is a worktree of a; l is a symlink or subdirectory open_repo resolves to a.
MCCanon == [p \in Picks |-> IF p = l THEN a ELSE p]
MCMainOf == [p \in Picks |-> IF p = w THEN a ELSE None]

\* No stored session, or the worktree's tab restored alone or with its parent.
FreshLaunch == {[strip |-> {}, last |-> None]}
RestoredLaunches ==
  {[strip |-> {}, last |-> a], [strip |-> {a, w}, last |-> w],
   [strip |-> {a, w}, last |-> a]}
=============================================================================
