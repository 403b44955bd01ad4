-------------------------- MODULE MCCommitIdentity --------------------------
(***************************************************************************)
(* Small instances of CommitIdentity.                                        *)
(***************************************************************************)
EXTENDS CommitIdentity, TLC

CONSTANTS a, b, main

CardA == 1 :> a
\* One repository with one worktree, whose config names card a.
OneTree == main :> 1
=============================================================================
