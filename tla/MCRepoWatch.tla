---------------------------- MODULE MCRepoWatch ----------------------------
(***************************************************************************)
(* Small instances of RepoWatch: two worktrees v and w that may belong to    *)
(* one repository, whose common directory is c, or stand alone.              *)
(***************************************************************************)
EXTENDS RepoWatch, TLC

CONSTANTS v, w, c

\* The two worktrees play the same part.
Alike == Permutations(Paths)
=============================================================================
