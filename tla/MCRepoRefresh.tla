--------------------------- MODULE MCRepoRefresh ---------------------------
(***************************************************************************)
(* Small instances of RepoRefresh: one repository, opened, closed, deleted   *)
(* and opened again, so that every path comparison is the hardest one.       *)
(***************************************************************************)
EXTENDS RepoRefresh, TLC

CONSTANTS a
=============================================================================
