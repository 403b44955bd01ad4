-------------------------- MODULE MCWorktreeHandoff --------------------------
EXTENDS WorktreeHandoff, TLC
CONSTANTS v, w, b, c, x, y
HomeOf == (v :> b) @@ (w :> c)

\* The changes play the same part, and so do the worktrees with their branches.
Alike == Permutations({x, y}) \cup {(v :> w) @@ (w :> v) @@ (b :> c) @@ (c :> b)}
=============================================================================
