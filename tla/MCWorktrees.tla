---------------------------- MODULE MCWorktrees ----------------------------
(***************************************************************************)
(* Instances of Worktrees for TLC: two paths, and three branch names of    *)
(* which two are sanitized to the same path.                               *)
(***************************************************************************)
EXTENDS Worktrees, TLC

CONSTANTS path1, path2, feat_x, feat_x_slash, fix_y, client1, client2

MCPaths    == {path1, path2}
MCBranches == {feat_x, feat_x_slash, fix_y}
MCHandlers == {client1, client2}
MCDirOf    == (feat_x :> path1) @@ (feat_x_slash :> path1) @@ (fix_y :> path2)

HandlerSymmetry == Permutations(MCHandlers)

\* Bounds the search: sequences of four requests, but once the history is not
\* calm any more, only of two.
FewRequests == calm \/ requests <= 2

=============================================================================
