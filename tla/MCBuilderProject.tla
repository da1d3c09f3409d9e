--------------------------- MODULE MCBuilderProject ---------------------------
(***************************************************************************)
(* Instance of BuilderProject for TLC: two owners who reach three epochs and    *)
(* may both use the one session id, and a repository with two commits.  The      *)
(* owners and the commits are interchangeable.                                   *)
(***************************************************************************)
EXTENDS BuilderProject, TLC

Interchangeable == Permutations(Owners) \cup Permutations(Commits)
=============================================================================
