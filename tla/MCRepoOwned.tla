---------------------------- MODULE MCRepoOwned ----------------------------
(* Small instances of RepoOwned for TLC.                                   *)
EXTENDS RepoOwned, TLC

Symmetry ==
    Permutations(Repos) \cup Permutations(Indexes) \cup Permutations(Handles)

=============================================================================
