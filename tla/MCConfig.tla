------------------------------ MODULE MCConfig ------------------------------
(* Small instances of Config for TLC.                                      *)
EXTENDS Config, TLC

Symmetry == Permutations(Configs) \cup Permutations(Keys)

=============================================================================
