---------------------------- MODULE MCWorktree ------------------------------
EXTENDS Worktree, TLC

CONSTANTS c1, c2, f1, f2, p1, x, y, none, main, topic, origin

\* The commits differ in one file, and only one of them has the other.
MCTreeOf == c1 :> (f1 :> x @@ f2 :> none) @@ c2 :> (f1 :> y @@ f2 :> x)

\* Local branches differ in nothing but their names.
LocalsSymmetry == Permutations(Locals)

AllKinds == {"head", "branch", "object", "commit"}
CommitKinds == {"commit"}

=============================================================================
