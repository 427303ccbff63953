---------------------------- MODULE MCReferences ----------------------------
(* A small instance of References for TLC: HEAD, one local branch and the    *)
(* remote-tracking branch of the same name.  The first process uses          *)
(* repo.branches, keeps the objects it is given and uses them again; the     *)
(* second one changes the references under it.                               *)
EXTENDS References, TLC

CONSTANTS p1, p2, a, b

TwoCallers == {p1, p2}
LocalX == Local(<<"x">>)

SomeMethods ==
    p1 :> {"references"} \X {"rename"}
          \cup {"branches"} \X {"aref", "exist", "delete", "create"}
    @@ p2 :> {"references"} \X {"create", "delete", "update"}

SomeNames == {HEAD, LocalX, RemoteTracking(<<"x">>)}
ShortAndFull == {<<"x">>, LocalX}
OneTarget == {LocalX}

Symmetry == Permutations({a, b})

=============================================================================
