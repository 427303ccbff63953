------------------------------ MODULE Descent -------------------------------
(* What a method has left to do, as three numbers: each step of it makes    *)
(* one of them smaller and none before that one bigger.                     *)
EXTENDS Naturals

Before(x, y) ==
    \/ x[1] < y[1]
    \/ x[1] = y[1] /\ x[2] < y[2]
    \/ x[1] = y[1] /\ x[2] = y[2] /\ x[3] < y[3]

=============================================================================
