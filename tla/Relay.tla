------------------------------- MODULE Relay -------------------------------
(***************************************************************************)
(* What a Rugged method that runs blocks of the program from inside a call *)
(* of libgit2 promises.  The blocks run one after the other.  The first    *)
(* one that raises is the last one that runs, and the method then raises   *)
(* that same exception.  The method returns normally, or raises an error   *)
(* of its own or of libgit2, only if no block has raised.                  *)
(***************************************************************************)
EXTENDS Naturals

VARIABLES
    calls,      \* how many times a block has run
    failing,    \* whether a block has raised
    outcome     \* of the method: "pending", "returned", "raised" or "failed"

relayVars == <<calls, failing, outcome>>

Outcomes == {"pending", "returned", "raised", "failed"}

Init ==
    /\ calls = 0
    /\ failing = FALSE
    /\ outcome = "pending"

\* libgit2 calls back and the block returns or raises.
Call ==
    /\ outcome = "pending"
    /\ ~failing
    /\ calls' = calls + 1
    /\ failing' \in BOOLEAN
    /\ UNCHANGED outcome

\* The method ends, with the exception of the block if there is one.
End ==
    /\ outcome = "pending"
    /\ outcome' \in IF failing THEN {"raised"} ELSE {"returned", "failed"}
    /\ UNCHANGED <<calls, failing>>

Next == Call \/ End

Spec == Init /\ [][Next]_relayVars

=============================================================================
