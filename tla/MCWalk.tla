------------------------------- MODULE MCWalk -------------------------------
(* A small instance of Walk for TLC: linear histories of up to three commits *)
(* and a uint64_t that wraps around at 6.                                    *)
EXTENDS Walk

LinearHistories == {<<>>, <<1>>, <<1, 2>>, <<1, 2, 3>>}

=============================================================================
