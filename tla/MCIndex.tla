------------------------------ MODULE MCIndex ------------------------------
(* A small instance of Index for TLC: each of two paths has no entry, one,   *)
(* or a conflict, and its file is there or not.                              *)
EXTENDS Index

AtPath(p) ==
    {{}, {IndexEntry(p, 0, "old")}, {IndexEntry(p, 2, "old"), IndexEntry(p, 3, "old")}}

SmallLoads == {A \cup B : A \in AtPath(1), B \in AtPath(2)}

SmallFiles == [Paths -> {"new", None}]

=============================================================================
