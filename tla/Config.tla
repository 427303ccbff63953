------------------------------- MODULE Config -------------------------------
(***************************************************************************)
(* Rugged::Config: reading, changing and #transaction, by several objects  *)
(* that are open on the same configuration file.                           *)
(*                                                                         *)
(* libgit2 locks the file with a "config.lock" beside it.  A change takes  *)
(* the lock for itself, or goes to a copy of the file when the object has  *)
(* taken the lock before (locked_content).  A reader looks at the file,    *)
(* never at such a copy.  Changes that raise because another object has    *)
(* the lock, or because the value has a wrong class, leave everything as   *)
(* it is and are no steps.  Each object is in a process of its own.        *)
(***************************************************************************)
EXTENDS Naturals, Sequences, SequencesExt

CONSTANTS
    Configs,    \* Rugged::Config objects open on the same file
    Keys,
    Values,
    Absent,     \* the value of a key that is not in the file
    Same,       \* in delta: a key the transaction has not changed
    Nobody,     \* the file is not locked
    Dead,       \* the lock of a process that has died
    MaxNested   \* bound: how deep transactions nest

ASSUME NamesAssumption ==
    /\ Nobody \notin Configs \cup {Dead}
    /\ Dead \notin Configs
    /\ Same \notin Values \cup {Absent}
ASSUME MaxNestedAssumption == MaxNested \in Nat

VARIABLES
    file,       \* the configuration file
    lock,       \* the object that has locked it
    copy,       \* that object's copy of the file, where its changes go
    delta,      \* the keys it has changed since it took the lock
    blocks,     \* the transactions of an object whose blocks are running
    result,     \* how its last transaction that had the lock ended
    seen,       \* what it has last read
    alive       \* the objects whose process runs

vars == <<file, lock, copy, delta, blocks, result, seen, alive>>

Contents == [Keys -> Values \cup {Absent}]
NoChange == [k \in Keys |-> Same]
Overlay(f, d) == [k \in Keys |-> IF d[k] = Same THEN f[k] ELSE d[k]]

TypeOK ==
    /\ file \in Contents
    /\ lock \in Configs \cup {Nobody, Dead}
    /\ copy \in Contents
    /\ delta \in [Keys -> Values \cup {Absent, Same}]
    /\ blocks \in [Configs -> Seq({"locked", "unlocked"})]
    /\ result \in [Configs -> {"none", "returned", "raised"}]
    /\ seen \in [Configs -> Contents]
    /\ alive \subseteq Configs

Init ==
    /\ file \in Contents
    /\ lock = Nobody
    /\ copy = file
    /\ delta = NoChange
    /\ blocks = [c \in Configs |-> <<>>]
    /\ result = [c \in Configs |-> "none"]
    /\ seen = [c \in Configs |-> file]
    /\ alive = Configs

-----------------------------------------------------------------------------
(* Reading: config[key], config.to_hash and each_pair, config.snapshot.     *)

Get(c, k) ==
    /\ c \in alive
    /\ seen' = [seen EXCEPT ![c][k] = file[k]]
    /\ UNCHANGED <<file, lock, copy, delta, blocks, result, alive>>

Snapshot(c) ==
    /\ c \in alive
    /\ seen' = [seen EXCEPT ![c] = file]
    /\ UNCHANGED <<file, lock, copy, delta, blocks, result, alive>>

-----------------------------------------------------------------------------
(* Changing: config[key] = value, and config.delete(key) with v absent.     *)

\* libgit2 writes the file itself, under a lock of its own.
StoreInFile(c, k, v) ==
    /\ c \in alive
    /\ lock = Nobody
    /\ file' = [file EXCEPT ![k] = v]
    /\ UNCHANGED <<lock, copy, delta, blocks, result, seen, alive>>

\* Mutant: the change is written through to the file.
StoreInCopy_Through(c, k, v) ==
    /\ c \in alive
    /\ lock = c
    /\ file' = [file EXCEPT ![k] = v]
    /\ copy' = [copy EXCEPT ![k] = v]
    /\ delta' = [delta EXCEPT ![k] = v]
    /\ UNCHANGED <<lock, blocks, result, seen, alive>>

\* The object has locked the file: the change waits for the commit.
StoreInCopy(c, k, v) ==
    /\ c \in alive
    /\ lock = c
    /\ copy' = [copy EXCEPT ![k] = v]
    /\ delta' = [delta EXCEPT ![k] = v]
    /\ UNCHANGED <<file, lock, blocks, result, seen, alive>>

-----------------------------------------------------------------------------
(* config.transaction { ... }                                               *)

\* git_config_lock succeeds and the block begins.
Begin(c) ==
    /\ c \in alive
    /\ Len(blocks[c]) < MaxNested
    /\ lock = Nobody
    /\ lock' = c
    /\ copy' = file
    /\ delta' = NoChange
    /\ blocks' = [blocks EXCEPT ![c] = Append(@, "locked")]
    /\ UNCHANGED <<file, result, seen, alive>>

\* git_config_lock fails, which nobody looks at, and the block begins.
BeginUnlocked(c) ==
    /\ c \in alive
    /\ Len(blocks[c]) < MaxNested
    /\ lock # Nobody
    /\ blocks' = [blocks EXCEPT ![c] = Append(@, "unlocked")]
    /\ UNCHANGED <<file, lock, copy, delta, result, seen, alive>>

Inside(c, mode) == c \in alive /\ blocks[c] # <<>> /\ Last(blocks[c]) = mode

\* Mutant: the result of the block is not looked at before the commit.
EndBlock_CommitAlways(c, raises) ==
    /\ Inside(c, "locked")
    /\ blocks' = [blocks EXCEPT ![c] = Front(@)]
    /\ lock' = Nobody
    /\ file' = copy
    /\ result' = [result EXCEPT ![c] = IF raises THEN "raised" ELSE "returned"]
    /\ UNCHANGED <<copy, delta, seen, alive>>

\* Mutant: git_transaction_free is skipped when the exception is raised again.
EndBlock_NotFreed(c, raises) ==
    /\ Inside(c, "locked")
    /\ blocks' = [blocks EXCEPT ![c] = Front(@)]
    /\ lock' = IF raises THEN lock ELSE Nobody
    /\ file' = IF raises THEN file ELSE copy
    /\ result' = [result EXCEPT ![c] = IF raises THEN "raised" ELSE "returned"]
    /\ UNCHANGED <<copy, delta, seen, alive>>

\* The block of a transaction with the lock ends.  It is committed if the
\* block has not raised, by renaming the lock file, and freed in any case.
EndBlock(c, raises) ==
    /\ Inside(c, "locked")
    /\ blocks' = [blocks EXCEPT ![c] = Front(@)]
    /\ lock' = Nobody
    /\ file' = IF raises THEN file ELSE copy
    /\ result' = [result EXCEPT ![c] = IF raises THEN "raised" ELSE "returned"]
    /\ UNCHANGED <<copy, delta, seen, alive>>

\* The commit fails; the transaction is freed and the method raises.
CommitFails(c) ==
    /\ Inside(c, "locked")
    /\ blocks' = [blocks EXCEPT ![c] = Front(@)]
    /\ lock' = Nobody
    /\ result' = [result EXCEPT ![c] = "raised"]
    /\ UNCHANGED <<file, copy, delta, seen, alive>>

\* The block of a transaction without the lock ends: commit and free are given
\* a pointer that was never set.  The process dies (Die) or the method ends.
EndUnlocked(c) ==
    /\ Inside(c, "unlocked")
    /\ blocks' = [blocks EXCEPT ![c] = Front(@)]
    /\ UNCHANGED <<file, lock, copy, delta, result, seen, alive>>

\* The process of c dies at any time.  Its lock file stays.
Die(c) ==
    /\ c \in alive
    /\ alive' = alive \ {c}
    /\ lock' = IF lock = c THEN Dead ELSE lock
    /\ blocks' = [blocks EXCEPT ![c] = <<>>]
    /\ UNCHANGED <<file, copy, delta, result, seen>>

Next ==
    \E c \in Configs :
        \/ Snapshot(c)
        \/ Begin(c) \/ BeginUnlocked(c)
        \/ \E raises \in BOOLEAN : EndBlock(c, raises)
        \/ CommitFails(c) \/ EndUnlocked(c) \/ Die(c)
        \/ \E k \in Keys :
            \/ Get(c, k)
            \/ \E v \in Values \cup {Absent} : StoreInFile(c, k, v) \/ StoreInCopy(c, k, v)

Spec == Init /\ [][Next]_vars

-----------------------------------------------------------------------------
(* Properties                                                               *)

\* The lock is held by an object exactly while the block of one of its
\* transactions runs that took it, so a transaction that has ended, however it
\* ended, locks nobody out (git_transaction_free on every path).
LockHeldInBlock ==
    \A c \in Configs :
        /\ lock = c <=> \E i \in 1 .. Len(blocks[c]) : blocks[c][i] = "locked"
        /\ \A i, j \in 1 .. Len(blocks[c]) :
              blocks[c][i] = "locked" /\ blocks[c][j] = "locked" => i = j

\* What a transaction will commit is the file, as it is now, with its changes:
\* nothing that another object has written in the meantime is lost.
CopyUpToDate == lock \in Configs => copy = Overlay(file, delta)

\* The transactions that have the lock are atomic for every reader.
Atomic == INSTANCE AtomicConfig WITH open <- lock

AtomicSpec == Atomic!Spec

=============================================================================
