---------------------------- MODULE AtomicConfig ----------------------------
(***************************************************************************)
(* What Rugged::Config#transaction promises: a configuration file whose    *)
(* readers see all the changes of a transaction or none.  While one is     *)
(* open nothing else changes the file; the changes take effect in one step *)
(* when the block returns, and none of them does when it raises.           *)
(***************************************************************************)
CONSTANTS
    Configs,    \* Rugged::Config objects open on the same file
    Keys,
    Values,
    Absent,     \* the value of a key that is not in the file
    Same,       \* in delta: a key the transaction does not change
    Nobody,     \* no transaction is open
    Dead        \* the transaction of a process that has died is open for ever

VARIABLES
    file,       \* the contents of the file
    open,       \* the object whose transaction is open
    delta,      \* what that transaction has changed
    result,     \* how an object's last transaction ended
    seen        \* what an object has last read

atomicVars == <<file, open, delta, result, seen>>

Contents == [Keys -> Values \cup {Absent}]
NoChange == [k \in Keys |-> Same]
Overlay(f, d) == [k \in Keys |-> IF d[k] = Same THEN f[k] ELSE d[k]]

Init ==
    /\ file \in Contents
    /\ open = Nobody
    /\ delta = NoChange
    /\ result = [c \in Configs |-> "none"]
    /\ seen = [c \in Configs |-> file]

Change(k, v) ==
    /\ open = Nobody
    /\ file' = [file EXCEPT ![k] = v]
    /\ UNCHANGED <<open, delta, result, seen>>

Open(c) ==
    /\ open = Nobody
    /\ open' = c
    /\ delta' = NoChange
    /\ UNCHANGED <<file, result, seen>>

ChangeInside(c, k, v) ==
    /\ open = c
    /\ delta' = [delta EXCEPT ![k] = v]
    /\ UNCHANGED <<file, open, result, seen>>

Commit(c) ==
    /\ open = c
    /\ file' = Overlay(file, delta)
    /\ open' = Nobody
    /\ result' = [result EXCEPT ![c] = "returned"]
    /\ UNCHANGED <<delta, seen>>

Abort(c) ==
    /\ open = c
    /\ open' = Nobody
    /\ result' = [result EXCEPT ![c] = "raised"]
    /\ UNCHANGED <<file, delta, seen>>

Die(c) ==
    /\ open = c
    /\ open' = Dead
    /\ UNCHANGED <<file, delta, result, seen>>

ReadKey(c, k) ==
    /\ seen' = [seen EXCEPT ![c][k] = file[k]]
    /\ UNCHANGED <<file, open, delta, result>>

ReadAll(c) ==
    /\ seen' = [seen EXCEPT ![c] = file]
    /\ UNCHANGED <<file, open, delta, result>>

Next ==
    \/ \E k \in Keys, v \in Values \cup {Absent} : Change(k, v)
    \/ \E c \in Configs :
        \/ Open(c) \/ Commit(c) \/ Abort(c) \/ Die(c) \/ ReadAll(c)
        \/ \E k \in Keys : ReadKey(c, k)
        \/ \E k \in Keys, v \in Values \cup {Absent} : ChangeInside(c, k, v)

Spec == Init /\ [][Next]_atomicVars

=============================================================================
