--------------------------- MODULE NestingProofs ----------------------------
(***************************************************************************)
(* The two components in which the block of an operation may begin the     *)
(* next operation on the same object: transactions of a configuration, and *)
(* operations on a remote within Remote#ls.                                *)
(*                                                                         *)
(* Config implements AtomicConfig for any number of objects, keys, values  *)
(* and levels of nesting: a transaction that has the lock is atomic even   *)
(* though transactions that could not take it run their blocks as well.    *)
(* A commit replaces the whole file by the copy.  That it amounts to       *)
(* adding the changes of the block to the file needs CopyUpToDate, which   *)
(* needs that nobody else writes while the lock is held, which needs that  *)
(* the lock is held exactly while a locked block runs (LockHeldInBlock).   *)
(*                                                                         *)
(* Remote, for any number of heads, tips, callbacks and nested operations: *)
(* ls and check_connection disconnect, what is copied is released, ls      *)
(* reads heads of its own connection unless its block starts something, an *)
(* exception ends the updates of the tips, and the outermost operation     *)
(* keeps the promise of Relay.  No operation goes beyond the heads and the *)
(* references that there are.                                              *)
(***************************************************************************)
EXTENDS Config, Remote, SequenceTheorems, TLAPS

-----------------------------------------------------------------------------
(* Config.                                                                  *)


IInv == TypeOK /\ LockHeldInBlock /\ CopyUpToDate

-----------------------------------------------------------------------------
(* Leaving a block.                                                         *)

\* What is left of the running blocks when the innermost ends.
LEMMA FrontOf ==
    ASSUME NEW S, NEW s \in Seq(S), s # <<>>
    PROVE  /\ Front(s) \in Seq(S)
           /\ Len(Front(s)) = Len(s) - 1
           /\ \A i \in 1 .. Len(s) - 1 : Front(s)[i] = s[i]
           /\ Len(s) \in Nat \ {0}
<1>1. Len(s) \in Nat \ {0}
  BY EmptySeq, LenProperties
<1>2. \A i \in 1 .. Len(s) - 1 : s[i] \in S
  BY <1>1, ElementOfSeq
<1> DEFINE n == Len(s) - 1
           t == SubSeq(s, 1, n)
<1>3. Front(s) = t
  BY DEF Front
<1>4. n \in Nat /\ 1 \in Int /\ n \in Int
  BY <1>1
<1>5. /\ t \in Seq(S)
      /\ Len(t) = IF 1 <= n THEN n - 1 + 1 ELSE 0
      /\ \A i \in 1 .. n - 1 + 1 : t[i] = s[1 + i - 1]
  BY <1>2, <1>4, SubSeqProperties
<1> HIDE DEF n, t
<1>6. Len(t) = n /\ \A i \in 1 .. n : t[i] = s[i]
  BY <1>4, <1>5
<1> QED
  BY <1>1, <1>3, <1>5, <1>6 DEF n

\* The keys of a copy that starts as the file are those of the file.
LEMMA OverlayNothing == \A f \in Contents : Overlay(f, NoChange) = f
  BY DEF Overlay, NoChange, Contents

-----------------------------------------------------------------------------
(* The invariant.                                                           *)

\* No transaction is open.
LEMMA InitIInv == Init => IInv
<1> SUFFICES ASSUME Init PROVE IInv
  OBVIOUS
<1>1. TypeOK
  BY DEF Init, TypeOK, NoChange, Contents
<1>2. LockHeldInBlock
  BY NamesAssumption DEF Init, LockHeldInBlock
<1>3. CopyUpToDate
  BY NamesAssumption DEF Init, CopyUpToDate
<1> QED
  BY <1>1, <1>2, <1>3 DEF IInv

\* The innermost of the blocks of c, which has the lock, ends.
LEMMA LeaveLocked ==
    ASSUME IInv, NEW c \in Configs, Inside(c, "locked"),
           blocks' = [blocks EXCEPT ![c] = Front(@)], lock' = Nobody
    PROVE  /\ lock = c
           /\ blocks' \in [Configs -> Seq({"locked", "unlocked"})]
           /\ LockHeldInBlock'
<1> DEFINE s == blocks[c]
<1>1. s \in Seq({"locked", "unlocked"}) /\ s # <<>> /\ s[Len(s)] = "locked"
  BY DEF IInv, TypeOK, Inside, Last
<1>2. /\ Front(s) \in Seq({"locked", "unlocked"})
      /\ Len(Front(s)) = Len(s) - 1
      /\ \A i \in 1 .. Len(s) - 1 : Front(s)[i] = s[i]
      /\ Len(s) \in Nat \ {0}
  BY <1>1, FrontOf
<1>3. lock = c
  BY <1>1, <1>2 DEF IInv, LockHeldInBlock
<1>4. \A i \in 1 .. Len(s) - 1 : s[i] # "locked"
  BY <1>1, <1>2 DEF IInv, LockHeldInBlock
<1>5. blocks'[c] = Front(s) /\ \A d \in Configs \ {c} : blocks'[d] = blocks[d]
  BY DEF IInv, TypeOK
<1>6. blocks' \in [Configs -> Seq({"locked", "unlocked"})]
  BY <1>2 DEF IInv, TypeOK
<1>7. \A d \in Configs : \A i \in 1 .. Len(blocks'[d]) : blocks'[d][i] # "locked"
  BY <1>2, <1>3, <1>4, <1>5 DEF IInv, LockHeldInBlock
<1>8. LockHeldInBlock'
  BY <1>7, NamesAssumption DEF LockHeldInBlock
<1> QED
  BY <1>3, <1>6, <1>8

\* A block that is not the locked one begins or ends.
LEMMA UnlockedBlocks ==
    ASSUME IInv, NEW c \in Configs, UNCHANGED lock,
           \/ blocks' = [blocks EXCEPT ![c] = Append(@, "unlocked")]
           \/ Inside(c, "unlocked") /\ blocks' = [blocks EXCEPT ![c] = Front(@)]
    PROVE  /\ blocks' \in [Configs -> Seq({"locked", "unlocked"})]
           /\ LockHeldInBlock'
<1> DEFINE s == blocks[c]
<1>0. s \in Seq({"locked", "unlocked"}) /\ Len(s) \in Nat
  BY DEF IInv, TypeOK
<1>1. \A d \in Configs \ {c} : blocks'[d] = blocks[d]
  BY DEF IInv, TypeOK
<1>2. CASE blocks' = [blocks EXCEPT ![c] = Append(@, "unlocked")]
  <2>1. blocks'[c] = Append(s, "unlocked")
    BY <1>2 DEF IInv, TypeOK
  <2>2. /\ Append(s, "unlocked") \in Seq({"locked", "unlocked"})
        /\ Len(blocks'[c]) = Len(s) + 1
        /\ \A i \in 1 .. Len(s) : blocks'[c][i] = s[i]
        /\ blocks'[c][Len(s) + 1] = "unlocked"
    BY <1>0, <2>1
  <2>3. \A i \in 1 .. Len(blocks'[c]) : blocks'[c][i] = "locked" <=> i \in 1 .. Len(s) /\ s[i] = "locked"
    BY <1>0, <2>2
  <2>4. \A i \in 1 .. Len(s) : i \in 1 .. Len(blocks'[c])
    BY <1>0, <2>2
  <2> QED
    BY <1>1, <1>2, <2>2, <2>3, <2>4 DEF IInv, TypeOK, LockHeldInBlock
<1>3. CASE Inside(c, "unlocked") /\ blocks' = [blocks EXCEPT ![c] = Front(@)]
  <2>1. s # <<>> /\ s[Len(s)] = "unlocked"
    BY <1>3 DEF Inside, Last
  <2>2. /\ Front(s) \in Seq({"locked", "unlocked"})
        /\ Len(Front(s)) = Len(s) - 1
        /\ \A i \in 1 .. Len(s) - 1 : Front(s)[i] = s[i]
        /\ Len(s) \in Nat \ {0}
    BY <1>0, <2>1, FrontOf
  <2>3. blocks'[c] = Front(s)
    BY <1>3 DEF IInv, TypeOK
  <2>4. \A i \in 1 .. Len(s) : s[i] = "locked" => i \in 1 .. Len(blocks'[c]) /\ blocks'[c][i] = "locked"
    BY <2>1, <2>2, <2>3
  <2>5. \A i \in 1 .. Len(blocks'[c]) : i \in 1 .. Len(s) /\ blocks'[c][i] = s[i]
    BY <2>2, <2>3
  <2> QED
    BY <1>1, <1>3, <2>2, <2>4, <2>5 DEF IInv, TypeOK, LockHeldInBlock
<1> QED
  BY <1>2, <1>3

\* Every step of the transactions and of the other process keeps it.
LEMMA NextIInv == IInv /\ [Next]_vars => IInv'
<1> SUFFICES ASSUME IInv, [Next]_vars PROVE IInv'
  OBVIOUS
<1> USE DEF IInv
<1>1. ASSUME NEW c \in Configs, NEW k \in Keys, Get(c, k) PROVE IInv'
  <2>1. seen' \in [Configs -> Contents]
    BY <1>1 DEF Get, TypeOK, Contents
  <2> QED
    BY <1>1, <2>1 DEF Get, TypeOK, LockHeldInBlock, CopyUpToDate
<1>2. ASSUME NEW c \in Configs, Snapshot(c) PROVE IInv'
  BY <1>2 DEF Snapshot, TypeOK, LockHeldInBlock, CopyUpToDate
<1>3. ASSUME NEW c \in Configs, NEW k \in Keys, NEW v \in Values \cup {Absent},
             StoreInFile(c, k, v)
      PROVE IInv'
  <2>1. file' \in Contents
    BY <1>3 DEF StoreInFile, TypeOK, Contents
  <2> QED
    BY <1>3, <2>1, NamesAssumption DEF StoreInFile, TypeOK, LockHeldInBlock, CopyUpToDate
<1>4. ASSUME NEW c \in Configs, NEW k \in Keys, NEW v \in Values \cup {Absent},
             StoreInCopy(c, k, v)
      PROVE IInv'
  <2>1. copy' \in Contents /\ delta' \in [Keys -> Values \cup {Absent, Same}]
    BY <1>4 DEF StoreInCopy, TypeOK, Contents
  <2>2. CopyUpToDate'
    <3>1. Overlay(file, [delta EXCEPT ![k] = v]) = [Overlay(file, delta) EXCEPT ![k] = v]
      <4>1. delta \in [Keys -> Values \cup {Absent, Same}] /\ v # Same
        BY NamesAssumption DEF TypeOK
      <4> QED
        BY <4>1 DEF Overlay
    <3>2. copy = Overlay(file, delta)
      BY <1>4 DEF StoreInCopy, CopyUpToDate
    <3>3. copy' = Overlay(file, [delta EXCEPT ![k] = v])
      BY <1>4, <3>1, <3>2 DEF StoreInCopy
    <3>4. Overlay(file, delta)' = Overlay(file, [delta EXCEPT ![k] = v])
      BY <1>4 DEF StoreInCopy, Overlay
    <3> QED
      BY <3>3, <3>4, Zenon DEF CopyUpToDate
  <2> QED
    BY <1>4, <2>1, <2>2 DEF StoreInCopy, TypeOK, LockHeldInBlock
<1>5. ASSUME NEW c \in Configs, Begin(c) PROVE IInv'
  <2> DEFINE s == blocks[c]
  <2>1. blocks'[c] = Append(s, "locked") /\ \A d \in Configs \ {c} : blocks'[d] = blocks[d]
    BY <1>5 DEF Begin, TypeOK
  <2>2. s \in Seq({"locked", "unlocked"}) /\ Len(s) \in Nat
    BY DEF TypeOK
  <2>3. /\ Append(s, "locked") \in Seq({"locked", "unlocked"})
        /\ Len(blocks'[c]) = Len(s) + 1
        /\ \A i \in 1 .. Len(s) : blocks'[c][i] = s[i]
        /\ blocks'[c][Len(s) + 1] = "locked"
    BY <2>1, <2>2
  <2>4. \A d \in Configs : \A i \in 1 .. Len(blocks[d]) : blocks[d][i] # "locked"
    BY <1>5, NamesAssumption DEF Begin, LockHeldInBlock
  <2>5. \A i \in 1 .. Len(blocks'[c]) : blocks'[c][i] = "locked" <=> i = Len(s) + 1
    BY <2>2, <2>3, <2>4
  <2>6. LockHeldInBlock'
    BY <1>5, <2>1, <2>2, <2>3, <2>4, <2>5 DEF Begin, LockHeldInBlock
  <2>7. TypeOK'
    BY <1>5, <2>3 DEF Begin, TypeOK, NoChange
  <2>8. CopyUpToDate'
    BY <1>5, OverlayNothing DEF Begin, TypeOK, CopyUpToDate
  <2> QED
    BY <2>6, <2>7, <2>8
<1>6. ASSUME NEW c \in Configs, BeginUnlocked(c) PROVE IInv'
  <2>1. blocks' \in [Configs -> Seq({"locked", "unlocked"})] /\ LockHeldInBlock'
    BY <1>6, UnlockedBlocks DEF BeginUnlocked
  <2> QED
    BY <1>6, <2>1 DEF BeginUnlocked, TypeOK, CopyUpToDate
<1>7. ASSUME NEW c \in Configs, NEW raises \in BOOLEAN, EndBlock(c, raises) PROVE IInv'
  <2>1. blocks' \in [Configs -> Seq({"locked", "unlocked"})] /\ LockHeldInBlock'
    BY <1>7, LeaveLocked DEF EndBlock
  <2>2. result' \in [Configs -> {"none", "returned", "raised"}]
    BY <1>7 DEF EndBlock, TypeOK
  <2> QED
    BY <1>7, <2>1, <2>2, NamesAssumption DEF EndBlock, TypeOK, CopyUpToDate
<1>8. ASSUME NEW c \in Configs, CommitFails(c) PROVE IInv'
  <2>1. blocks' \in [Configs -> Seq({"locked", "unlocked"})] /\ LockHeldInBlock'
    BY <1>8, LeaveLocked DEF CommitFails
  <2>2. result' \in [Configs -> {"none", "returned", "raised"}]
    BY <1>8 DEF CommitFails, TypeOK
  <2> QED
    BY <1>8, <2>1, <2>2, NamesAssumption DEF CommitFails, TypeOK, CopyUpToDate
<1>9. ASSUME NEW c \in Configs, EndUnlocked(c) PROVE IInv'
  <2>1. blocks' \in [Configs -> Seq({"locked", "unlocked"})] /\ LockHeldInBlock'
    BY <1>9, UnlockedBlocks DEF EndUnlocked
  <2> QED
    BY <1>9, <2>1 DEF EndUnlocked, TypeOK, CopyUpToDate
<1>10. ASSUME NEW c \in Configs, Die(c) PROVE IInv'
  <2>1. blocks'[c] = <<>> /\ \A d \in Configs \ {c} : blocks'[d] = blocks[d]
    BY <1>10 DEF Die, TypeOK
  <2>2. Len(blocks'[c]) = 0 /\ lock' # c
    BY <1>10, <2>1, NamesAssumption DEF Die
  <2>3. \A d \in Configs \ {c} : lock' = d <=> lock = d
    BY <1>10, NamesAssumption DEF Die
  <2>4. LockHeldInBlock'
    BY <2>1, <2>2, <2>3 DEF LockHeldInBlock
  <2>5. blocks' \in [Configs -> Seq({"locked", "unlocked"})]
    BY <1>10 DEF Die, TypeOK
  <2>6. CopyUpToDate'
    BY <1>10, NamesAssumption DEF Die, CopyUpToDate
  <2> QED
    BY <1>10, <2>4, <2>5, <2>6 DEF Die, TypeOK
<1>11. CASE UNCHANGED vars
  BY <1>11 DEF vars, TypeOK, LockHeldInBlock, CopyUpToDate
<1> QED
  BY <1>1, <1>2, <1>3, <1>4, <1>5, <1>6, <1>7, <1>8,
     <1>9, <1>10, <1>11 DEF Next

\* So it holds throughout.
LEMMA ConfigInvariant == Spec => []IInv
  BY InitIInv, NextIInv, PTL DEF Spec

\* A transaction that has the lock keeps it to the end of its block: until then
\* its copy is the file with its own changes, whatever other configurations try.
THEOREM LockCorrect == Spec => [](TypeOK /\ CopyUpToDate)
  BY ConfigInvariant, PTL DEF IInv

\* The file is locked exactly while the block that took the lock runs, however
\* blocks of the same or of other configurations are nested and however they end.
THEOREM LockHeld == Spec => []LockHeldInBlock
  BY ConfigInvariant, PTL DEF IInv

-----------------------------------------------------------------------------
(* The refinement.                                                          *)

\* A step of Config is a step of AtomicConfig or leaves its variables alone.
LEMMA NextAtomic == IInv /\ [Next]_vars => [Atomic!Next]_(Atomic!atomicVars)
<1> SUFFICES ASSUME IInv, [Next]_vars PROVE [Atomic!Next]_(Atomic!atomicVars)
  OBVIOUS
<1> USE DEF Atomic!Next, Atomic!atomicVars
<1>1. ASSUME NEW c \in Configs, NEW k \in Keys, Get(c, k) PROVE Atomic!ReadKey(c, k)
  BY <1>1 DEF Get, Atomic!ReadKey
<1>2. ASSUME NEW c \in Configs, Snapshot(c) PROVE Atomic!ReadAll(c)
  BY <1>2 DEF Snapshot, Atomic!ReadAll
<1>3. ASSUME NEW c \in Configs, NEW k \in Keys, NEW v \in Values \cup {Absent},
             StoreInFile(c, k, v)
      PROVE Atomic!Change(k, v)
  BY <1>3 DEF StoreInFile, Atomic!Change
<1>4. ASSUME NEW c \in Configs, NEW k \in Keys, NEW v \in Values \cup {Absent},
             StoreInCopy(c, k, v)
      PROVE Atomic!ChangeInside(c, k, v)
  BY <1>4 DEF StoreInCopy, Atomic!ChangeInside
<1>5. ASSUME NEW c \in Configs, Begin(c) PROVE Atomic!Open(c)
  BY <1>5 DEF Begin, Atomic!Open, NoChange, Atomic!NoChange
<1>6. ASSUME NEW c \in Configs, BeginUnlocked(c) PROVE UNCHANGED Atomic!atomicVars
  BY <1>6 DEF BeginUnlocked
<1>7. ASSUME NEW c \in Configs, NEW raises \in BOOLEAN, EndBlock(c, raises)
      PROVE Atomic!Commit(c) \/ Atomic!Abort(c)
  <2>1. lock = c
    BY <1>7, LeaveLocked DEF EndBlock
  <2>2. copy = Atomic!Overlay(file, delta)
    BY <2>1 DEF IInv, CopyUpToDate, Overlay, Atomic!Overlay
  <2> QED
    BY <1>7, <2>1, <2>2 DEF EndBlock, Atomic!Commit, Atomic!Abort
<1>8. ASSUME NEW c \in Configs, CommitFails(c) PROVE Atomic!Abort(c)
  <2>1. lock = c
    BY <1>8, LeaveLocked DEF CommitFails
  <2> QED
    BY <1>8, <2>1 DEF CommitFails, Atomic!Abort
<1>9. ASSUME NEW c \in Configs, EndUnlocked(c) PROVE UNCHANGED Atomic!atomicVars
  BY <1>9 DEF EndUnlocked
<1>10. ASSUME NEW c \in Configs, Die(c) PROVE Atomic!Die(c) \/ UNCHANGED Atomic!atomicVars
  BY <1>10 DEF Die, Atomic!Die
<1>11. CASE UNCHANGED vars
  BY <1>11 DEF vars
<1> QED
  BY <1>1, <1>2, <1>3, <1>4, <1>5, <1>6, <1>7, <1>8, <1>9, <1>10, <1>11 DEF Next

\* Transactions that have the lock are atomic: a reader sees all the changes
\* of the block, at once and only if it has returned, or none of them.
THEOREM TransactionsAtomic == Spec => AtomicSpec
<1>1. Init => Atomic!Init
  BY DEF Init, Atomic!Init, NoChange, Atomic!NoChange, Contents, Atomic!Contents
<1> QED
  BY <1>1, ConfigInvariant, NextAtomic, PTL DEF Spec, AtomicSpec, Atomic!Spec

-----------------------------------------------------------------------------
(* Remote: the operations of one remote, nested in the blocks of ls.        *)

\* A frame, without the bounds of the model.
Frames ==
    [op: Operations,
     pc: {"options", "rest", "connect", "list", "heads", "block", "transfer", "tips",
          "cleanup", "done"},
     exception: BOOLEAN, error: BOOLEAN, memory: SUBSET {"refspecs", "headers"},
     list: Nat, i: Nat, moved: Nat, calls: Nat, raised: BOOLEAN, outcome: Outcomes]

\* Nothing has gone wrong in an operation before its cleanup, and the payload
\* knows the exception of a block.
Steady(f) ==
    /\ f.exception = f.raised
    /\ f.pc \notin {"cleanup", "done"} => ~f.raised /\ ~f.error
    /\ f.pc = "done" <=> f.outcome # "pending"
    /\ f.pc \in {"list", "heads", "block"} => f.op = "ls"

\* Operations are nested in blocks of ls, and one that is done is the only one.
Nested ==
    /\ stack \in Seq(Frames)
    /\ started \in Nat /\ Len(stack) <= started
    /\ gen \in Nat /\ tips \in Nat
    /\ connected \in BOOLEAN /\ stale \in BOOLEAN
    /\ \A n \in 1 .. Len(stack) : Steady(stack[n])
    /\ \A n \in 1 .. Len(stack) - 1 : stack[n].pc = "block"

\* As long as ls is alone, its list is that of the open connection.
Alone ==
    started = 1 /\ stack # <<>> =>
        /\ stack[1].pc \in {"list", "heads", "block"} => connected
        /\ stack[1].pc \in {"heads", "block"} => stack[1].list = gen

RemoteInv ==
    /\ Nested
    /\ Alone
    /\ HeadsFresh
    /\ Disconnected
    /\ MemoryReleased

\* No operation of the remote has begun.
LEMMA InitRemote == RemoteInit => RemoteInv
<1> SUFFICES ASSUME RemoteInit PROVE RemoteInv
  OBVIOUS
<1>1. Nested
  <2>1. stack = <<>> /\ Len(stack) = 0 /\ stack \in Seq(Frames)
    BY DEF RemoteInit
  <2>2. gen \in Nat /\ tips \in Nat /\ connected \in BOOLEAN /\ stale \in BOOLEAN /\ started = 0
    BY DEF RemoteInit
  <2>3. \A n \in 1 .. Len(stack) : FALSE
    BY <2>1
  <2> QED
    BY <2>1, <2>2, <2>3 DEF Nested
<1> QED
  BY <1>1 DEF RemoteInit, RemoteInv, Alone, HeadsFresh, Disconnected, MemoryReleased,
              Active

\* While an operation runs, the innermost one is on top of the stack.
LEMMA TopIs ==
    ASSUME Nested, Active
    PROVE  /\ Len(stack) \in Nat \ {0}
           /\ Top = stack[Len(stack)]
           /\ Top \in Frames
           /\ Steady(Top)
  BY DEF Nested, Active, Top, Last

\* What lies under the innermost operation.
LEMMA FrontIs ==
    ASSUME Nested, Active
    PROVE  /\ Front(stack) \in Seq(Frames)
           /\ Len(Front(stack)) = Len(stack) - 1
           /\ \A n \in 1 .. Len(stack) - 1 : Front(stack)[n] = stack[n]
<1> DEFINE n == Len(stack) - 1
<1>1. n \in Nat /\ \A k \in 1 .. n : stack[k] \in Frames
  BY TopIs DEF Nested
<1>2. Front(stack) = SubSeq(stack, 1, n)
  BY DEF Front
<1> HIDE DEF n
<1>3. /\ SubSeq(stack, 1, n) \in Seq(Frames)
      /\ Len(SubSeq(stack, 1, n)) = IF 1 <= n THEN n - 1 + 1 ELSE 0
      /\ \A k \in 1 .. n - 1 + 1 : SubSeq(stack, 1, n)[k] = stack[1 + k - 1]
  BY <1>1, SubSeqProperties
<1>4. /\ SubSeq(stack, 1, n) \in Seq(Frames)
      /\ Len(SubSeq(stack, 1, n)) = n
      /\ \A k \in 1 .. n : SubSeq(stack, 1, n)[k] = stack[k]
  BY <1>1, <1>3
<1> QED
  BY <1>2, <1>4 DEF n

\* Changing the innermost operation leaves the ones around it alone.
LEMMA BecomeIs ==
    ASSUME Nested, Active, NEW f, Become(f)
    PROVE  /\ started' = started
           /\ Len(stack') = Len(stack)
           /\ stack' # <<>>
           /\ stack'[Len(stack)] = f
           /\ \A n \in 1 .. Len(stack) - 1 : stack'[n] = stack[n]
           /\ f \in Frames => stack' \in Seq(Frames)
<1> DEFINE s == Front(stack)
           F == Frames \cup {f}
<1>1. s \in Seq(F) /\ Len(s) = Len(stack) - 1 /\ \A n \in 1 .. Len(stack) - 1 : s[n] = stack[n]
  BY FrontIs
<1>2. stack' = s \o <<f>> /\ started' = started
  BY DEF Become
<1>3. Len(stack) \in Nat \ {0}
  BY TopIs
<1>4. <<f>> \in Seq(F) /\ Len(<<f>>) = 1 /\ <<f>>[1] = f
  OBVIOUS
<1> HIDE DEF s, F
<1>5. /\ s \o <<f>> \in Seq(F)
      /\ Len(s \o <<f>>) = Len(s) + Len(<<f>>)
      /\ \A n \in 1 .. Len(s) + Len(<<f>>) :
             (s \o <<f>>)[n] = IF n <= Len(s) THEN s[n] ELSE <<f>>[n - Len(s)]
  BY <1>1, <1>4, ConcatProperties
<1>6. f \in Frames => stack' \in Seq(Frames)
  BY <1>2, <1>5 DEF F
<1>7. Len(stack') = Len(stack) /\ stack' # <<>>
  BY <1>1, <1>2, <1>3, <1>4, <1>5
<1>8. stack'[Len(stack)] = f
  <2>1. stack'[Len(stack)] = <<f>>[Len(stack) - Len(s)]
    BY <1>1, <1>2, <1>3, <1>4, <1>5
  <2> QED
    BY <1>1, <1>3, <1>4, <2>1
<1>9. \A n \in 1 .. Len(stack) - 1 : stack'[n] = stack[n]
  BY <1>1, <1>2, <1>3, <1>4, <1>5
<1> QED
  BY <1>2, <1>6, <1>7, <1>8, <1>9

-----------------------------------------------------------------------------
(* Every step begins an operation, goes on with the innermost, or ends it.  *)

\* The innermost operation goes on as f, and may have run a block.
Goes(f) ==
    /\ Active /\ Become(f)
    /\ f \in Frames /\ Steady(f)
    /\ f.pc # "done" /\ Top.pc # "done"
    /\ f.outcome = Top.outcome
    /\ \/ f.calls = Top.calls /\ f.raised = Top.raised
       \/ f.calls = Top.calls + 1 /\ ~Top.raised
    /\ leaked' = leaked
    /\ connected' \in BOOLEAN /\ gen' \in Nat /\ stale' \in BOOLEAN
    /\ tips' \in Nat /\ (tips' # tips => ~Top.raised)
    /\ stale' => stale \/ started > 1
    /\ started = 1 =>
           /\ f.pc \in {"list", "heads", "block"} => connected'
           /\ f.pc \in {"heads", "block"} => f.list = gen'

\* The innermost operation ends.
Leaves(end) ==
    /\ Active /\ Leave(Top, end)
    /\ Top.pc # "done"
    /\ end \in IF Top.raised THEN {"raised"} ELSE {"returned", "failed"}
    /\ connected' \in BOOLEAN /\ UNCHANGED <<gen, tips, stale>>
    /\ \/ leaked' = leaked
       \/ /\ leaked' = leaked \cup {[op |-> Top.op, pc |-> Top.pc]}
          /\ Top.pc = "cleanup" => Top.op = "clone_at"
    /\ Top.op \in {"ls", "check_connection"} /\ (end # "failed" \/ Top.error)
           => ~connected'

\* A block has run: its exception is in the payload and ends libgit2's work.
LEMMA YieldedIs ==
    ASSUME NEW f \in Frames, NEW raises \in BOOLEAN, ~f.raised, ~f.error, f.pc # "done"
    PROVE  LET g == Yielded(f, raises)
           IN  /\ g \in Frames
               /\ g.raised <=> raises
               /\ g.exception <=> raises
               /\ g.error <=> raises
               /\ g.pc = IF raises THEN "cleanup" ELSE f.pc
               /\ g.calls = f.calls + 1
               /\ g.op = f.op /\ g.outcome = f.outcome
               /\ g.list = f.list
<1>1. f.calls + 1 \in Nat
  BY DEF Frames
<1>2. Yielded(f, raises) \in Frames
  BY <1>1 DEF Frames, Yielded
<1>3. LET g == Yielded(f, raises)
      IN  /\ (g.raised <=> raises) /\ (g.exception <=> raises) /\ (g.error <=> raises)
          /\ g.pc = IF raises THEN "cleanup" ELSE f.pc
          /\ g.calls = f.calls + 1
          /\ g.op = f.op /\ g.outcome = f.outcome
          /\ g.list = f.list
  BY DEF Frames, Yielded
<1> QED
  BY <1>2, <1>3

\* All that an action does: start an operation, go on with one or leave it.
LEMMA RemoteSteps ==
    ASSUME RemoteInv, RemoteNext
    PROVE  \/ \E op \in Operations : Start(op)
           \/ \E f : Goes(f)
           \/ \E end : Leaves(end)
<1> DEFINE Moves == (\E f : Goes(f)) \/ (\E end : Leaves(end))
<1>t. ASSUME Active
      PROVE  /\ Top \in Frames /\ Steady(Top)
             /\ started \in Nat /\ started >= 1
             /\ started = 1 =>
                    /\ Top.pc \in {"list", "heads", "block"} => connected
                    /\ Top.pc \in {"heads", "block"} => Top.list = gen
  <2>1. Len(stack) \in Nat \ {0} /\ Len(stack) <= started /\ started \in Nat
    BY <1>t, TopIs DEF RemoteInv, Nested
  <2>2. Top = stack[Len(stack)] /\ Top \in Frames /\ Steady(Top)
    BY <1>t, TopIs DEF RemoteInv
  <2>3. started = 1 => Len(stack) = 1
    <3>1. \A k \in Nat \ {0} : k <= 1 => k = 1
      OBVIOUS
    <3> QED
      BY <2>1, <3>1
  <2> QED
    BY <1>t, <2>1, <2>2, <2>3 DEF RemoteInv, Alone, Active
<1> USE DEF Frames, Steady, At, native, Outcomes, Operations
<1>n. /\ connected \in BOOLEAN /\ gen \in Nat /\ stale \in BOOLEAN /\ tips \in Nat
  BY DEF RemoteInv, Nested
<1>1. CASE Refuse
  <2>1. Leaves("failed")
    BY <1>1, <1>t, <1>n DEF Leaves, Refuse, Leak
  <2> QED
    BY <2>1
<1>2. CASE ParseCallbacks
  <2> DEFINE f == [Top EXCEPT !.pc = "rest", !.memory = @ \cup {"headers"}]
  <2>1. Goes(f)
    BY <1>2, <1>t, <1>n DEF Goes, ParseCallbacks
  <2> QED
    BY <2>1
<1>3. CASE ParseRest
  <2> DEFINE f == [Top EXCEPT !.pc = "connect"]
  <2>1. Goes(f)
    BY <1>3, <1>t, <1>n DEF Goes, ParseRest
  <2> QED
    BY <2>1
<1>4. ASSUME NEW raises \in BOOLEAN, Callback(raises) PROVE Moves
  <2> DEFINE f == Yielded(Top, raises)
  <2>1. Top.pc \in {"connect", "transfer"} /\ ~Top.raised /\ ~Top.error /\ Active
    BY <1>4, <1>t DEF Callback
  <2>2. /\ f \in Frames
        /\ (f.raised <=> raises) /\ (f.exception <=> raises) /\ (f.error <=> raises)
        /\ f.pc = IF raises THEN "cleanup" ELSE Top.pc
        /\ f.calls = Top.calls + 1
        /\ f.outcome = Top.outcome
    BY <1>t, <2>1, YieldedIs
  <2>3. Become(f) /\ UNCHANGED <<connected, gen, tips, stale, leaked>>
    BY <1>4 DEF Callback
  <2> HIDE DEF f
  <2>4. Goes(f)
    BY <1>t, <1>n, <2>1, <2>2, <2>3 DEF Goes
  <2> QED
    BY <2>4
<1>5. CASE CertificateCheckBadAnswer
  <2>1. Leaves("failed")
    BY <1>5, <1>t, <1>n DEF Leaves, CertificateCheckBadAnswer, Leak
  <2> QED
    BY <2>1
<1>6. ASSUME NEW raises \in BOOLEAN, UpdateTip(raises) PROVE Moves
  <2> DEFINE t == [Top EXCEPT !.moved = @ + 1]
             f == Yielded(t, raises)
  <2>1. Top.pc = "tips" /\ ~Top.raised /\ ~Top.error /\ Active
    BY <1>6, <1>t DEF UpdateTip
  <2>2. /\ t \in Frames
        /\ t.pc = "tips" /\ ~t.raised /\ ~t.error
        /\ t.calls = Top.calls /\ t.outcome = Top.outcome
    BY <1>t, <2>1
  <2>3. Become(f) /\ tips' = tips + 1 /\ UNCHANGED <<connected, gen, stale, leaked>>
    BY <1>6 DEF UpdateTip
  <2> HIDE DEF t
  <2>4. /\ f \in Frames
        /\ (f.raised <=> raises) /\ (f.exception <=> raises) /\ (f.error <=> raises)
        /\ f.pc = IF raises THEN "cleanup" ELSE "tips"
        /\ f.calls = Top.calls + 1
        /\ f.outcome = Top.outcome
    BY <2>2, YieldedIs
  <2> HIDE DEF f
  <2>5. Goes(f)
    BY <1>t, <1>n, <2>1, <2>3, <2>4 DEF Goes
  <2> QED
    BY <2>5
<1>7. CASE Connect
  <2> DEFINE to == CASE Top.op = "ls" -> "list"
                     [] Top.op = "check_connection" -> "cleanup"
                     [] OTHER -> "transfer"
             f == [Top EXCEPT !.pc = to]
  <2>1. Top.pc = "connect" /\ Active
    BY <1>7 DEF Connect
  <2>2. to \in {"list", "cleanup", "transfer"} /\ (to = "list" => Top.op = "ls")
    BY <1>t, <2>1
  <2>3. Become(f) /\ UNCHANGED <<tips, stale, leaked>>
    BY <1>7 DEF Connect
  <2>4. \/ UNCHANGED <<connected, gen>> /\ Top.op # "ls"
        \/ connected' = TRUE /\ gen' = gen + 1
    BY <1>7 DEF Connect
  <2> HIDE DEF to
  <2>a. f \in Frames
    BY <1>t, <2>1, <2>2
  <2>5. /\ f.pc = to /\ f.op = Top.op /\ f.outcome = Top.outcome
        /\ f.calls = Top.calls /\ f.raised = Top.raised
        /\ f.exception = Top.exception /\ f.error = Top.error
    BY <1>t, <2>1, <2>2
  <2> HIDE DEF f
  <2>6. Steady(f)
    BY <1>t, <2>1, <2>2, <2>5
  <2>7. connected' \in BOOLEAN /\ gen' \in Nat /\ (to = "list" => connected')
    <3>1. CASE UNCHANGED <<connected, gen>> /\ Top.op # "ls"
      BY <1>n, <2>2, <3>1
    <3>2. CASE connected' = TRUE /\ gen' = gen + 1
      BY <1>n, <3>2
    <3> QED
      BY <2>4, <3>1, <3>2
  <2>8. Goes(f)
    BY <1>t, <1>n, <2>1, <2>2, <2>3, <2>a, <2>5, <2>6, <2>7 DEF Goes
  <2> QED
    BY <2>8
<1>8. CASE Transferred
  <2> DEFINE f == [Top EXCEPT !.pc = "tips"]
  <2>1. Goes(f)
    BY <1>8, <1>t, <1>n DEF Goes, Transferred
  <2> QED
    BY <2>1
<1>9. CASE Fail
  <2> DEFINE f == [Top EXCEPT !.error = TRUE, !.pc = "cleanup"]
  <2>1. Goes(f)
    BY <1>9, <1>t, <1>n DEF Goes, Fail
  <2> QED
    BY <2>1
<1>10. CASE TipsUpdated
  <2> DEFINE f == [Top EXCEPT !.pc = "cleanup"]
  <2>1. Goes(f)
    BY <1>10, <1>t, <1>n DEF Goes, TipsUpdated
  <2> QED
    BY <2>1
<1>11. CASE List
  <2> DEFINE f == [Top EXCEPT !.pc = "heads", !.list = gen]
  <2>1. Goes(f)
    BY <1>11, <1>t, <1>n DEF Goes, List
  <2> QED
    BY <2>1
<1>12. CASE ReadHead
  <2> DEFINE f == [Top EXCEPT !.pc = "block", !.i = @ + 1]
  <2>1. Top.pc = "heads" /\ Active
    BY <1>12 DEF ReadHead
  <2>2. Become(f) /\ UNCHANGED <<connected, gen, tips, leaked>>
    BY <1>12 DEF ReadHead
  <2>3. stale' \in BOOLEAN
    BY <1>12, Zenon DEF ReadHead
  <2>4. stale' => stale \/ started > 1
    BY <1>12, <1>t, <2>1 DEF ReadHead
  <2>a. Top.i + 1 \in Nat
    BY <1>t, <2>1
  <2>b. f \in Frames
    BY <1>t, <2>1, <2>a
  <2>5. /\ f.pc = "block" /\ f.op = Top.op /\ f.outcome = Top.outcome
        /\ f.calls = Top.calls /\ f.raised = Top.raised
        /\ f.exception = Top.exception /\ f.error = Top.error
        /\ f.list = Top.list
    BY <1>t, <2>1
  <2> HIDE DEF f
  <2>6. Steady(f)
    BY <1>t, <2>1, <2>5
  <2>7. Goes(f)
    BY <1>t, <1>n, <2>1, <2>2, <2>3, <2>4, <2>b, <2>5, <2>6 DEF Goes
  <2> QED
    BY <2>7
<1>13. ASSUME NEW raises \in BOOLEAN, BlockEnds(raises) PROVE Moves
  <2> DEFINE f == [Top EXCEPT !.pc = IF raises THEN "cleanup" ELSE "heads",
                                 !.calls = @ + 1, !.raised = raises, !.exception = raises]
  <2>1. Top.pc = "block" /\ Active
    BY <1>13 DEF BlockEnds
  <2>2. Become(f) /\ UNCHANGED <<connected, gen, tips, stale, leaked>>
    BY <1>13 DEF BlockEnds
  <2>a. Top.calls + 1 \in Nat
    BY <1>t, <2>1
  <2>b. f \in Frames
    BY <1>t, <2>1, <2>a
  <2>3. /\ f.raised <=> raises
        /\ f.exception <=> raises
        /\ f.error <=> Top.error
        /\ f.pc = IF raises THEN "cleanup" ELSE "heads"
        /\ f.calls = Top.calls + 1
        /\ f.op = Top.op /\ f.outcome = Top.outcome
        /\ f.list = Top.list
    BY <1>t, <2>1
  <2> HIDE DEF f
  <2>4. Goes(f)
    BY <1>t, <1>n, <2>1, <2>2, <2>b, <2>3 DEF Goes
  <2> QED
    BY <2>4
<1>14. CASE NoMoreHeads
  <2> DEFINE f == [Top EXCEPT !.pc = "cleanup"]
  <2>1. Goes(f)
    BY <1>14, <1>t, <1>n DEF Goes, NoMoreHeads
  <2> QED
    BY <2>1
<1>15. CASE Finish
  <2>1. Leaves(IF Top.exception THEN "raised"
                ELSE IF Top.error /\ Top.op # "check_connection" THEN "failed"
                ELSE "returned")
    BY <1>15, <1>t, <1>n DEF Leaves, Finish, Leak
  <2> QED
    BY <2>1
<1> QED
  BY <1>1, <1>2, <1>3, <1>4, <1>5, <1>6, <1>7, <1>8, <1>9, <1>10, <1>11, <1>12, <1>13, <1>14,
     <1>15, Zenon DEF RemoteNext

\* Going on with the innermost operation keeps the invariant,
LEMMA GoesKeeps == ASSUME RemoteInv, NEW f, Goes(f) PROVE RemoteInv'
<1> DEFINE n == Len(stack)
<1>1. n \in Nat \ {0} /\ n <= started /\ started \in Nat
  BY TopIs DEF RemoteInv, Nested, Goes
<1>2. /\ started' = started /\ Len(stack') = n /\ stack' # <<>>
      /\ stack'[n] = f /\ \A k \in 1 .. n - 1 : stack'[k] = stack[k]
      /\ stack' \in Seq(Frames)
  BY BecomeIs DEF RemoteInv, Goes
<1>3. /\ \A k \in 1 .. n : Steady(stack[k])
      /\ \A k \in 1 .. n - 1 : stack[k].pc = "block"
  BY DEF RemoteInv, Nested
<1> HIDE DEF n
<1>4. Nested'
  <2>1. \A k \in 1 .. n : Steady(stack'[k])
    BY <1>1, <1>2, <1>3 DEF Goes
  <2>2. \A k \in 1 .. n - 1 : stack'[k].pc = "block"
    BY <1>2, <1>3
  <2>3. gen' \in Nat /\ tips' \in Nat /\ connected' \in BOOLEAN /\ stale' \in BOOLEAN
    BY DEF Goes
  <2> QED
    BY <1>1, <1>2, <2>1, <2>2, <2>3 DEF Nested, Steady
<1>5. Alone'
  <2> SUFFICES ASSUME started' = 1 PROVE Alone'
    BY DEF Alone
  <2>1. n = 1
    BY <1>1, <1>2
  <2> QED
    BY <1>2, <2>1 DEF Alone, Goes
<1>6. HeadsFresh'
  BY <1>1, <1>2 DEF RemoteInv, HeadsFresh, Goes
<1>7. Disconnected'
  <2>1. stack'[1].pc # "done"
    <3>1. CASE n = 1
      BY <1>2, <3>1 DEF Goes
    <3>2. CASE n # 1
      BY <1>1, <1>2, <1>3, <3>2
    <3> QED
      BY <3>1, <3>2
  <2> QED
    BY <2>1 DEF Disconnected
<1>8. MemoryReleased'
  BY DEF RemoteInv, MemoryReleased, Goes
<1> QED
  BY <1>4, <1>5, <1>6, <1>7, <1>8 DEF RemoteInv

\* and so does leaving it,
LEMMA LeavesKeeps == ASSUME RemoteInv, NEW end, Leaves(end) PROVE RemoteInv'
<1> DEFINE n == Len(stack)
           g == [Top EXCEPT !.pc = "done", !.memory = {}, !.outcome = end]
<1>1. n \in Nat \ {0} /\ n <= started /\ started \in Nat
  BY TopIs DEF RemoteInv, Nested, Leaves
<1>2. /\ \A k \in 1 .. n : Steady(stack[k])
      /\ \A k \in 1 .. n - 1 : stack[k].pc = "block"
  BY DEF RemoteInv, Nested
<1>3. Top = stack[n] /\ Top \in Frames /\ Steady(Top)
  BY TopIs DEF RemoteInv, Leaves
<1>4. end \in {"returned", "raised", "failed"}
  BY DEF Leaves
<1>5. gen' \in Nat /\ tips' \in Nat /\ connected' \in BOOLEAN /\ stale' \in BOOLEAN
  BY DEF Leaves, RemoteInv, Nested
<1>6. g \in Frames
  BY <1>3, <1>4 DEF Frames, Outcomes
<1>7. /\ g.pc = "done" /\ g.outcome = end /\ g.op = Top.op
      /\ g.error = Top.error /\ g.exception = Top.exception /\ g.raised = Top.raised
  BY <1>3 DEF Frames
<1> HIDE DEF g
<1>8. Steady(g)
  BY <1>3, <1>4, <1>7 DEF Steady
<1>9. MemoryReleased'
  BY DEF RemoteInv, MemoryReleased, Leaves
<1>10. CASE n = 1
  <2>1. Become(g)
    BY <1>10 DEF Leaves, Leave, g
  <2>2. /\ started' = started /\ Len(stack') = 1 /\ stack' # <<>> /\ stack'[1] = g
        /\ stack' \in Seq(Frames)
    BY <1>6, <1>10, <2>1, BecomeIs DEF RemoteInv, Leaves
  <2> HIDE DEF n
  <2>3. Nested'
    BY <1>1, <1>5, <1>8, <1>10, <2>2 DEF Nested, Steady
  <2>4. Alone'
    BY <1>7, <2>2 DEF Alone
  <2>5. HeadsFresh'
    BY <2>2 DEF RemoteInv, HeadsFresh, Leaves
  <2>6. Disconnected'
    BY <1>7, <2>2 DEF Disconnected, Leaves
  <2> QED
    BY <1>9, <2>3, <2>4, <2>5, <2>6 DEF RemoteInv
<1>11. CASE n # 1
  <2>1. stack' = Front(stack) /\ started' = started
    BY <1>11 DEF Leaves, Leave
  <2>2. /\ stack' \in Seq(Frames) /\ Len(stack') = n - 1
        /\ \A k \in 1 .. n - 1 : stack'[k] = stack[k]
    BY <2>1, FrontIs DEF RemoteInv, Leaves
  <2> HIDE DEF n
  <2>3. Nested'
    <3>1. \A k \in 1 .. n - 1 : Steady(stack'[k])
      BY <1>1, <1>2, <2>2
    <3>2. \A k \in 1 .. (n - 1) - 1 : stack'[k].pc = "block"
      BY <1>1, <1>2, <2>2
    <3> QED
      BY <1>1, <1>5, <2>1, <2>2, <3>1, <3>2 DEF Nested, Steady
  <2>4. Alone'
    BY <1>1, <1>11, <2>1 DEF Alone
  <2>5. HeadsFresh'
    BY <2>1 DEF RemoteInv, HeadsFresh, Leaves
  <2>6. Disconnected'
    <3>1. stack'[1].pc = "block"
      BY <1>1, <1>2, <1>11, <2>2
    <3> QED
      BY <3>1 DEF Disconnected
  <2> QED
    BY <1>9, <2>3, <2>4, <2>5, <2>6 DEF RemoteInv
<1> QED
  BY <1>10, <1>11

\* and starting one inside it.
LEMMA StartKeeps == ASSUME RemoteInv, NEW op \in Operations, Start(op) PROVE RemoteInv'
<1> DEFINE n == Len(stack)
           g == [op |-> op, pc |-> "options", exception |-> FALSE, error |-> FALSE,
                 memory |-> IF op \in {"fetch", "push"} THEN {"refspecs"} ELSE {},
                 list |-> 0, i |-> 0, moved |-> 0, calls |-> 0, raised |-> FALSE,
                 outcome |-> "pending"]
<1>1. /\ n \in Nat /\ n <= started /\ started \in Nat /\ stack \in Seq(Frames)
      /\ \A k \in 1 .. n : Steady(stack[k])
      /\ \A k \in 1 .. n - 1 : stack[k].pc = "block"
  BY DEF RemoteInv, Nested
<1>2. /\ g \in Frames /\ Steady(g)
      /\ g.pc = "options"
  BY DEF Frames, Outcomes, Steady
<1>3. /\ started' = started + 1 /\ stack' = Append(stack, g)
      /\ UNCHANGED <<connected, gen, tips, stale, leaked>>
  BY DEF Start, native
<1> HIDE DEF g
<1>4. /\ stack' \in Seq(Frames) /\ Len(stack') = n + 1 /\ stack'[n + 1] = g
      /\ \A k \in 1 .. n : stack'[k] = stack[k]
  BY <1>1, <1>2, <1>3
<1>5. n # 0 => stack[n].pc = "block"
  BY <1>1 DEF Start, At, Active, Top, Last
<1> HIDE DEF n
<1>6. \A k \in 1 .. n : stack'[k].pc = "block"
  BY <1>1, <1>4, <1>5
<1>7. Nested'
  <2>1. \A k \in 1 .. n + 1 : Steady(stack'[k])
    BY <1>1, <1>2, <1>4
  <2>2. \A k \in 1 .. (n + 1) - 1 : stack'[k].pc = "block"
    BY <1>1, <1>6
  <2>3. gen' \in Nat /\ tips' \in Nat /\ connected' \in BOOLEAN /\ stale' \in BOOLEAN
    BY <1>3 DEF RemoteInv, Nested
  <2> QED
    BY <1>1, <1>3, <1>4, <2>1, <2>2, <2>3 DEF Nested, Steady
<1>8. stack'[1].pc \in {"options", "block"} /\ (n = 0 => stack'[1] = g)
  BY <1>1, <1>2, <1>4, <1>6
<1>9. Alone'
  BY <1>1, <1>2, <1>3, <1>8 DEF Alone
<1>10. HeadsFresh'
  BY <1>1, <1>3 DEF RemoteInv, HeadsFresh
<1>11. Disconnected'
  BY <1>8 DEF Disconnected
<1>12. MemoryReleased'
  BY <1>3 DEF RemoteInv, MemoryReleased
<1> QED
  BY <1>7, <1>9, <1>10, <1>11, <1>12 DEF RemoteInv

\* What holds of a remote at every step: the shape of the nesting, what ls knows
\* of its connection while it is alone, and the three invariants of Remote.
THEOREM RemoteInvariant == RemoteSpec => []RemoteInv
<1>1. RemoteInv /\ [RemoteNext]_remoteVars => RemoteInv'
  <2> SUFFICES ASSUME RemoteInv, [RemoteNext]_remoteVars PROVE RemoteInv'
    OBVIOUS
  <2>1. CASE RemoteNext
    BY <2>1, RemoteSteps, GoesKeeps, LeavesKeeps, StartKeeps
  <2>2. CASE UNCHANGED remoteVars
    BY <2>2 DEF remoteVars, RemoteInv, Nested, Alone, Steady, HeadsFresh, Disconnected,
                MemoryReleased, Active
  <2> QED
    BY <2>1, <2>2
<1> QED
  BY <1>1, InitRemote, PTL DEF RemoteSpec

\* An operation stays within what the remote and the repository have for it, and a
\* block of ls has a head of its own.
Fits(f) ==
    /\ f.i <= Heads /\ f.moved <= Tips
    /\ f.calls <= MaxCalls + f.i
    /\ f.pc = "block" => f.calls < MaxCalls + f.i

Within ==
    /\ started <= MaxStarted
    /\ leaked \subseteq [op: Operations, pc: {"options", "rest", "connect", "cleanup"}]
    /\ jumped \in BOOLEAN
    /\ \A n \in 1 .. Len(stack) : Fits(stack[n])

Bounds == {Heads, Tips, MaxCalls, MaxStarted} \subseteq Nat

\* One more block of an operation that may still run one.
LEMMA YieldedFits ==
    ASSUME NEW f \in Frames, NEW raises \in BOOLEAN, Bounds,
           f.i <= Heads, f.moved <= Tips, f.calls < MaxCalls, f.pc # "block"
    PROVE  Fits(Yielded(f, raises))
<1> DEFINE g == Yielded(f, raises)
<1>1. /\ f.calls + 1 \in Nat
      /\ f.calls \in Nat /\ f.i \in Nat /\ f.moved \in Nat
  BY DEF Frames
<1>2. /\ g.calls = f.calls + 1 /\ g.i = f.i /\ g.moved = f.moved
      /\ g.pc # "block"
  BY DEF Frames, Yielded
<1> HIDE DEF g
<1>3. Fits(g)
  BY <1>1, <1>2 DEF Fits, Bounds
<1> QED
  BY <1>3 DEF g

\* What an operation becomes stays within the bounds.
LEMMA FitsSteps ==
    ASSUME RemoteInv, Active, Fits(Top), RemoteNext, Bounds
    PROVE  \/ \E op \in Operations : Start(op)
           \/ \E f : Become(f) /\ Fits(f)
           \/ \E end : Leave(Top, end)
<1> DEFINE Moves == (\E f : Become(f) /\ Fits(f)) \/ (\E end : Leave(Top, end))
<1>0. /\ Top \in Frames /\ Top.calls \in Nat /\ Top.i \in Nat /\ Top.moved \in Nat
      /\ Top.i + 1 \in Nat /\ Top.calls + 1 \in Nat /\ Top.moved + 1 \in Nat
  BY TopIs DEF RemoteInv, Frames
<1>1. CASE Refuse \/ CertificateCheckBadAnswer \/ Finish
  BY <1>1 DEF Refuse, CertificateCheckBadAnswer, Finish
<1>2. ASSUME NEW g, Become(g), g.calls = Top.calls, g.i = Top.i, g.moved = Top.moved,
             g.pc # "block"
      PROVE  Moves
  BY <1>2 DEF Fits
<1>3. CASE ParseCallbacks \/ ParseRest \/ Transferred \/ Fail \/ TipsUpdated \/ List \/ NoMoreHeads
  <2>1. CASE ParseCallbacks
    BY <1>0, <1>2, <2>1 DEF ParseCallbacks, Frames
  <2>2. CASE ParseRest
    BY <1>0, <1>2, <2>2 DEF ParseRest, Frames
  <2>3. CASE Transferred
    BY <1>0, <1>2, <2>3 DEF Transferred, Frames
  <2>4. CASE Fail
    BY <1>0, <1>2, <2>4 DEF Fail, Frames
  <2>5. CASE TipsUpdated
    BY <1>0, <1>2, <2>5 DEF TipsUpdated, Frames
  <2>6. CASE List
    BY <1>0, <1>2, <2>6 DEF List, Frames
  <2>7. CASE NoMoreHeads
    BY <1>0, <1>2, <2>7 DEF NoMoreHeads, Frames
  <2> QED
    BY <1>3, <2>1, <2>2, <2>3, <2>4, <2>5, <2>6, <2>7
<1>4. CASE Connect
  <2> DEFINE to == CASE Top.op = "ls" -> "list"
                     [] Top.op = "check_connection" -> "cleanup"
                     [] OTHER -> "transfer"
             f == [Top EXCEPT !.pc = to]
  <2>1. Become(f) /\ to # "block"
    BY <1>4 DEF Connect
  <2> HIDE DEF to
  <2>2. f.calls = Top.calls /\ f.i = Top.i /\ f.moved = Top.moved /\ f.pc = to
    BY <1>0 DEF Frames
  <2> QED
    BY <1>2, <2>1, <2>2
<1>5. ASSUME NEW raises \in BOOLEAN, Callback(raises) PROVE Moves
  <2>1. Become(Yielded(Top, raises)) /\ Top.calls < MaxCalls /\ Top.pc # "block"
    BY <1>5 DEF Callback, At
  <2> QED
    BY <1>0, <2>1, YieldedFits DEF Fits
<1>6. ASSUME NEW raises \in BOOLEAN, UpdateTip(raises) PROVE Moves
  <2> DEFINE t == [Top EXCEPT !.moved = @ + 1]
  <2>1. /\ Become(Yielded(t, raises)) /\ Top.calls < MaxCalls /\ Top.pc = "tips"
        /\ Top.moved < Tips
    BY <1>6 DEF UpdateTip, At
  <2>2. /\ t \in Frames
        /\ t.calls = Top.calls /\ t.i = Top.i /\ t.moved = Top.moved + 1 /\ t.pc = Top.pc
    BY <1>0 DEF Frames
  <2> HIDE DEF t
  <2>3. t.moved <= Tips
    BY <1>0, <2>1, <2>2 DEF Bounds
  <2> QED
    BY <1>0, <2>1, <2>2, <2>3, YieldedFits DEF Fits
<1>7. CASE ReadHead
  <2> DEFINE f == [Top EXCEPT !.pc = "block", !.i = @ + 1]
  <2>1. Become(f) /\ Top.i < Heads
    BY <1>7 DEF ReadHead
  <2>2. f.calls = Top.calls /\ f.i = Top.i + 1 /\ f.moved = Top.moved
    BY <1>0 DEF Frames
  <2> HIDE DEF f
  <2>3. Fits(f)
    BY <1>0, <2>1, <2>2 DEF Fits, Bounds
  <2> QED
    BY <2>1, <2>3
<1>8. ASSUME NEW raises \in BOOLEAN, BlockEnds(raises) PROVE Moves
  <2> DEFINE f == [Top EXCEPT !.pc = IF raises THEN "cleanup" ELSE "heads",
                             !.calls = @ + 1, !.raised = raises, !.exception = raises]
  <2>1. Become(f) /\ Top.pc = "block"
    BY <1>8 DEF BlockEnds, At
  <2>2. f.calls = Top.calls + 1 /\ f.i = Top.i /\ f.moved = Top.moved /\ f.pc # "block"
    BY <1>0 DEF Frames
  <2> HIDE DEF f
  <2>3. Fits(f)
    BY <1>0, <2>1, <2>2 DEF Fits, Bounds
  <2> QED
    BY <2>1, <2>3
<1> QED
  BY <1>1, <1>3, <1>4, <1>5, <1>6, <1>7, <1>8, Zenon DEF RemoteNext

\* What an action does besides the operation it changes.
LEMMA BesidesTheStack ==
    ASSUME RemoteNext
    PROVE  /\ started' = started \/ (started < MaxStarted /\ started' = started + 1)
           /\ jumped' = jumped \/ jumped' = TRUE
           /\ \/ leaked' = leaked
              \/ /\ leaked' = leaked \cup {[op |-> Top.op, pc |-> Top.pc]}
                 /\ Active /\ Top.pc \in {"options", "rest", "connect", "cleanup"}
<1> DEFINE Counted == started' = started \/ (started < MaxStarted /\ started' = started + 1)
           Jumped == jumped' = jumped \/ jumped' = TRUE
           Leaking == \/ leaked' = leaked
                      \/ /\ leaked' = leaked \cup {[op |-> Top.op, pc |-> Top.pc]}
                         /\ Active /\ Top.pc \in {"options", "rest", "connect", "cleanup"}
<1> SUFFICES Counted /\ Jumped /\ Leaking
  OBVIOUS
<1>l. ASSUME NEW f, NEW end, Leave(f, end) PROVE started' = started
  <2>1. CASE Len(stack) = 1
    BY <1>l, <2>1, Zenon DEF Leave, Become
  <2>2. CASE Len(stack) # 1
    BY <1>l, <2>2, Zenon DEF Leave
  <2> QED
    BY <2>1, <2>2
<1>b. ASSUME NEW f, Become(f) PROVE started' = started
  BY <1>b DEF Become
<1>k. ASSUME Leak, Active, Top.pc \in {"options", "rest", "connect", "cleanup"} PROVE Leaking
  BY <1>k DEF Leak
<1>q. ASSUME UNCHANGED <<leaked, jumped>>, started' = started PROVE Counted /\ Jumped /\ Leaking
  BY <1>q
<1>1. ASSUME NEW op \in Operations, Start(op) PROVE Counted /\ Jumped /\ Leaking
  BY <1>1 DEF Start
<1>2. CASE Refuse
  <2>1. Leak /\ Active /\ Top.pc \in {"options", "rest"} /\ jumped' = jumped
    BY <1>2 DEF Refuse, At
  <2>2. started' = started
    BY <1>2, <1>l, Zenon DEF Refuse
  <2> QED
    BY <2>1, <2>2, <1>k
<1>3. CASE CertificateCheckBadAnswer
  <2>1. Leak /\ Active /\ Top.pc = "connect" /\ jumped' = TRUE
    BY <1>3 DEF CertificateCheckBadAnswer, At
  <2>2. started' = started
    BY <1>3, <1>l, Zenon DEF CertificateCheckBadAnswer
  <2> QED
    BY <2>1, <2>2, <1>k
<1>4. CASE Finish
  <2>1. Active /\ Top.pc = "cleanup" /\ jumped' = jumped /\ (Leak \/ leaked' = leaked)
    BY <1>4 DEF Finish, At
  <2>2. started' = started
    BY <1>4, <1>l, Zenon DEF Finish
  <2> QED
    BY <2>1, <2>2, <1>k
<1>5. CASE ParseCallbacks
  <2>1. UNCHANGED <<leaked, jumped>>
    BY <1>5 DEF ParseCallbacks
  <2>2. started' = started
    BY <1>5, <1>b, Zenon DEF ParseCallbacks
  <2> QED
    BY <2>1, <2>2, <1>q
<1>6. CASE ParseRest
  <2>1. UNCHANGED <<leaked, jumped>>
    BY <1>6 DEF ParseRest
  <2>2. started' = started
    BY <1>6, <1>b, Zenon DEF ParseRest
  <2> QED
    BY <2>1, <2>2, <1>q
<1>7. CASE Connect
  <2>1. UNCHANGED <<leaked, jumped>>
    BY <1>7 DEF Connect
  <2>2. started' = started
    BY <1>7, <1>b, Zenon DEF Connect
  <2> QED
    BY <2>1, <2>2, <1>q
<1>8. CASE Transferred
  <2>1. UNCHANGED <<leaked, jumped>>
    BY <1>8 DEF Transferred
  <2>2. started' = started
    BY <1>8, <1>b, Zenon DEF Transferred
  <2> QED
    BY <2>1, <2>2, <1>q
<1>9. CASE Fail
  <2>1. UNCHANGED <<leaked, jumped>>
    BY <1>9 DEF Fail
  <2>2. started' = started
    BY <1>9, <1>b, Zenon DEF Fail
  <2> QED
    BY <2>1, <2>2, <1>q
<1>10. CASE TipsUpdated
  <2>1. UNCHANGED <<leaked, jumped>>
    BY <1>10 DEF TipsUpdated
  <2>2. started' = started
    BY <1>10, <1>b, Zenon DEF TipsUpdated
  <2> QED
    BY <2>1, <2>2, <1>q
<1>11. CASE List
  <2>1. UNCHANGED <<leaked, jumped>>
    BY <1>11 DEF List
  <2>2. started' = started
    BY <1>11, <1>b, Zenon DEF List
  <2> QED
    BY <2>1, <2>2, <1>q
<1>12. CASE ReadHead
  <2>1. UNCHANGED <<leaked, jumped>>
    BY <1>12 DEF ReadHead
  <2>2. started' = started
    BY <1>12, <1>b, Zenon DEF ReadHead
  <2> QED
    BY <2>1, <2>2, <1>q
<1>13. CASE NoMoreHeads
  <2>1. UNCHANGED <<leaked, jumped>>
    BY <1>13 DEF NoMoreHeads
  <2>2. started' = started
    BY <1>13, <1>b, Zenon DEF NoMoreHeads
  <2> QED
    BY <2>1, <2>2, <1>q
<1>14. ASSUME NEW raises \in BOOLEAN, Callback(raises) PROVE Counted /\ Jumped /\ Leaking
  <2>1. UNCHANGED <<leaked, jumped>>
    BY <1>14 DEF Callback
  <2>2. started' = started
    BY <1>14, <1>b, Zenon DEF Callback
  <2> QED
    BY <2>1, <2>2, <1>q
<1>15. ASSUME NEW raises \in BOOLEAN, UpdateTip(raises) PROVE Counted /\ Jumped /\ Leaking
  <2>1. UNCHANGED <<leaked, jumped>>
    BY <1>15 DEF UpdateTip
  <2>2. started' = started
    BY <1>15, <1>b, Zenon DEF UpdateTip
  <2> QED
    BY <2>1, <2>2, <1>q
<1>16. ASSUME NEW raises \in BOOLEAN, BlockEnds(raises) PROVE Counted /\ Jumped /\ Leaking
  <2>1. UNCHANGED <<leaked, jumped>>
    BY <1>16 DEF BlockEnds
  <2>2. started' = started
    BY <1>16, <1>b, Zenon DEF BlockEnds
  <2> QED
    BY <2>1, <2>2, <1>q
<1> HIDE DEF Counted, Jumped, Leaking
<1> QED
  BY <1>1, <1>2, <1>3, <1>4, <1>5, <1>6, <1>7, <1>8, <1>9, <1>10, <1>11, <1>12, <1>13, <1>14, <1>15, <1>16, Zenon DEF RemoteNext

\* The operations that go on inside one that ends, or that begins, are as before.
LEMMA WithinStep ==
    ASSUME RemoteInv, Within, [RemoteNext]_remoteVars, Bounds
    PROVE  Within'
<1> DEFINE n == Len(stack)
<1>0. /\ Nested /\ n \in Nat /\ stack \in Seq(Frames) /\ started \in Nat
      /\ \A k \in 1 .. n : Fits(stack[k])
  BY DEF RemoteInv, Nested, Within
<1>1. CASE UNCHANGED remoteVars
  BY <1>1 DEF remoteVars, Within, Fits
<1>2. CASE RemoteNext
  <2>1. jumped' \in BOOLEAN /\ started' <= MaxStarted
    <3>1. jumped' = jumped \/ jumped' = TRUE
      BY <1>2, BesidesTheStack
    <3>2. started' = started \/ (started < MaxStarted /\ started' = started + 1)
      BY <1>2, BesidesTheStack
    <3>3. started <= MaxStarted /\ MaxStarted \in Nat
      BY DEF Within, Bounds
    <3>4. started' <= MaxStarted
      BY <1>0, <3>2, <3>3
    <3>5. jumped' \in BOOLEAN
      BY <3>1, Zenon DEF Within
    <3> QED
      BY <3>4, <3>5
  <2>2. leaked' \subseteq [op: Operations, pc: {"options", "rest", "connect", "cleanup"}]
    <3>1. \/ leaked' = leaked
          \/ /\ leaked' = leaked \cup {[op |-> Top.op, pc |-> Top.pc]}
             /\ Active /\ Top.pc \in {"options", "rest", "connect", "cleanup"}
      BY <1>2, BesidesTheStack
    <3>2. Active => Top.op \in Operations
      BY <1>0, TopIs DEF Frames
    <3> QED
      BY <3>1, <3>2 DEF Within
  <2>3. ASSUME NEW op \in Operations, Start(op) PROVE \A k \in 1 .. Len(stack') : Fits(stack'[k])
    <3> DEFINE g == [op |-> op, pc |-> "options", exception |-> FALSE, error |-> FALSE,
                     memory |-> IF op \in {"fetch", "push"} THEN {"refspecs"} ELSE {},
                     list |-> 0, i |-> 0, moved |-> 0, calls |-> 0, raised |-> FALSE,
                     outcome |-> "pending"]
    <3>1. g \in Frames /\ Fits(g)
      BY DEF Frames, Outcomes, Fits, Bounds
    <3>2. stack' = Append(stack, g)
      BY <2>3 DEF Start
    <3> HIDE DEF g
    <3>3. /\ Len(stack') = n + 1 /\ stack'[n + 1] = g
          /\ \A k \in 1 .. n : stack'[k] = stack[k]
      BY <1>0, <3>1, <3>2
    <3> HIDE DEF n
    <3> QED
      BY <1>0, <3>1, <3>3
  <2>4. ASSUME Active, NEW f, Become(f), Fits(f) PROVE \A k \in 1 .. Len(stack') : Fits(stack'[k])
    <3>1. /\ Len(stack') = n /\ stack'[n] = f
          /\ \A k \in 1 .. n - 1 : stack'[k] = stack[k]
      BY <1>0, <2>4, BecomeIs
    <3> HIDE DEF n
    <3> QED
      BY <1>0, <2>4, <3>1
  <2>5. ASSUME Active, NEW end, Leave(Top, end) PROVE \A k \in 1 .. Len(stack') : Fits(stack'[k])
    <3> DEFINE g == [Top EXCEPT !.pc = "done", !.memory = {}, !.outcome = end]
    <3>1. Top = stack[n] /\ n \in Nat \ {0} /\ Top \in Frames
      BY <1>0, <2>5, TopIs
    <3>2. CASE n = 1
      <4>1. Become(g)
        BY <2>5, <3>2 DEF Leave
      <4>2. g.calls = Top.calls /\ g.i = Top.i /\ g.moved = Top.moved /\ g.pc = "done"
        BY <3>1 DEF Frames
      <4> HIDE DEF g
      <4>3. Fits(Top)
        <5>1. n \in 1 .. n
          BY <3>1
        <5> HIDE DEF n
        <5> QED
          BY <1>0, <3>1, <5>1
      <4>4. Fits(g)
        BY <4>2, <4>3 DEF Fits
      <4> QED
        BY <2>4, <2>5, <4>1, <4>4
    <3>3. CASE n # 1
      <4>1. stack' = Front(stack)
        BY <2>5, <3>3 DEF Leave
      <4>2. Len(stack') = n - 1 /\ \A k \in 1 .. n - 1 : stack'[k] = stack[k]
        BY <1>0, <2>5, <4>1, FrontIs
      <4> HIDE DEF n
      <4> QED
        BY <1>0, <4>2
    <3> QED
      BY <3>2, <3>3
  <2>6. \A k \in 1 .. Len(stack') : Fits(stack'[k])
    <3>1. CASE Active
      <4>1. Top = stack[n] /\ n \in 1 .. n
        BY <1>0, <3>1, TopIs
      <4>2. Fits(Top)
        BY <1>0, <4>1
      <4> QED
        BY <1>2, <2>3, <2>4, <2>5, <3>1, <4>2, FitsSteps
    <3>2. CASE ~Active
      <4>1. \E op \in Operations : Start(op)
        BY <1>2, <3>2, Zenon
        DEF RemoteNext, Refuse, ParseCallbacks, ParseRest, Callback, UpdateTip, BlockEnds,
            CertificateCheckBadAnswer, Connect, Transferred, Fail, TipsUpdated, List,
            ReadHead, NoMoreHeads, Finish, At
      <4> QED
        BY <2>3, <4>1
    <3> QED
      BY <3>1, <3>2
  <2> QED
    BY <2>1, <2>2, <2>6 DEF Within, Fits
<1> QED
  BY <1>1, <1>2

\* However operations are nested, ls gives its blocks at most the heads that the remote
\* advertises, no fetch or push updates more references than there are to update,
\* and memory gets out of reach only where options are read, where libgit2
\* connects and in the cleanup.
THEOREM RemoteTyped == RemoteSpec => []RemoteTypeOK
<1>0. Bounds
  BY BoundsAssumption DEF Bounds
<1>1. ASSUME RemoteInit PROVE Within
  <2>1. started <= MaxStarted /\ leaked = {} /\ jumped = FALSE
    BY <1>0, <1>1 DEF RemoteInit, Bounds
  <2>2. Len(stack) = 0
    BY <1>1 DEF RemoteInit
  <2>3. 1 .. 0 = {}
    OBVIOUS
  <2> QED
    BY <2>1, <2>2, <2>3 DEF Within
<1>2. RemoteInv /\ Within /\ [RemoteNext]_remoteVars => Within'
  BY <1>0, WithinStep
<1>3. RemoteInv /\ Within => RemoteTypeOK
  <2> SUFFICES ASSUME RemoteInv, Within PROVE RemoteTypeOK
    OBVIOUS
  <2>1. /\ stack \in Seq(Frames) /\ Len(stack) \in Nat
        /\ started \in Nat /\ gen \in Nat /\ tips \in Nat
        /\ connected \in BOOLEAN /\ stale \in BOOLEAN
    BY DEF RemoteInv, Nested
  <2>2. ASSUME NEW k \in 1 .. Len(stack) PROVE stack[k] \in Frame
    <3> DEFINE f == stack[k]
    <3>1. f \in Frames /\ Fits(f)
      BY <2>1 DEF Within
    <3> HIDE DEF f
    <3>2. f.i \in 0 .. Heads /\ f.moved \in 0 .. Tips /\ f.calls \in 0 .. MaxCalls + Heads
      BY <1>0, <3>1 DEF Fits, Frames, Bounds
    <3>3. f \in Frame
      BY <3>1, <3>2 DEF Frames, Frame
    <3> QED
      BY <3>3 DEF f
  <2>3. stack \in Seq(Frame)
    BY <2>1, <2>2
  <2>4. started \in 0 .. MaxStarted
    BY <1>0, <2>1 DEF Within, Bounds
  <2> QED
    BY <2>1, <2>3, <2>4 DEF RemoteTypeOK, Within
<1> QED
  BY <1>1, <1>2, <1>3, RemoteInvariant, PTL DEF RemoteSpec

\* However ls and check_connection end and whatever the block of ls has started
\* on the same remote, they leave it disconnected.
THEOREM RemoteDisconnects == RemoteSpec => []Disconnected
  BY RemoteInvariant, PTL DEF RemoteInv

\* No operation on a remote that libgit2 has returned to keeps its copies of the
\* refspecs and the headers, whatever its blocks did.
THEOREM RemoteReleases == RemoteSpec => []MemoryReleased
  BY RemoteInvariant, PTL DEF RemoteInv

\* ls reads a head of a connection that is gone only after its block has started
\* another operation.
THEOREM RemoteHeadsFresh == RemoteSpec => []HeadsFresh
  BY RemoteInvariant, PTL DEF RemoteInv

\* Once a block of a fetch or a push has raised, no reference is updated any
\* more, for any number of references.
THEOREM RemoteTipsCancelled == RemoteSpec => TipsCancelled
<1>1. RemoteInv /\ [RemoteNext]_remoteVars => [Active /\ Top.raised => tips' = tips]_remoteVars
  <2> SUFFICES ASSUME RemoteInv, RemoteNext, Active, Top.raised PROVE tips' = tips
    OBVIOUS
  <2> QED
    BY RemoteSteps DEF Goes, Leaves, Start, native
<1> QED
  BY <1>1, RemoteInvariant, PTL DEF RemoteSpec, TipsCancelled

-----------------------------------------------------------------------------
(* The outermost operation implements Relay.                                *)

\* The outermost operation has not begun.
LEMMA RemoteRelayInit == RemoteInit => AsRelay!Init
  BY DEF RemoteInit, AsRelay!Init, Active

\* What a step does to the outermost operation is a step of Relay.
LEMMA RemoteRelayStep ==
    ASSUME RemoteInv, RemoteNext
    PROVE  [AsRelay!Next]_AsRelay!relayVars
<1> DEFINE n == Len(stack)
<1> DEFINE Unmoved == stack' # <<>> /\ stack'[1].calls = stack[1].calls
                   /\ stack'[1].raised = stack[1].raised /\ stack'[1].outcome = stack[1].outcome
<1>1. ASSUME Active, Unmoved PROVE UNCHANGED AsRelay!relayVars
  BY <1>1 DEF AsRelay!relayVars, Active
<1>2. ASSUME NEW op \in Operations, Start(op)
      PROVE  UNCHANGED AsRelay!relayVars
  <2> DEFINE g == [op |-> op, pc |-> "options", exception |-> FALSE, error |-> FALSE,
                   memory |-> IF op \in {"fetch", "push"} THEN {"refspecs"} ELSE {},
                   list |-> 0, i |-> 0, moved |-> 0, calls |-> 0, raised |-> FALSE,
                   outcome |-> "pending"]
  <2>1. stack' = Append(stack, g) /\ stack \in Seq(Frames) /\ n \in Nat
    BY <1>2 DEF Start, RemoteInv, Nested
  <2>2. g.calls = 0 /\ ~g.raised /\ g.outcome = "pending"
    OBVIOUS
  <2> HIDE DEF g
  <2>3. CASE Active
    <3>1. stack' # <<>> /\ stack'[1] = stack[1]
      BY <2>1, <2>3 DEF Active
    <3> QED
      BY <1>1, <2>3, <3>1
  <2>4. CASE ~Active
    <3>1. stack' # <<>> /\ stack'[1] = g
      BY <2>1, <2>4 DEF Active
    <3> QED
      BY <2>2, <2>4, <3>1 DEF AsRelay!relayVars, Active
  <2> QED
    BY <2>3, <2>4
<1>3. ASSUME Active
      PROVE  /\ n \in Nat \ {0} /\ Top = stack[n] /\ Top \in Frames /\ Steady(Top)
  BY <1>3, TopIs DEF RemoteInv
<1>4. ASSUME NEW f, Goes(f) PROVE [AsRelay!Next]_AsRelay!relayVars
  <2>1. Active /\ Become(f) /\ f \in Frames
    BY <1>4 DEF Goes
  <2>2. Len(stack') = n /\ stack' # <<>> /\ stack'[n] = f
        /\ \A k \in 1 .. n - 1 : stack'[k] = stack[k]
    BY <2>1, BecomeIs DEF RemoteInv
  <2>3. CASE n # 1
    <3>1. stack'[1] = stack[1]
      BY <1>3, <2>1, <2>2, <2>3
    <3> QED
      BY <1>1, <2>1, <2>2, <3>1
  <2>4. CASE n = 1
    <3>1. stack'[1] = f /\ Top = stack[1] /\ f.outcome = stack[1].outcome
      BY <1>3, <1>4, <2>1, <2>2, <2>4 DEF Goes
    <3>2. CASE f.calls = Top.calls /\ f.raised = Top.raised
      BY <1>1, <2>1, <2>2, <3>1, <3>2
    <3>3. CASE f.calls = Top.calls + 1 /\ ~Top.raised
      <4>1. stack[1].outcome = "pending"
        BY <1>3, <1>4, <2>1, <3>1 DEF Goes, Steady, Frames, Outcomes
      <4>2. f.raised \in BOOLEAN
        BY <2>1 DEF Frames
      <4> QED
        BY <2>1, <2>2, <3>1, <3>3, <4>1, <4>2
           DEF AsRelay!Next, AsRelay!Call, AsRelay!relayVars, Active
    <3> QED
      BY <1>4, <3>2, <3>3 DEF Goes
  <2> QED
    BY <2>3, <2>4
<1>5. ASSUME NEW end, Leaves(end) PROVE [AsRelay!Next]_AsRelay!relayVars
  <2>1. Active /\ Leave(Top, end)
    BY <1>5 DEF Leaves
  <2>2. CASE n # 1
    <3>1. stack' = Front(stack)
      BY <2>1, <2>2 DEF Leave
    <3>2. stack' # <<>> /\ stack'[1] = stack[1]
      BY <1>3, <2>1, <2>2, <3>1, FrontIs DEF RemoteInv
    <3> QED
      BY <1>1, <2>1, <3>2
  <2>3. CASE n = 1
    <3> DEFINE g == [Top EXCEPT !.pc = "done", !.memory = {}, !.outcome = end]
    <3>1. Become(g)
      BY <2>1, <2>3 DEF Leave
    <3>2. /\ g.outcome = end /\ g.raised = Top.raised /\ g.calls = Top.calls
      BY <1>3, <2>1 DEF Frames
    <3> HIDE DEF g
    <3>3. stack' # <<>> /\ stack'[1] = g /\ Top = stack[1]
      BY <1>3, <2>1, <2>3, <3>1, BecomeIs DEF RemoteInv
    <3>4. stack[1].outcome = "pending" /\ stack[1].raised \in BOOLEAN
      BY <1>3, <1>5, <2>1, <3>3 DEF Leaves, Steady, Frames, Outcomes
    <3>5. end \in IF stack[1].raised THEN {"raised"} ELSE {"returned", "failed"}
      BY <1>5, <3>3 DEF Leaves
    <3> QED
      BY <2>1, <3>2, <3>3, <3>4, <3>5
         DEF AsRelay!Next, AsRelay!End, AsRelay!relayVars, Active
  <2> QED
    BY <2>2, <2>3
<1> QED
  BY <1>2, <1>4, <1>5, RemoteSteps

\* Whatever operations are nested in its blocks, an operation on a remote runs no
\* block of its own after one has raised, raises the exception of that one, and
\* returns or reports an error only if none has.
THEOREM RemoteKeepsRelay == RemoteSpec => RelaySpec
<1>1. RemoteInv /\ [RemoteNext]_remoteVars => [AsRelay!Next]_AsRelay!relayVars
  <2>1. CASE UNCHANGED remoteVars
    BY <2>1 DEF remoteVars, AsRelay!relayVars, Active
  <2> QED
    BY <2>1, RemoteRelayStep
<1> QED
  BY <1>1, RemoteRelayInit, RemoteInvariant, PTL DEF RemoteSpec, RelaySpec, AsRelay!Spec

=============================================================================
