---------------------------- MODULE IndexProofs ----------------------------
(***************************************************************************)
(* each, add_all, update_all and remove_all keep the promise of Relay,     *)
(* whatever the paths, the entries and the files are, and whatever the     *)
(* block does with the index.                                              *)
(*                                                                         *)
(* If the block leaves the index alone they come to all entries, although  *)
(* remove_all goes through a vector from which it removes.  The argument   *)
(* is about ranks: an entry has the position that the number of entries    *)
(* before it gives, and removing entries from a position on changes none   *)
(* of the numbers of those before.                                         *)
(*                                                                         *)
(* A method comes to its end, because each step of it descends in an       *)
(* order that has no infinite descent.                                     *)
(***************************************************************************)
EXTENDS Index, FiniteSetTheorems, SequenceTheorems, TLAPS

\* The payload holds the exception of the block, from which there is only one
\* way, to the end; the outcome is what the method ended with.
Carried ==
    /\ pc \in {"idle", "next", "block", "apply", "after", "done"}
    /\ raised \in BOOLEAN /\ exception \in BOOLEAN /\ error \in BOOLEAN
    /\ exception = raised
    /\ raised => pc \in {"after", "done"}
    /\ outcome = "pending" <=> pc # "done"

\* Entries and paths are mixed in what the block was given.
Shown == \E S : yielded \in Seq(S)

IInv == Carried /\ Shown

\* The block is given one more entry or path.
LEMMA Longer ==
    ASSUME NEW x, Shown, yielded' = Append(yielded, x)
    PROVE  Shown' /\ Len(yielded') = Len(yielded) + 1 /\ Len(yielded) \in Nat
<1>1. PICK S : yielded \in Seq(S)
  BY DEF Shown
<1>2. yielded \in Seq(S \cup {x})
  BY <1>1
<1>3. yielded' \in Seq(S \cup {x})
  BY <1>2
<1> QED
  BY <1>1, <1>3 DEF Shown

\* The number of calls of the block is a number.
LEMMA Counted == Shown => Len(yielded) \in Nat
  BY DEF Shown

\* No method has been called.
LEMMA InitIInv == Init => IInv
<1> SUFFICES ASSUME Init PROVE IInv
  OBVIOUS
<1>1. yielded \in Seq({})
  BY DEF Init
<1> QED
  BY <1>1 DEF Init, IInv, Carried, Shown

\* What a step does to the variables that Relay sees.
Stutters ==
    /\ UNCHANGED <<raised, outcome, exception>>
    /\ error' \in BOOLEAN
    /\ pc' \in {"idle", "next", "block", "apply", "after"}
    /\ raised => pc' = "after"
    /\ \/ yielded' = yielded /\ (pc = "block" <=> pc' = "block")
       \/ pc # "block" /\ pc' = "block" /\ \E x : yielded' = Append(yielded, x)

Calls ==
    /\ pc = "block"
    /\ pc' \in {"next", "apply", "after"}
    /\ raised' \in BOOLEAN /\ error' \in BOOLEAN
    /\ raised' => pc' = "after"
    /\ exception' = raised'
    /\ UNCHANGED <<outcome, yielded>>

Ends ==
    /\ pc \in {"idle", "after"}
    /\ pc' = "done"
    /\ outcome' \in IF raised THEN {"raised"} ELSE {"returned", "failed"}
    /\ UNCHANGED <<raised, exception, error, yielded>>

\* Each action either leaves Relay alone or begins a call of the block, or ends
\* one, or ends the method.
LEMMA Steps ==
    ASSUME IInv, Next
    PROVE  pc # "done" /\ (Stutters \/ Calls \/ Ends)
<1> USE DEF IInv, Carried
<1>1. ASSUME NEW E, NEW sides, Edit(E, sides) PROVE pc # "done" /\ Stutters
  BY <1>1 DEF Edit, Stutters, ending
<1>2. CASE Program
  <2>1. \E E, sides : Edit(E, sides)
    BY <1>2 DEF Program, AddEntry, AddPath, ConflictRemove, RemoveEntry, RemoveDir, Load,
                ConflictAdd, ConflictCleanup
  <2> QED
    BY <1>1, <2>1
<1>3. ASSUME NEW m, NEW b, NEW M, Start(m, b, M) PROVE pc # "done" /\ Stutters
  BY <1>3 DEF Start, Stutters, ending
<1>4. CASE Refuse
  BY <1>4 DEF Refuse, Ends
<1>5. CASE EachYield
  BY <1>5 DEF EachYield, Stutters, ending, program
<1>6. ASSUME NEW p, NEW s, Consider(p, s), pc = "next" PROVE Stutters
  BY <1>6 DEF Consider, Stutters, ending
<1>7. CASE ConsiderDelta
  BY <1>6, <1>7 DEF ConsiderDelta
<1>8. CASE ConsiderEntry
  BY <1>6, <1>8 DEF ConsiderEntry, Stutters, ending
<1>9. ASSUME NEW yes \in BOOLEAN, BlockReturns(yes) PROVE pc # "done" /\ Calls
  BY <1>9 DEF BlockReturns, Calls, ending
<1>10. CASE BlockRaises
  BY <1>10 DEF BlockRaises, Calls
<1>11. ASSUME NEW p, Apply(p) PROVE pc # "done" /\ Stutters
  BY <1>11 DEF Apply, Stutters, ending
<1>12. CASE ApplyFails
  BY <1>12 DEF ApplyFails, Stutters
<1>13. CASE Exhausted
  BY <1>13 DEF Exhausted, Stutters, ending
<1>14. CASE Return
  BY <1>14 DEF Return, Ends
<1> QED
  BY <1>2, <1>3, <1>4, <1>5, <1>7, <1>8, <1>9, <1>10, <1>11, <1>12, <1>13, <1>14 DEF Next

\* Every step keeps the exception in the payload.
LEMMA NextIInv == IInv /\ [Next]_vars => IInv'
<1> SUFFICES ASSUME IInv, [Next]_vars PROVE IInv'
  OBVIOUS
<1>1. CASE Next
  <2>1. CASE Stutters
    <3>1. Shown'
      BY <2>1, Longer DEF Stutters, IInv, Shown
    <3> QED
      BY <1>1, <2>1, <3>1, Steps DEF Stutters, IInv, Carried
  <2>2. CASE Calls
    BY <2>2 DEF Calls, IInv, Carried, Shown
  <2>3. CASE Ends
    BY <2>3 DEF Ends, IInv, Carried, Shown
  <2> QED
    BY <1>1, <2>1, <2>2, <2>3, Steps
<1>2. CASE UNCHANGED vars
  BY <1>2 DEF vars, IInv, Carried, Shown
<1> QED
  BY <1>1, <1>2

\* What a step does to the exception and the outcome is a step of Relay.
LEMMA NextRelay == IInv /\ [Next]_vars => [AsRelay!Next]_(AsRelay!relayVars)
<1> SUFFICES ASSUME IInv, [Next]_vars PROVE [AsRelay!Next]_(AsRelay!relayVars)
  OBVIOUS
<1> USE DEF AsRelay!Next, AsRelay!relayVars
<1>1. CASE Next
  <2>1. ASSUME Stutters PROVE UNCHANGED AsRelay!relayVars
    BY <2>1, Longer DEF Stutters, IInv
  <2>2. ASSUME Calls PROVE AsRelay!Call
    BY <2>2, Counted DEF Calls, IInv, Carried, AsRelay!Call
  <2>3. ASSUME Ends PROVE AsRelay!End
    BY <2>3, <1>1, Steps DEF Ends, IInv, Carried, AsRelay!End
  <2> QED
    BY <1>1, <2>1, <2>2, <2>3, Steps
<1>2. CASE UNCHANGED vars
  BY <1>2 DEF vars
<1> QED
  BY <1>1, <1>2

\* Whatever the block does with the index that is being iterated: it runs no
\* more once it has raised, the method then raises its exception, and reports
\* an error or returns only if it has not.
THEOREM IterationsRelay == Spec => RelaySpec
<1>1. Init => AsRelay!Init
  BY DEF Init, AsRelay!Init
<1>2. Spec => []IInv
  BY InitIInv, NextIInv, PTL DEF Spec
<1> QED
  BY <1>1, <1>2, NextRelay, PTL DEF Spec, RelaySpec, AsRelay!Spec

-----------------------------------------------------------------------------
(* The order of the entries.                                                *)

IsOrder(S, order) ==
    /\ \A x \in S : <<x, x>> \notin order
    /\ \A x, y \in S : x = y \/ <<x, y>> \in order \/ <<y, x>> \in order
    /\ \A x, y, z \in S : <<x, y>> \in order /\ <<y, z>> \in order => <<x, z>> \in order

\* How many members of S are before x.
Rank(x, S, order) == Cardinality(Ahead(x, S, order))

\* Less than all members are before x, and fewer are before what is before x.
LEMMA RankFacts ==
    ASSUME NEW S, IsFiniteSet(S), NEW order, IsOrder(S, order), NEW x \in S
    PROVE  /\ Rank(x, S, order) \in 0 .. Cardinality(S) - 1
           /\ \A y \in S : <<y, x>> \in order => Rank(y, S, order) < Rank(x, S, order)
<1>1. ASSUME NEW y \in S
      PROVE  /\ IsFiniteSet(Ahead(y, S, order)) /\ Rank(y, S, order) \in Nat
             /\ Ahead(y, S, order) \subseteq S /\ y \notin Ahead(y, S, order)
  <2>1. Ahead(y, S, order) \subseteq S /\ y \notin Ahead(y, S, order)
    BY DEF Ahead, IsOrder
  <2>2. IsFiniteSet(Ahead(y, S, order))
    BY <2>1, FS_Subset
  <2> QED
    BY <2>1, <2>2, FS_CardinalityType DEF Rank
<1>2. ASSUME NEW T, IsFiniteSet(T), NEW R \in SUBSET T, R # T
      PROVE  Cardinality(R) < Cardinality(T)
  <2>1. IsFiniteSet(R) /\ Cardinality(R) <= Cardinality(T) /\ Cardinality(R) # Cardinality(T)
    BY <1>2, FS_Subset
  <2>2. Cardinality(R) \in Nat /\ Cardinality(T) \in Nat
    BY <1>2, <2>1, FS_CardinalityType
  <2> QED
    BY <2>1, <2>2
<1>3. Rank(x, S, order) < Cardinality(S) /\ Cardinality(S) \in Nat
  BY <1>1, <1>2, FS_CardinalityType DEF Rank
<1>4. ASSUME NEW y \in S, <<y, x>> \in order PROVE Rank(y, S, order) < Rank(x, S, order)
  <2>1. Ahead(y, S, order) \subseteq Ahead(x, S, order)
    BY <1>4 DEF Ahead, IsOrder
  <2>2. y \in Ahead(x, S, order) /\ y \notin Ahead(y, S, order)
    BY <1>1, <1>4 DEF Ahead
  <2> QED
    BY <1>1, <1>2, <2>1, <2>2 DEF Rank
<1> QED
  BY <1>1, <1>3, <1>4

\* Sorting a finite set finds each member at the place that its rank gives.
LEMMA InOrderIs ==
    ASSUME NEW S, IsFiniteSet(S), NEW order, IsOrder(S, order)
    PROVE  /\ InOrder(S, order) \in Seq(S) /\ Len(InOrder(S, order)) = Cardinality(S)
           /\ \A i \in 1 .. Cardinality(S) :
                  InOrder(S, order)[i] \in S /\ Rank(InOrder(S, order)[i], S, order) = i - 1
           /\ \A x \in S : InOrder(S, order)[Rank(x, S, order) + 1] = x
<1> DEFINE n == Cardinality(S)
           f == [x \in S |-> Rank(x, S, order)]
           T == 0 .. n - 1
<1>0. n \in Nat
  BY FS_CardinalityType
<1>1. \A x \in S : Rank(x, S, order) \in T
  BY RankFacts
<1>2. \A x, y \in S : Rank(x, S, order) = Rank(y, S, order) => x = y
  <2> SUFFICES ASSUME NEW x \in S, NEW y \in S, Rank(x, S, order) = Rank(y, S, order), x # y
               PROVE  FALSE
    OBVIOUS
  <2>1. Rank(x, S, order) < Rank(y, S, order) \/ Rank(y, S, order) < Rank(x, S, order)
    BY RankFacts DEF IsOrder
  <2> QED
    BY <1>1, <2>1
<1>3. f \in Injection(S, T)
  BY <1>1, <1>2 DEF Injection, IsInjective
<1>4. IsFiniteSet(T) /\ Cardinality(T) = n
  <2> HIDE DEF n
  <2>1. IsFiniteSet(T) /\ Cardinality(T) = IF 0 > n - 1 THEN 0 ELSE n - 1 - 0 + 1
    BY <1>0, FS_Interval
  <2> QED
    BY <1>0, <2>1
<1>5. f \in Surjection(S, T)
  BY <1>3, <1>4, FS_Injection
<1>6. \A i \in T : \E x \in S : Rank(x, S, order) = i
  BY <1>5 DEF Surjection
<1> HIDE DEF n
<1>7. ASSUME NEW i \in 1 .. n
      PROVE  InOrder(S, order)[i] \in S /\ Rank(InOrder(S, order)[i], S, order) = i - 1
  <2>1. i - 1 \in T
    BY <1>0
  <2>2. \E x \in S : Rank(x, S, order) = i - 1
    BY <1>6, <2>1
  <2>3. InOrder(S, order)[i] = CHOOSE x \in S : Rank(x, S, order) = i - 1
    BY DEF InOrder, Rank, n
  <2> QED
    BY <2>2, <2>3
<1>8. DOMAIN InOrder(S, order) = 1 .. n
  BY DEF InOrder, n
<1>9. InOrder(S, order) \in Seq(S) /\ Len(InOrder(S, order)) = n
  <2> DEFINE c(i) == CHOOSE x \in S : Cardinality(Ahead(x, S, order)) = i - 1
  <2>1. InOrder(S, order) = [i \in 1 .. n |-> c(i)]
    BY DEF InOrder, n
  <2>2. \A i \in 1 .. n : c(i) \in S
    BY <1>7, <2>1
  <2> HIDE DEF c
  <2>3. InOrder(S, order) \in [1 .. n -> S]
    BY <2>1, <2>2
  <2> QED
    BY <1>0, <2>3
<1>10. ASSUME NEW x \in S PROVE InOrder(S, order)[Rank(x, S, order) + 1] = x
  <2> DEFINE i == Rank(x, S, order) + 1
  <2>1. i \in 1 .. n /\ i - 1 = Rank(x, S, order)
    BY <1>0, <1>1
  <2> HIDE DEF i
  <2>2. InOrder(S, order)[i] \in S /\ Rank(InOrder(S, order)[i], S, order) = Rank(x, S, order)
    BY <1>7, <2>1
  <2>3. InOrder(S, order)[i] = x
    BY <1>2, <2>2
  <2> QED
    BY <2>3 DEF i
<1> QED
  BY <1>7, <1>9, <1>10 DEF n

\* A set of entries can be sorted.
LEMMA EntriesOrder ==
    ASSUME NEW E \in SUBSET Entry, Single(E)
    PROVE  IsFiniteSet(E) /\ Cardinality(E) \in Nat /\ IsOrder(E, EntryOrder)
<1> DEFINE f == [e \in E |-> <<e.path, e.stage>>]
           T == Paths \X Stages
<1>0. \A d, e \in E : <<d.path, d.stage>> = <<e.path, e.stage>> => d = e
  BY DEF Single
<1>1. f \in Injection(E, T)
  <2>0. \A e \in E : e \in Entry
    OBVIOUS
  <2>1. \A e \in E : <<e.path, e.stage>> \in T
    BY <2>0 DEF Entry
  <2>2. f \in [E -> T]
    BY <2>1
  <2>3. \A d, e \in E : f[d] = f[e] => d = e
    BY <1>0
  <2> QED
    BY <2>2, <2>3 DEF Injection, IsInjective
<1>2. IsFiniteSet(T)
  <2>1. IsFiniteSet(Stages)
    <3> DEFINE k == 3
    <3>1. k \in Int /\ 0 \in Int
      OBVIOUS
    <3> HIDE DEF k
    <3>2. IsFiniteSet(0 .. k)
      BY <3>1, FS_Interval
    <3> QED
      BY <3>2 DEF k, Stages
  <2> QED
    BY <2>1, PathsAssumption, FS_Product
<1>3. IsFiniteSet(E)
  BY <1>1, <1>2, FS_Injection
<1>4. ASSUME NEW e \in E PROVE e \in Entry /\ e.path \in Nat /\ e.stage \in Nat
  <2>1. e \in Entry
    OBVIOUS
  <2>2. e.path \in Paths /\ e.stage \in Stages
    BY <2>1 DEF Entry
  <2>3. e.path \in Nat
    BY <2>2, PathsAssumption
  <2>4. \A k \in Stages : k \in Nat
    BY DEF Stages
  <2> QED
    BY <2>1, <2>2, <2>3, <2>4
<1>5. \A d, e \in E : <<d, e>> \in EntryOrder <=>
          d.path < e.path \/ (d.path = e.path /\ d.stage < e.stage)
  BY <1>4 DEF EntryOrder
<1>6. \A e \in E : <<e, e>> \notin EntryOrder
  BY <1>4, <1>5
<1>7. ASSUME NEW d \in E, NEW e \in E, d # e
      PROVE  <<d, e>> \in EntryOrder \/ <<e, d>> \in EntryOrder
  <2>1. d.path # e.path \/ d.stage # e.stage
    BY <1>7 DEF Single
  <2> QED
    BY <1>4, <1>5, <2>1
<1>8. \A c, d, e \in E : <<c, d>> \in EntryOrder /\ <<d, e>> \in EntryOrder
          => <<c, e>> \in EntryOrder
  BY <1>4, <1>5
<1> QED
  BY <1>3, <1>6, <1>7, <1>8, FS_CardinalityType DEF IsOrder

\* libgit2 finds every entry at one position of the vector.
LEMMA VectorIs ==
    ASSUME NEW E \in SUBSET Entry, Single(E)
    PROVE  /\ Cardinality(E) \in Nat
           /\ Vector(E) \in Seq(E) /\ Len(Vector(E)) = Cardinality(E)
           /\ \A i \in 1 .. Cardinality(E) : Vector(E)[i] \in E
           /\ \A e \in E : \E i \in 1 .. Cardinality(E) : Vector(E)[i] = e
<1>1. IsFiniteSet(E) /\ Cardinality(E) \in Nat /\ IsOrder(E, EntryOrder)
  BY EntriesOrder
<1>2. \A e \in E : Rank(e, E, EntryOrder) + 1 \in 1 .. Cardinality(E)
  BY <1>1, RankFacts
<1> QED
  BY <1>1, <1>2, InOrderIs DEF Vector

\* The entries before a position stay where they are when some from there on
\* are removed.
LEMMA VectorRemoved ==
    ASSUME NEW E \in SUBSET Entry, Single(E), NEW D \in SUBSET E, NEW k \in 1 .. Cardinality(E),
           \A i \in 1 .. k - 1 : Vector(E)[i] \in D
    PROVE  \A i \in 1 .. k - 1 : i \in 1 .. Cardinality(D) /\ Vector(D)[i] = Vector(E)[i]
<1> SUFFICES ASSUME NEW i \in 1 .. k - 1
             PROVE  i \in 1 .. Cardinality(D) /\ Vector(D)[i] = Vector(E)[i]
  OBVIOUS
<1> DEFINE x == Vector(E)[i]
<1>1. Single(D) /\ D \in SUBSET Entry
  BY DEF Single
<1>2. /\ IsFiniteSet(E) /\ Cardinality(E) \in Nat /\ IsOrder(E, EntryOrder)
      /\ IsFiniteSet(D) /\ Cardinality(D) \in Nat /\ IsOrder(D, EntryOrder)
  BY <1>1, EntriesOrder
<1>3. i \in 1 .. Cardinality(E)
  BY <1>2
<1>4. x \in D /\ x \in E /\ Rank(x, E, EntryOrder) = i - 1
  BY <1>2, <1>3, InOrderIs DEF Vector
<1> HIDE DEF x
<1>5. ASSUME NEW y \in Ahead(x, E, EntryOrder) PROVE y \in D
  <2>1. y \in E /\ <<y, x>> \in EntryOrder
    BY DEF Ahead
  <2>2. Rank(y, E, EntryOrder) \in 0 .. Cardinality(E) - 1
        /\ Rank(y, E, EntryOrder) < Rank(x, E, EntryOrder)
    BY <1>2, <1>4, <2>1, RankFacts
  <2>3. Rank(y, E, EntryOrder) + 1 \in 1 .. k - 1
    BY <1>2, <1>4, <2>2
  <2>4. Vector(E)[Rank(y, E, EntryOrder) + 1] = y
    BY <1>2, <2>1, InOrderIs DEF Vector
  <2> QED
    BY <2>3, <2>4
<1>6. Ahead(x, D, EntryOrder) = Ahead(x, E, EntryOrder)
  BY <1>5 DEF Ahead
<1>7. Rank(x, D, EntryOrder) = i - 1
  BY <1>4, <1>6 DEF Rank
<1>8. Vector(D)[Rank(x, D, EntryOrder) + 1] = x
      /\ Rank(x, D, EntryOrder) \in 0 .. Cardinality(D) - 1
  BY <1>2, <1>4, InOrderIs, RankFacts DEF Vector
<1> QED
  BY <1>2, <1>7, <1>8 DEF x

-----------------------------------------------------------------------------
(* What the methods have done at each point.                                *)

\* A set of entries as libgit2 keeps it.
Valid(E) == E \in SUBSET Entry /\ Single(E)

Typing ==
    /\ Valid(entries) /\ Valid(before)
    /\ workdir \in [Paths -> Oids \cup {None}]
    /\ position \in Nat \ {0}
    /\ todo \in Seq(Paths)
    /\ wanted \subseteq Paths /\ refused \subseteq Paths
    /\ hasBlock \in BOOLEAN /\ disturbed \in BOOLEAN
    /\ method \in Methods \cup {"none"}
    /\ pc \in {"block", "apply"} /\ method # "each" => current \in [path: Paths, stage: Stages]

Phases ==
    /\ pc = "idle" =>
           /\ method = "none" /\ position = 1 /\ yielded = <<>>
           /\ wanted = {} /\ refused = {} /\ ~disturbed /\ ~error
    /\ method \notin {"add_all", "update_all"} => todo = <<>>
    /\ pc = "apply" => method # "each"
    /\ pc = "block" => method = "each" \/ hasBlock
    /\ ~hasBlock /\ method # "each" => refused = {}
    /\ pc \in {"next", "block", "apply"} => ~error
    /\ method = "each" /\ ~exception => ~error
    /\ outcome = "returned" => ~exception /\ ~error
    /\ outcome = "raised" => exception

\* What a method leaves at a path.
Made(m, files, p) ==
    IF m = "remove_all" \/ files[p] = None THEN {}
    ELSE {[path |-> p, stage |-> 0, oid |-> files[p]]}

\* The entries when a method m has done its work for the paths in W.
Result(m, files, b, W) ==
    {e \in b : e.path \notin W} \cup UNION {Made(m, files, p) : p \in W}

\* The paths the block was asked about, or that were taken without one.
Seen(asks, given, taken) == IF asks THEN ToSet(given) ELSE taken

\* each is at most one behind the position, and at it if nothing is disturbed.
Each ==
    method = "each" =>
        /\ Len(yielded) <= Cardinality(before)
        /\ pc = "next" => position <= Cardinality(before) + 1 /\ Len(yielded) <= position - 1
        /\ pc = "block" => position <= Cardinality(before) /\ Len(yielded) <= position
        /\ ~disturbed =>
               /\ entries = before
               /\ \A i \in 1 .. Len(yielded) : yielded[i] = Vector(before)[i]
               /\ pc = "next" => Len(yielded) = position - 1
               /\ pc = "block" => Len(yielded) = position
               /\ pc \in {"after", "done"} /\ ~exception => Len(yielded) = Cardinality(before)

Undisturbed == ~disturbed /\ wanted \cap refused = {}

\* The work is done for the paths that are wanted, but for the one that is
\* about to be done.
Done ==
    method \in {"add_all", "update_all", "remove_all"} /\ Undisturbed =>
        /\ pc # "apply" /\ (error => exception) =>
               entries = Result(method, workdir, before, wanted)
        /\ pc = "apply" =>
               /\ current.path \in wanted
               /\ Without(entries, current.path) =
                      Without(Result(method, workdir, before, wanted), current.path)

\* add_all and update_all have come to the paths before the position.
DeltasSeen ==
    method \in {"add_all", "update_all"} =>
        /\ pc = "next" =>
               /\ position <= Len(todo) + 1
               /\ Seen(hasBlock, yielded, wanted) = {todo[i] : i \in 1 .. position - 1}
        /\ pc \in {"block", "apply"} =>
               /\ position <= Len(todo)
               /\ Seen(hasBlock, yielded, wanted) = {todo[i] : i \in 1 .. position}
        /\ pc \in {"after", "done"} /\ ~exception /\ ~error =>
               Seen(hasBlock, yielded, wanted) = ToSet(todo)

\* remove_all has passed the entries before the position because they do not
\* match or were refused: what is removed was never before it.
EntriesSeen ==
    method = "remove_all" /\ Undisturbed =>
        LET candidates == matching \cap {e.path : e \in before}
            seen == Seen(hasBlock, yielded, wanted)
        IN  /\ wanted \subseteq seen /\ refused \subseteq seen /\ seen \subseteq candidates
            /\ pc \in {"next", "block", "apply"} =>
                   \A i \in 1 .. position - 1 :
                       /\ i \in 1 .. Cardinality(entries)
                       /\ Vector(entries)[i].path \in matching => Vector(entries)[i].path \in refused
            /\ pc \in {"block", "apply"} =>
                   /\ position \in 1 .. Cardinality(entries)
                   /\ current.path = Vector(entries)[position].path
                   /\ current.stage = Vector(entries)[position].stage
                   /\ current.path \in matching /\ current.path \in seen
            /\ pc \in {"after", "done"} /\ ~exception /\ ~error => candidates \subseteq seen

Progress == Typing /\ Phases /\ Each /\ Done /\ DeltasSeen /\ EntriesSeen

IndexInv == IInv /\ Progress

\* The path p makes no difference elsewhere, and at p only whether it is in W.
LEMMA ResultFacts ==
    ASSUME NEW m, NEW files, NEW b, NEW W, NEW p
    PROVE  /\ Without(Result(m, files, b, W), p) = Without(Result(m, files, b, W \cup {p}), p)
           /\ p \in W => Result(m, files, b, W) =
                            Without(Result(m, files, b, W), p) \cup Made(m, files, p)
           /\ Result(m, files, b, {}) = b
           /\ m = "remove_all" =>
                  \A e : e \in Result(m, files, b, W) <=> e \in b /\ e.path \notin W
<1>1. ASSUME NEW q, NEW e \in Made(m, files, q) PROVE e.path = q
  BY DEF Made
<1>2. ASSUME NEW V, NEW e
      PROVE  e \in Result(m, files, b, V) <=>
                 (e \in b /\ e.path \notin V) \/ \E q \in V : e \in Made(m, files, q)
  BY DEF Result
<1>3. Without(Result(m, files, b, W), p) = Without(Result(m, files, b, W \cup {p}), p)
  BY <1>1, <1>2 DEF Without
<1>4. ASSUME p \in W
      PROVE Result(m, files, b, W) = Without(Result(m, files, b, W), p) \cup Made(m, files, p)
  BY <1>1, <1>2, <1>4 DEF Without
<1>5. Result(m, files, b, {}) = b
  BY DEF Result
<1>6. ASSUME m = "remove_all", NEW e
      PROVE  e \in Result(m, files, b, W) <=> e \in b /\ e.path \notin W
  BY <1>2, <1>6 DEF Made
<1> QED
  BY <1>3, <1>4, <1>5, <1>6

\* add_all and update_all put the file in the place of the entries of its path.
LEMMA SynchronizedIs ==
    ASSUME NEW E, NEW p, NEW m, m # "remove_all"
    PROVE  Synchronized(E, p) = Without(E, p) \cup Made(m, workdir, p)
BY DEF Synchronized, Made

\* Appending adds one element to what a sequence holds.
LEMMA AppendSet ==
    ASSUME NEW S, NEW s \in Seq(S), NEW x
    PROVE  ToSet(Append(s, x)) = ToSet(s) \cup {x}
<1>1. s \in Seq(S \cup {x}) /\ x \in S \cup {x}
  OBVIOUS
<1>2. /\ Len(Append(s, x)) = Len(s) + 1 /\ Len(s) \in Nat
      /\ \A i \in 1 .. Len(s) + 1 : Append(s, x)[i] = IF i <= Len(s) THEN s[i] ELSE x
      /\ DOMAIN s = 1 .. Len(s) /\ DOMAIN Append(s, x) = 1 .. Len(s) + 1
  BY <1>1
<1>3. \A y : y \in ToSet(Append(s, x)) <=> \E i \in 1 .. Len(s) + 1 : Append(s, x)[i] = y
  BY <1>2 DEF ToSet
<1>4. \A y : y \in ToSet(s) <=> \E i \in 1 .. Len(s) : s[i] = y
  BY <1>2 DEF ToSet
<1>5. \A i \in 1 .. Len(s) + 1 : i \in 1 .. Len(s) \/ i = Len(s) + 1
  BY <1>2
<1>6. \A i \in 1 .. Len(s) : i \in 1 .. Len(s) + 1 /\ Append(s, x)[i] = s[i]
  BY <1>2
<1>7. Len(s) + 1 \in 1 .. Len(s) + 1 /\ Append(s, x)[Len(s) + 1] = x
  BY <1>2
<1> HIDE <1>2
<1>8. ASSUME NEW y PROVE y \in ToSet(Append(s, x)) <=> y \in ToSet(s) \/ y = x
  BY <1>3, <1>4, <1>5, <1>6, <1>7
<1> QED
  BY <1>8

\* Before a method is called there is nothing to keep.
LEMMA InitProgress == Init => Progress
<1> SUFFICES ASSUME Init PROVE Progress
  OBVIOUS
<1>2. Typing
  <2>1. Valid(entries) /\ Valid({}) /\ <<>> \in Seq(Paths)
    BY LoadsAssumption, EmptySeq DEF Init, Valid, Single
  <2>2. workdir \in [Paths -> Oids \cup {None}]
    BY FilesAssumption DEF Init
  <2>3. pc = "idle" /\ position = 1 /\ wanted = {} /\ refused = {} /\ method = "none"
        /\ todo = <<>> /\ before = {}
    BY DEF Init
  <2>4. hasBlock \in BOOLEAN /\ disturbed \in BOOLEAN
    BY DEF Init
  <2>5. Valid(before)
    BY <2>1, <2>3
  <2> QED
    BY <2>1, <2>2, <2>3, <2>4, <2>5 DEF Typing
<1>3. Phases
  BY DEF Init, Phases
<1>4. Each /\ Done /\ DeltasSeen /\ EntriesSeen
  BY DEF Init, Each, Done, DeltasSeen, EntriesSeen
<1> QED
  BY <1>2, <1>3, <1>4 DEF Progress

-----------------------------------------------------------------------------
(* The methods that run no block.                                           *)

\* All of them leave a set of entries that libgit2 can keep.
LEMMA InsertedValid ==
    ASSUME NEW E, Valid(E), NEW new, Valid(new)
    PROVE  Valid(Inserted(E, new))
BY DEF Valid, Single, Inserted

\* Removing entries leaves at most one for a path and a stage.
LEMMA SubsetValid ==
    ASSUME NEW E, Valid(E), NEW D \in SUBSET E
    PROVE  Valid(D)
BY DEF Valid, Single

\* So does taking over a file.
LEMMA SynchronizedValid ==
    ASSUME NEW E, Valid(E), NEW p \in Paths, workdir \in [Paths -> Oids \cup {None}]
    PROVE  Valid(Synchronized(E, p))
<1>1. ASSUME workdir[p] # None
      PROVE  [path |-> p, stage |-> 0, oid |-> workdir[p]] \in Entry
  BY <1>1 DEF Entry, Stages
<1>2. \A e \in Synchronized(E, p) :
          \/ e \in E /\ e.path # p
          \/ workdir[p] # None /\ e = [path |-> p, stage |-> 0, oid |-> workdir[p]]
  BY DEF Synchronized, Without
<1>3. Synchronized(E, p) \in SUBSET Entry
  BY <1>1, <1>2 DEF Valid
<1>4. Single(Synchronized(E, p))
  BY <1>2 DEF Valid, Single
<1> QED
  BY <1>3, <1>4 DEF Valid

\* The mask makes a stage of whatever number the program gives.
LEMMA IndexEntryType ==
    ASSUME NEW p \in Paths, NEW s \in Int, NEW c \in Oids
    PROVE  IndexEntry(p, s, c) \in Entry /\ IndexEntry(p, s, c).path = p
           /\ IndexEntry(p, s, c).stage = s % 4
BY DEF IndexEntry, Entry, Stages

\* The sides of a conflict have different stages, with the garbage among them.
LEMMA ConflictValid ==
    ASSUME NEW p \in Paths, NEW c \in Oids, NEW S \in SUBSET (1 .. 3),
           NEW garbage \in {e \in Entry : e.stage = 0}
    PROVE  Valid(Passed({IndexEntry(p, s, c) : s \in S}, garbage))
<1> DEFINE sides == {IndexEntry(p, s, c) : s \in S}
           given(s) == {e \in sides : e.stage = s}
           P == Passed(sides, garbage)
<1>1. ASSUME NEW e \in sides
      PROVE  e \in Entry /\ e.path = p /\ e.stage \in 1 .. 3 /\ e = IndexEntry(p, e.stage, c)
  <2>1. PICK s \in S : e = IndexEntry(p, s, c)
    OBVIOUS
  <2>2. s \in Int /\ s \in 1 .. 3 /\ s % 4 = s
    OBVIOUS
  <2>3. e \in Entry /\ e.path = p /\ e.stage = s
    BY <2>1, <2>2, IndexEntryType
  <2> QED
    BY <2>1, <2>2, <2>3
<1>2. ASSUME NEW k \in Stages
      PROVE  [garbage EXCEPT !.stage = k] \in Entry /\ [garbage EXCEPT !.stage = k].stage = k
  BY DEF Entry
<1>3. 2 \in Stages /\ 3 \in Stages
  BY DEF Stages
<1> HIDE DEF sides
<1>4. \A e \in P :
          \/ e \in sides
          \/ given(2) = {} /\ e = [garbage EXCEPT !.stage = 2]
          \/ given(3) = {} /\ e = [garbage EXCEPT !.stage = 3]
  BY DEF Passed
<1>5. P \in SUBSET Entry
  BY <1>1, <1>2, <1>3, <1>4
<1>6. \A d, e \in sides : d.stage = e.stage => d = e
  BY <1>1
<1>7. Single(P)
  <2> SUFFICES ASSUME NEW d \in P, NEW e \in P, d.stage = e.stage PROVE d = e
    BY DEF Single
  <2> DEFINE g2 == [garbage EXCEPT !.stage = 2]
             g3 == [garbage EXCEPT !.stage = 3]
  <2>1. g2.stage = 2 /\ g3.stage = 3
    BY <1>2, <1>3
  <2> HIDE DEF g2, g3, P
  <2>2. \A f \in P : f \in sides \/ (given(2) = {} /\ f = g2) \/ (given(3) = {} /\ f = g3)
    BY <1>4 DEF g2, g3
  <2> QED
    BY <1>6, <2>1, <2>2
<1> QED
  BY <1>5, <1>7 DEF Valid, sides

\* All methods without a block are an Edit to entries that libgit2 can keep.
LEMMA ProgramValid ==
    ASSUME Typing, Program
    PROVE  \E E, sides : Valid(E) /\ Edit(E, sides)
<1> USE DEF Typing
<1>1. ASSUME NEW p \in Paths, NEW s \in Given, NEW c \in Oids, AddEntry(IndexEntry(p, s, c))
      PROVE  \E E, sides : Valid(E) /\ Edit(E, sides)
  <2>1. IndexEntry(p, s, c) \in Entry
    BY IndexEntryType, GivenAssumption
  <2>2. Valid({IndexEntry(p, s, c)})
    BY <2>1 DEF Valid, Single
  <2> QED
    BY <1>1, <2>2, InsertedValid DEF AddEntry
<1>2. ASSUME NEW p \in Paths, AddPath(p) PROVE \E E, sides : Valid(E) /\ Edit(E, sides)
  BY <1>2, SynchronizedValid DEF AddPath
<1>3. ASSUME NEW D, D \in SUBSET entries, NEW sides, Edit(D, sides)
      PROVE  \E E, t : Valid(E) /\ Edit(E, t)
  BY <1>3, SubsetValid
<1>4. ASSUME NEW p \in Paths, ConflictRemove(p) PROVE \E E, sides : Valid(E) /\ Edit(E, sides)
  BY <1>3, <1>4 DEF ConflictRemove
<1>5. ASSUME NEW p, NEW s, RemoveEntry(p, s) PROVE \E E, sides : Valid(E) /\ Edit(E, sides)
  BY <1>3, <1>5 DEF RemoveEntry
<1>6. ASSUME NEW dir, NEW s, RemoveDir(dir, s) PROVE \E E, sides : Valid(E) /\ Edit(E, sides)
  BY <1>3, <1>6 DEF RemoveDir
<1>7. ASSUME NEW L \in Loads, Load(L) PROVE \E E, sides : Valid(E) /\ Edit(E, sides)
  BY <1>7, LoadsAssumption DEF Load, Valid
<1>8. ASSUME NEW p \in Paths, NEW c \in Oids, NEW S \in SUBSET (1 .. 3),
             NEW garbage \in {e \in Entry : e.stage = 0},
             ConflictAdd({IndexEntry(p, s, c) : s \in S}, garbage)
      PROVE  \E E, sides : Valid(E) /\ Edit(E, sides)
  <2> DEFINE given == {IndexEntry(p, s, c) : s \in S}
             passed == Passed(given, garbage)
             cleared == {e \in entries : ~(e.stage = 0 /\ \E n \in passed : n.path = e.path)}
  <2>1. Valid(passed)
    BY ConflictValid
  <2>2. Edit(Inserted(cleared, passed), given)
    BY <1>8 DEF ConflictAdd
  <2> HIDE DEF given, passed
  <2>3. Valid(cleared)
    BY SubsetValid
  <2> HIDE DEF cleared
  <2> QED
    BY <2>1, <2>2, <2>3, InsertedValid
<1>9. CASE ConflictCleanup
  BY <1>3, <1>9 DEF ConflictCleanup
<1> QED
  BY <1>1, <1>2, <1>4, <1>5, <1>6, <1>7, <1>8, <1>9 DEF Program

\* An edit before the iteration is not noticed, and one in the block disturbs it.
LEMMA EditStep ==
    ASSUME IndexInv, NEW E, Valid(E), NEW sides, Edit(E, sides)
    PROVE  Progress'
<1> USE DEF IndexInv, Progress
<1>0. /\ entries' = E /\ disturbed' = (pc = "block") /\ pc \in {"idle", "block"}
      /\ UNCHANGED <<workdir, pc, method, hasBlock, matching, todo, before, position, current,
                     exception, error, outcome, yielded, wanted, refused, raised>>
  BY DEF Edit, asked, ending, answers
<1>1. Typing'
  BY <1>0 DEF Typing
<1>2. Phases'
  BY <1>0 DEF Phases
<1>3. method' = "none" \/ (pc' = "block" /\ disturbed')
  BY <1>0 DEF Phases
<1>4. Each' /\ Done' /\ EntriesSeen'
  BY <1>0, <1>3 DEF Each, Done, EntriesSeen, Undisturbed
<1>5. DeltasSeen'
  BY <1>0, <1>3 DEF DeltasSeen
<1> QED
  BY <1>1, <1>2, <1>4, <1>5

-----------------------------------------------------------------------------
(* The methods that run a block.                                            *)

\* The comparison with the working directory is a sequence of paths.
LEMMA TodoType ==
    ASSUME NEW S \in SUBSET Paths
    PROVE  InOrder(S, PathOrder) \in Seq(Paths)
<1>1. \A p, q \in S : <<p, q>> \in PathOrder <=> p < q
  BY DEF PathOrder
<1>2. \A p \in S : p \in Nat
  BY PathsAssumption
<1>3. IsOrder(S, PathOrder)
  BY <1>1, <1>2 DEF IsOrder
<1>4. IsFiniteSet(S)
  BY PathsAssumption, FS_Subset
<1>5. InOrder(S, PathOrder) \in Seq(S)
  BY <1>3, <1>4, InOrderIs
<1> QED
  BY <1>5

\* An iteration starts with nothing done and nothing wanted.
LEMMA StartStep ==
    ASSUME IndexInv, NEW m \in Methods, NEW b \in BOOLEAN, NEW M \in SUBSET Paths, Start(m, b, M)
    PROVE  Progress'
<1> USE DEF IndexInv, Progress
<1>0. /\ pc = "idle" /\ pc' = "next" /\ method' = m /\ hasBlock' = b /\ before' = entries
      /\ todo' = IF m \in {"add_all", "update_all"}
                 THEN InOrder(Deltas(m) \cap M, PathOrder) ELSE <<>>
      /\ UNCHANGED <<entries, workdir, position, current, exception, error, outcome, yielded,
                     wanted, refused, disturbed, raised>>
      /\ m = "each" => b
  BY DEF Start, ending, answers
<1>1. /\ position = 1 /\ yielded = <<>> /\ wanted = {} /\ refused = {} /\ ~disturbed /\ ~error
      /\ outcome = "pending"
  BY <1>0 DEF Phases, IInv, Carried
<1>2. todo' \in Seq(Paths) /\ Len(todo') \in Nat
  <2>1. Deltas(m) \cap M \in SUBSET Paths
    OBVIOUS
  <2> QED
    BY <1>0, <2>1, TodoType
<1>3. Cardinality(before') \in Nat
  BY <1>0, EntriesOrder DEF Typing, Valid
<1>4. Typing'
  BY <1>0, <1>2 DEF Typing
<1>5. Phases'
  BY <1>0, <1>1 DEF Phases
<1>6. Len(yielded) = 0 /\ ToSet(yielded) = {}
  BY <1>1 DEF ToSet
<1>7. Each'
  <2>1. /\ Len(yielded') = 0 /\ position' = 1 /\ pc' = "next" /\ ~disturbed'
        /\ entries' = before' /\ 1 .. Len(yielded') = {}
    BY <1>0, <1>1, <1>6
  <2>2. Len(yielded') <= Cardinality(before') /\ position' <= Cardinality(before') + 1
        /\ Len(yielded') = position' - 1 /\ Len(yielded') <= position' - 1
    BY <1>3, <2>1
  <2> QED
    BY <2>1, <2>2, Zenon DEF Each
<1>8. Done'
  <2>1. Result(m, workdir, entries, {}) = entries
    BY ResultFacts
  <2> QED
    BY <1>0, <1>1, <2>1 DEF Done
<1>9. Seen(hasBlock', yielded', wanted') = {}
  BY <1>0, <1>1, <1>6 DEF Seen
<1>10. position' = 1 /\ 1 .. position' - 1 = {}
  BY <1>0, <1>1
<1>11. DeltasSeen'
  BY <1>0, <1>2, <1>9, <1>10 DEF DeltasSeen
<1>12. EntriesSeen'
  BY <1>0, <1>1, <1>9, <1>10 DEF EntriesSeen
<1> QED
  BY <1>4, <1>5, <1>7, <1>8, <1>11, <1>12

\* each gives its block the next entry, or passes over a position that is gone.
LEMMA EachYieldStep ==
    ASSUME IndexInv, EachYield
    PROVE  Progress'
<1> USE DEF IndexInv, Progress
<1>0. /\ pc = "next" /\ method = "each" /\ position <= Cardinality(before)
      /\ UNCHANGED <<entries, workdir, method, hasBlock, matching, todo, before, current,
                     exception, error, outcome, disturbed, wanted, refused, raised>>
      /\ \/ /\ position <= Cardinality(entries) /\ pc' = "block" /\ position' = position
            /\ yielded' = Append(yielded, Vector(entries)[position])
         \/ /\ ~(position <= Cardinality(entries)) /\ position' = position + 1
            /\ pc' = pc /\ yielded' = yielded
  BY DEF EachYield, asked, ending, program, answers
<1>1. Cardinality(before) \in Nat /\ position \in Nat \ {0}
  BY EntriesOrder DEF Typing, Valid
<1>2. Typing'
  BY <1>0, <1>1 DEF Typing
<1>3. Phases'
  BY <1>0 DEF Phases
<1>4. Done' /\ DeltasSeen' /\ EntriesSeen'
  BY <1>0 DEF Done, DeltasSeen, EntriesSeen
<1>5. PICK S : yielded \in Seq(S)
  BY DEF IInv, Shown
<1>6. Each'
  <2>0. Len(yielded) \in Nat /\ Len(yielded) <= position - 1
    BY <1>0, <1>5 DEF Each
  <2>1. CASE yielded' = Append(yielded, Vector(entries)[position]) /\ pc' = "block"
             /\ position' = position
    <3>1. /\ Len(yielded') = Len(yielded) + 1
          /\ \A i \in 1 .. Len(yielded) + 1 :
                 yielded'[i] = IF i <= Len(yielded) THEN yielded[i] ELSE Vector(entries)[position]
      BY <1>5, <2>1
    <3>2. ASSUME ~disturbed
          PROVE  /\ entries = before /\ Len(yielded') = position
                 /\ \A i \in 1 .. Len(yielded') : yielded'[i] = Vector(before)[i]
      <4>1. entries = before /\ Len(yielded) = position - 1
            /\ \A i \in 1 .. Len(yielded) : yielded[i] = Vector(before)[i]
        BY <1>0, <3>2 DEF Each
      <4> QED
        BY <1>1, <2>0, <3>1, <4>1
    <3>3. Len(yielded') <= position' /\ Len(yielded') <= Cardinality(before')
      BY <1>0, <1>1, <2>0, <2>1, <3>1
    <3> QED
      BY <1>0, <2>1, <3>2, <3>3 DEF Each
  <2>2. CASE ~(position <= Cardinality(entries)) /\ position' = position + 1 /\ pc' = pc
             /\ yielded' = yielded
    <3>1. disturbed
      BY <1>0, <2>2 DEF Each
    <3>2. Len(yielded') <= Cardinality(before') /\ position' <= Cardinality(before') + 1
          /\ Len(yielded') <= position' - 1
      BY <1>0, <1>1, <2>0, <2>2
    <3> QED
      BY <1>0, <2>2, <3>1, <3>2 DEF Each
  <2> QED
    BY <1>0, <2>1, <2>2
<1> QED
  BY <1>2, <1>3, <1>4, <1>6

\* What Consider does, for the path and the stage that libgit2 has come to.
LEMMA ConsiderStep ==
    ASSUME IndexInv, pc = "next", method \in {"add_all", "update_all", "remove_all"},
           NEW p \in Paths, NEW s \in Stages, Consider(p, s)
    PROVE  /\ Typing' /\ Phases' /\ Each' /\ Done'
           /\ pc' \in {"block", "apply"} /\ current'.path = p /\ current'.stage = s
           /\ Seen(hasBlock', yielded', wanted') = Seen(hasBlock, yielded, wanted) \cup {p}
           /\ wanted \subseteq wanted' /\ refused' = refused
           /\ hasBlock => wanted' = wanted
           /\ UNCHANGED <<entries, workdir, method, hasBlock, matching, todo, before, position,
                          exception, error, outcome, disturbed, refused, raised>>
<1> USE DEF IndexInv, Progress
<1>0. /\ current' = [path |-> p, stage |-> s]
      /\ current' \in [path: Paths, stage: Stages] /\ current'.path = p /\ current'.stage = s
      /\ UNCHANGED <<entries, workdir, method, hasBlock, matching, todo, before, position,
                     exception, error, outcome, disturbed, refused, raised>>
      /\ \/ /\ hasBlock /\ pc' = "block" /\ yielded' = Append(yielded, p) /\ wanted' = wanted
         \/ /\ ~hasBlock /\ pc' = "apply" /\ wanted' = wanted \cup {p} /\ yielded' = yielded
  BY DEF Consider, asked, ending, program
<1>1. Typing'
  BY <1>0 DEF Typing
<1>2. Phases'
  BY <1>0 DEF Phases
<1>3. Each'
  BY <1>0 DEF Each
<1>4. ASSUME Undisturbed' PROVE entries = Result(method, workdir, before, wanted)
  BY <1>0, <1>4 DEF Undisturbed, Done, Phases
<1>5. Done'
  <2>1. CASE pc' = "block"
    BY <1>0, <1>4, <2>1 DEF Done
  <2>2. CASE pc' = "apply"
    <3>1. wanted' = wanted \cup {p} /\ current'.path \in wanted'
      BY <1>0, <2>2
    <3>2. Without(Result(method, workdir, before, wanted), p) =
              Without(Result(method, workdir, before, wanted \cup {p}), p)
      BY ResultFacts
    <3> QED
      BY <1>0, <1>4, <2>2, <3>1, <3>2 DEF Done
  <2> QED
    BY <1>0, <2>1, <2>2
<1>6. PICK S : yielded \in Seq(S)
  BY DEF IInv, Shown
<1>7. Seen(hasBlock', yielded', wanted') = Seen(hasBlock, yielded, wanted) \cup {p}
  BY <1>0, <1>6, AppendSet DEF Seen
<1> QED
  BY <1>0, <1>1, <1>2, <1>3, <1>5, <1>7

\* add_all and update_all come to the next path of the comparison.
LEMMA ConsiderDeltaStep ==
    ASSUME IndexInv, ConsiderDelta
    PROVE  Progress'
<1> USE DEF IndexInv, Progress
<1>0. pc = "next" /\ position <= Len(todo) /\ Consider(todo[position], 0)
      /\ position \in Nat \ {0} /\ todo \in Seq(Paths) /\ Len(todo) \in Nat
  BY DEF ConsiderDelta, Typing
<1>1. todo[position] \in Paths /\ 0 \in Stages
  BY <1>0 DEF Stages
<1>2. method \in {"add_all", "update_all"}
  BY <1>0 DEF Phases
<1> DEFINE p == todo[position]
<1> HIDE DEF p
<1>3. /\ Typing' /\ Phases' /\ Each' /\ Done'
      /\ pc' \in {"block", "apply"} /\ UNCHANGED <<method, todo, position>>
      /\ Seen(hasBlock', yielded', wanted') = Seen(hasBlock, yielded, wanted) \cup {p}
  <2>1. p \in Paths /\ Consider(p, 0)
    BY <1>0, <1>1 DEF p
  <2> QED
    BY <1>0, <1>1, <1>2, <2>1, ConsiderStep
<1>4. {todo[i] : i \in 1 .. position} = {todo[i] : i \in 1 .. position - 1} \cup {p}
  <2>1. \A i : i \in 1 .. position <=> i \in 1 .. position - 1 \/ i = position
    BY <1>0
  <2> QED
    BY <2>1 DEF p
<1>5. DeltasSeen'
  BY <1>0, <1>2, <1>3, <1>4 DEF DeltasSeen
<1>6. EntriesSeen'
  BY <1>2, <1>3 DEF EntriesSeen
<1> QED
  BY <1>3, <1>5, <1>6

\* remove_all comes to the next entry, or passes over one that does not match.
LEMMA ConsiderEntryStep ==
    ASSUME IndexInv, ConsiderEntry
    PROVE  Progress'
<1> USE DEF IndexInv, Progress
<1> DEFINE e == Vector(entries)[position]
<1>0. /\ pc = "next" /\ method = "remove_all" /\ position <= Cardinality(entries)
      /\ position \in Nat \ {0} /\ entries \in SUBSET Entry /\ Single(entries)
  BY DEF ConsiderEntry, Typing, Valid
<1>1. Cardinality(entries) \in Nat /\ position \in 1 .. Cardinality(entries) /\ e \in entries
  BY <1>0, VectorIs
<1> HIDE DEF e
<1>2. e.path \in Paths /\ e.stage \in Stages
  <2>1. e \in Entry
    BY <1>0, <1>1
  <2> QED
    BY <2>1 DEF Entry
<1>3. \A i \in 1 .. position : i \in 1 .. position - 1 \/ i = position
  BY <1>0
<1>4. CASE e.path \in matching /\ Consider(e.path, e.stage)
  <2> DEFINE candidates == matching \cap {d.path : d \in before}
             seen == Seen(hasBlock, yielded, wanted)
  <2>1. /\ Typing' /\ Phases' /\ Each' /\ Done'
        /\ pc' \in {"block", "apply"} /\ current'.path = e.path /\ current'.stage = e.stage
        /\ Seen(hasBlock', yielded', wanted') = seen \cup {e.path}
        /\ wanted \subseteq wanted' /\ refused' = refused
        /\ hasBlock => wanted' = wanted
        /\ UNCHANGED <<entries, method, hasBlock, matching, before, position, disturbed>>
    BY <1>0, <1>2, <1>4, ConsiderStep
  <2>2. DeltasSeen'
    BY <1>0, <2>1 DEF DeltasSeen
  <2>3. EntriesSeen'
    <3> SUFFICES ASSUME Undisturbed' PROVE EntriesSeen'
      BY DEF EntriesSeen
    <3>1. Undisturbed
      BY <2>1 DEF Undisturbed
    <3>2. entries \subseteq before
      <4>1. entries = Result(method, workdir, before, wanted)
        BY <1>0, <3>1 DEF Done, Phases
      <4> QED
        BY <1>0, <4>1, ResultFacts
    <3>3. e.path \in candidates
      BY <1>1, <1>4, <3>2
    <3>4. /\ wanted \subseteq seen /\ refused \subseteq seen /\ seen \subseteq candidates
          /\ \A i \in 1 .. position - 1 :
                 /\ i \in 1 .. Cardinality(entries)
                 /\ Vector(entries)[i].path \in matching => Vector(entries)[i].path \in refused
      BY <1>0, <3>1 DEF EntriesSeen
    <3>5. wanted' \subseteq seen \cup {e.path}
      BY <2>1, <3>4 DEF Seen
    <3> HIDE DEF seen
    <3> QED
      BY <1>1, <1>4, <2>1, <3>3, <3>4, <3>5 DEF EntriesSeen, e
  <2> QED
    BY <2>1, <2>2, <2>3
<1>5. CASE /\ e.path \notin matching /\ position' = position + 1
           /\ UNCHANGED <<entries, pc, asked, current, ending, program, yielded, answers, raised>>
  <2>1. /\ position' = position + 1
        /\ UNCHANGED <<entries, workdir, pc, method, hasBlock, matching, todo, before, current,
                       exception, error, outcome, yielded, disturbed, wanted, refused, raised>>
    BY <1>5 DEF asked, ending, program, answers
  <2>2. Typing' /\ Phases'
    BY <1>0, <2>1 DEF Typing, Phases
  <2>3. Each' /\ Done' /\ DeltasSeen'
    BY <1>0, <2>1 DEF Each, Done, DeltasSeen, Undisturbed
  <2>4. EntriesSeen'
    <3> SUFFICES ASSUME Undisturbed' PROVE EntriesSeen'
      BY DEF EntriesSeen
    <3>1. Undisturbed
      BY <2>1 DEF Undisturbed
    <3>2. \A i \in 1 .. position :
              /\ i \in 1 .. Cardinality(entries)
              /\ Vector(entries)[i].path \in matching => Vector(entries)[i].path \in refused
      BY <1>0, <1>1, <1>3, <1>5, <3>1 DEF EntriesSeen, e
    <3>3. position' - 1 = position
      BY <1>0, <2>1
    <3> QED
      BY <1>0, <2>1, <3>1, <3>2, <3>3 DEF EntriesSeen
  <2> QED
    BY <2>2, <2>3, <2>4
<1> QED
  BY <1>4, <1>5 DEF ConsiderEntry, e

\* A yes leads to the work for the path, a no to the next path.
LEMMA BlockReturnsStep ==
    ASSUME IndexInv, NEW yes \in BOOLEAN, BlockReturns(yes)
    PROVE  Progress'
<1> USE DEF IndexInv, Progress
<1> DEFINE p == current.path
<1>0. /\ pc = "block" /\ ~error
      /\ UNCHANGED <<entries, workdir, method, hasBlock, matching, todo, before, current,
                     exception, error, outcome, yielded, disturbed, raised>>
      /\ position \in Nat \ {0} /\ method \in Methods \cup {"none"}
  BY DEF BlockReturns, asked, ending, program, Typing, Phases
<1>1. CASE method = "each"
  <2>1. pc' = "next" /\ position' = position + 1 /\ wanted' = wanted /\ refused' = refused
    BY <1>1 DEF BlockReturns, Answer
  <2>2. Typing' /\ Phases'
    BY <1>0, <1>1, <2>1 DEF Typing, Phases
  <2>3. Each'
    <3>1. Cardinality(before) \in Nat
      BY EntriesOrder DEF Typing, Valid
    <3>2. position' - 1 = position /\ position' <= Cardinality(before') + 1
      BY <1>0, <1>1, <2>1, <3>1 DEF Each
    <3> QED
      BY <1>0, <1>1, <2>1, <3>2 DEF Each
  <2>4. Done' /\ DeltasSeen' /\ EntriesSeen'
    BY <1>0, <1>1 DEF Done, DeltasSeen, EntriesSeen
  <2> QED
    BY <2>2, <2>3, <2>4
<1>2. CASE method # "each" /\ yes
  <2>1. pc' = "apply" /\ position' = position /\ wanted' = wanted \cup {p} /\ refused' = refused
    BY <1>2 DEF BlockReturns, Answer
  <2>2. p \in Paths
    BY <1>0, <1>2 DEF Typing
  <2> HIDE DEF p
  <2>3. Typing' /\ Phases'
    <3>1. wanted' \subseteq Paths
      BY <2>1, <2>2 DEF Typing
    <3> QED
      BY <1>0, <1>2, <2>1, <3>1 DEF Typing, Phases
  <2>4. Each'
    BY <1>0, <1>2 DEF Each
  <2>5. Undisturbed' => Undisturbed
    BY <1>0, <2>1 DEF Undisturbed
  <2>6. Done'
    <3> SUFFICES ASSUME method \in {"add_all", "update_all", "remove_all"}, Undisturbed'
                 PROVE  Done'
      BY <1>0 DEF Done
    <3>1. entries = Result(method, workdir, before, wanted)
      BY <1>0, <2>5 DEF Done
    <3>2. Without(Result(method, workdir, before, wanted), p) =
              Without(Result(method, workdir, before, wanted \cup {p}), p)
      BY ResultFacts
    <3>3. current'.path = p /\ p \in wanted'
      BY <1>0, <2>1 DEF p
    <3> QED
      BY <1>0, <2>1, <3>1, <3>2, <3>3 DEF Done
  <2>7. hasBlock
    BY <1>0, <1>2 DEF Phases
  <2>8. Seen(hasBlock', yielded', wanted') = Seen(hasBlock, yielded, wanted)
    BY <1>0, <2>7 DEF Seen
  <2>9. DeltasSeen'
    BY <1>0, <2>1, <2>8 DEF DeltasSeen
  <2>10. EntriesSeen'
    BY <1>0, <2>1, <2>5, <2>8 DEF EntriesSeen, p
  <2> QED
    BY <2>3, <2>4, <2>6, <2>9, <2>10
<1>3. CASE method # "each" /\ ~yes
  <2>1. /\ pc' = "next" /\ position' = position + 1 /\ wanted' = wanted
        /\ refused' = refused \cup {p}
    BY <1>3 DEF BlockReturns, Answer
  <2>2. p \in Paths /\ hasBlock
    BY <1>0, <1>3 DEF Typing, Phases
  <2> HIDE DEF p
  <2>3. Typing' /\ Phases'
    <3>1. refused' \subseteq Paths
      BY <2>1, <2>2 DEF Typing
    <3> QED
      BY <1>0, <1>3, <2>1, <2>2, <3>1 DEF Typing, Phases
  <2>4. Each'
    BY <1>0, <1>3 DEF Each
  <2>5. Undisturbed' => Undisturbed
    BY <1>0, <2>1 DEF Undisturbed
  <2>6. Done'
    BY <1>0, <2>1, <2>5 DEF Done
  <2>7. position' - 1 = position
    BY <1>0, <2>1
  <2>8. Seen(hasBlock', yielded', wanted') = Seen(hasBlock, yielded, wanted)
    BY <1>0, <2>1 DEF Seen
  <2>9. DeltasSeen'
    <3>1. position <= Len(todo) => position' <= Len(todo') + 1
      BY <1>0, <2>1 DEF Typing
    <3> QED
      BY <1>0, <2>1, <2>7, <2>8, <3>1 DEF DeltasSeen
  <2>10. EntriesSeen'
    <3> SUFFICES ASSUME method = "remove_all", Undisturbed' PROVE EntriesSeen'
      BY <1>0 DEF EntriesSeen
    <3>1. /\ wanted \subseteq Seen(hasBlock, yielded, wanted)
          /\ refused \subseteq Seen(hasBlock, yielded, wanted)
          /\ Seen(hasBlock, yielded, wanted) \subseteq matching \cap {e.path : e \in before}
          /\ p \in Seen(hasBlock, yielded, wanted)
          /\ position \in 1 .. Cardinality(entries) /\ p = Vector(entries)[position].path
      BY <1>0, <2>5 DEF EntriesSeen, p
    <3>2. \A i \in 1 .. position - 1 :
              /\ i \in 1 .. Cardinality(entries)
              /\ Vector(entries)[i].path \in matching => Vector(entries)[i].path \in refused
      BY <1>0, <2>5 DEF EntriesSeen
    <3>3. \A i \in 1 .. position : i \in 1 .. position - 1 \/ i = position
      BY <1>0
    <3>4. \A i \in 1 .. position :
              /\ i \in 1 .. Cardinality(entries)
              /\ Vector(entries)[i].path \in matching => Vector(entries)[i].path \in refused'
      BY <2>1, <3>1, <3>2, <3>3
    <3>5. refused' \subseteq Seen(hasBlock, yielded, wanted)
      BY <2>1, <3>1
    <3> QED
      BY <1>0, <2>1, <2>7, <2>8, <3>1, <3>4, <3>5 DEF EntriesSeen
  <2> QED
    BY <2>3, <2>4, <2>6, <2>9, <2>10
<1> QED
  BY <1>1, <1>2, <1>3

\* A block that raises leaves what was done before.
LEMMA BlockRaisesStep ==
    ASSUME IndexInv, BlockRaises
    PROVE  Progress'
<1> USE DEF IndexInv, Progress
<1>0. /\ pc = "block" /\ pc' = "after" /\ exception' /\ ~error
      /\ UNCHANGED <<entries, workdir, method, hasBlock, matching, todo, before, current, position,
                     outcome, yielded, disturbed, wanted, refused>>
      /\ outcome = "pending"
  BY DEF BlockRaises, asked, program, answers, Phases, IInv, Carried
<1>1. Typing' /\ Phases'
  BY <1>0 DEF Typing, Phases
<1>2. Each'
  BY <1>0 DEF Each
<1>3. Done' /\ DeltasSeen' /\ EntriesSeen'
  BY <1>0 DEF Done, DeltasSeen, EntriesSeen, Undisturbed
<1> QED
  BY <1>1, <1>2, <1>3

\* The work for a path; what remove_all has passed stays where it is.
LEMMA ApplyStep ==
    ASSUME IndexInv, NEW p \in Paths, Apply(p)
    PROVE  Progress'
<1> USE DEF IndexInv, Progress
<1>0. /\ pc = "apply" /\ pc' = "next" /\ ~error /\ method # "each"
      /\ UNCHANGED <<workdir, method, hasBlock, matching, todo, before, current, exception, error,
                     outcome, yielded, disturbed, wanted, refused, raised>>
      /\ entries \in SUBSET Entry /\ Single(entries) /\ position \in Nat \ {0}
      /\ p = current.path \/ method = "remove_all"
      /\ method = "remove_all" =>
             entries' = Without(entries, p) /\ position' = position
      /\ method # "remove_all" =>
             entries' = Synchronized(entries, p) /\ position' = position + 1
  BY DEF Apply, asked, ending, program, answers, Phases, Typing, Valid
<1>1. Typing'
  <2>1. Valid(entries')
    <3>1. Valid(entries) /\ workdir \in [Paths -> Oids \cup {None}]
      BY DEF Typing
    <3>2. Without(entries, p) \in SUBSET entries
      BY DEF Without
    <3> QED
      BY <1>0, <3>1, <3>2, SubsetValid, SynchronizedValid
  <2>2. position' \in Nat \ {0}
    BY <1>0
  <2> QED
    BY <1>0, <2>1, <2>2 DEF Typing
<1>2. Phases'
  BY <1>0 DEF Phases
<1>3. Each'
  BY <1>0 DEF Each
<1>4. Undisturbed' => Undisturbed
  BY <1>0 DEF Undisturbed
<1>5. ASSUME Undisturbed', method = "remove_all" PROVE p = current.path
  <2> DEFINE e == Vector(entries)[position]
  <2>1. position \in 1 .. Cardinality(entries) /\ current.path = e.path /\ current.stage = e.stage
    BY <1>0, <1>4, <1>5 DEF EntriesSeen
  <2>2. e \in entries
    BY <1>0, <2>1, VectorIs
  <2> HIDE DEF e
  <2> QED
    BY <2>1, <2>2 DEF Apply
<1>6. Done'
  <2> SUFFICES ASSUME method \in {"add_all", "update_all", "remove_all"}, Undisturbed'
               PROVE  entries' = Result(method, workdir, before, wanted)
    BY <1>0 DEF Done
  <2>1. p = current.path
    BY <1>0, <1>5
  <2>2. p \in wanted /\ Without(entries, p) = Without(Result(method, workdir, before, wanted), p)
    BY <1>0, <1>4, <2>1 DEF Done
  <2>3. entries' = Without(entries, p) \cup Made(method, workdir, p)
    <3>1. CASE method = "remove_all"
      BY <1>0, <3>1 DEF Made
    <3>2. CASE method # "remove_all"
      BY <1>0, <3>2, SynchronizedIs
    <3> QED
      BY <3>1, <3>2
  <2> QED
    BY <2>2, <2>3, ResultFacts
<1>7. DeltasSeen'
  <2> SUFFICES ASSUME method \in {"add_all", "update_all"} PROVE DeltasSeen'
    BY <1>0 DEF DeltasSeen
  <2>1. position' = position + 1 /\ position' - 1 = position
    BY <1>0
  <2>2. position <= Len(todo) => position' <= Len(todo') + 1
    BY <1>0, <2>1 DEF Typing
  <2>3. Seen(hasBlock', yielded', wanted') = Seen(hasBlock, yielded, wanted)
    BY <1>0
  <2> QED
    BY <1>0, <2>1, <2>2, <2>3 DEF DeltasSeen
<1>8. EntriesSeen'
  <2> SUFFICES ASSUME method = "remove_all", Undisturbed' PROVE EntriesSeen'
    BY <1>0 DEF EntriesSeen
  <2> DEFINE D == Without(entries, p)
  <2>1. /\ p = current.path /\ p \in wanted /\ p \notin refused
        /\ p \in matching /\ position \in 1 .. Cardinality(entries)
    BY <1>0, <1>4, <1>5 DEF EntriesSeen, Done, Undisturbed
  <2>2. \A i \in 1 .. position - 1 :
            /\ i \in 1 .. Cardinality(entries)
            /\ Vector(entries)[i].path \in matching => Vector(entries)[i].path \in refused
    BY <1>0, <1>4 DEF EntriesSeen
  <2>3. ASSUME NEW i \in 1 .. position - 1 PROVE Vector(entries)[i] \in D
    <3>1. Vector(entries)[i] \in entries
      BY <1>0, <2>2, VectorIs
    <3> QED
      BY <2>1, <2>2, <3>1 DEF Without
  <2>4. D \in SUBSET entries
    BY DEF Without
  <2> HIDE DEF D
  <2>5. \A i \in 1 .. position - 1 :
            i \in 1 .. Cardinality(D) /\ Vector(D)[i] = Vector(entries)[i]
    BY <1>0, <2>1, <2>3, <2>4, VectorRemoved
  <2>6. entries' = D /\ position' = position
    BY <1>0 DEF D
  <2>7. \A i \in 1 .. position' - 1 :
            /\ i \in 1 .. Cardinality(entries')
            /\ Vector(entries')[i].path \in matching => Vector(entries')[i].path \in refused
    BY <2>2, <2>5, <2>6
  <2>8. Seen(hasBlock', yielded', wanted') = Seen(hasBlock, yielded, wanted)
    BY <1>0
  <2>9. LET candidates == matching \cap {e.path : e \in before}
            seen == Seen(hasBlock, yielded, wanted)
        IN  wanted \subseteq seen /\ refused \subseteq seen /\ seen \subseteq candidates
    BY <1>0, <1>4 DEF EntriesSeen
  <2> QED
    BY <1>0, <2>7, <2>8, <2>9 DEF EntriesSeen
<1> QED
  BY <1>1, <1>2, <1>3, <1>6, <1>7, <1>8

\* A failure leaves what was done before.
LEMMA ApplyFailsStep ==
    ASSUME IndexInv, ApplyFails
    PROVE  Progress'
<1> USE DEF IndexInv, Progress
<1>0. /\ pc \in {"next", "apply"} /\ pc' = "after" /\ error' /\ ~exception /\ method # "each"
      /\ UNCHANGED <<entries, workdir, method, hasBlock, matching, todo, before, current, position,
                     exception, outcome, yielded, disturbed, wanted, refused>>
      /\ outcome = "pending"
  BY DEF ApplyFails, asked, program, answers, IInv, Carried
<1>1. Typing' /\ Phases'
  BY <1>0 DEF Typing, Phases
<1>2. Each' /\ Done' /\ DeltasSeen'
  BY <1>0 DEF Each, Done, DeltasSeen
<1>3. EntriesSeen'
  BY <1>0 DEF EntriesSeen, Undisturbed
<1> QED
  BY <1>1, <1>2, <1>3

\* There is no path or entry left to come to.
LEMMA ExhaustedStep ==
    ASSUME IndexInv, Exhausted
    PROVE  Progress'
<1> USE DEF IndexInv, Progress
<1>0. /\ pc = "next" /\ pc' = "after" /\ ~error /\ ~exception /\ outcome = "pending"
      /\ UNCHANGED <<entries, workdir, method, hasBlock, matching, todo, before, current, position,
                     exception, error, outcome, yielded, disturbed, wanted, refused>>
      /\ position \in Nat \ {0} /\ Valid(entries) /\ Valid(before)
      /\ Cardinality(entries) \in Nat /\ Cardinality(before) \in Nat
  BY EntriesOrder DEF Exhausted, asked, ending, program, answers, Phases, IInv, Carried,
                      Typing, Valid
<1>1. Typing' /\ Phases'
  BY <1>0 DEF Typing, Phases
<1>2. Each'
  <2> SUFFICES ASSUME method = "each" PROVE Each'
    BY <1>0 DEF Each
  <2>1. position > Cardinality(before)
    BY DEF Exhausted, LoopEnd
  <2>2. position = Cardinality(before) + 1
    BY <1>0, <2>1 DEF Each
  <2>3. position - 1 = Cardinality(before)
    BY <1>0, <2>2
  <2> QED
    BY <1>0, <2>3 DEF Each
<1>3. Done'
  BY <1>0 DEF Done, Undisturbed
<1>4. DeltasSeen'
  <2> SUFFICES ASSUME method \in {"add_all", "update_all"} PROVE DeltasSeen'
    BY <1>0 DEF DeltasSeen
  <2>1. position > Len(todo)
    BY DEF Exhausted, LoopEnd
  <2>2. Len(todo) \in Nat /\ DOMAIN todo = 1 .. Len(todo)
    BY DEF Typing
  <2>3. position - 1 = Len(todo)
    BY <1>0, <2>1, <2>2 DEF DeltasSeen
  <2>4. {todo[i] : i \in 1 .. position - 1} = ToSet(todo)
    BY <2>2, <2>3 DEF ToSet
  <2> QED
    BY <1>0, <2>4 DEF DeltasSeen
<1>5. EntriesSeen'
  <2> SUFFICES ASSUME method = "remove_all", Undisturbed PROVE EntriesSeen'
    BY <1>0 DEF EntriesSeen, Undisturbed
  <2> DEFINE candidates == matching \cap {e.path : e \in before}
             seen == Seen(hasBlock, yielded, wanted)
  <2>1. position > Cardinality(entries)
    BY DEF Exhausted, LoopEnd
  <2>2. /\ wanted \subseteq seen /\ refused \subseteq seen /\ seen \subseteq candidates
        /\ \A i \in 1 .. position - 1 :
               /\ i \in 1 .. Cardinality(entries)
               /\ Vector(entries)[i].path \in matching => Vector(entries)[i].path \in refused
    BY <1>0 DEF EntriesSeen
  <2>3. entries = Result(method, workdir, before, wanted)
    BY <1>0 DEF Done
  <2> HIDE DEF seen
  <2>4. ASSUME NEW e \in before, e.path \in matching PROVE e.path \in seen
    <3>1. CASE e.path \in wanted
      BY <2>2, <3>1
    <3>2. CASE e.path \notin wanted
      <4>1. e \in entries
        BY <2>3, <3>2, ResultFacts
      <4>2. PICK i \in 1 .. Cardinality(entries) : Vector(entries)[i] = e
        BY <1>0, <4>1, VectorIs DEF Valid
      <4>3. i \in 1 .. position - 1
        BY <1>0, <2>1
      <4> QED
        BY <2>2, <2>4, <4>2, <4>3
    <3> QED
      BY <3>1, <3>2
  <2>5. candidates \subseteq seen
    BY <2>4
  <2> QED
    BY <1>0, <2>2, <2>5 DEF EntriesSeen, seen
<1> QED
  BY <1>1, <1>2, <1>3, <1>4, <1>5

\* The method ends, with or without having begun.
LEMMA EndStep ==
    ASSUME IndexInv, Return \/ Refuse
    PROVE  Progress'
<1> USE DEF IndexInv, Progress
<1>0. /\ pc' = "done"
      /\ UNCHANGED <<entries, workdir, method, hasBlock, matching, todo, before, current, position,
                     exception, error, yielded, disturbed, wanted, refused>>
      /\ outcome' = "returned" => ~exception /\ ~error
      /\ outcome' = "raised" => exception
  BY DEF Return, Refuse, asked, program, answers, IInv, Carried
<1>1. pc = "after" \/ method = "none"
  BY DEF Return, Refuse, Phases
<1>2. Typing'
  BY <1>0 DEF Typing
<1>3. Phases'
  BY <1>0 DEF Phases
<1>4. Each' /\ Done' /\ DeltasSeen'
  BY <1>0, <1>1 DEF Each, Done, DeltasSeen, Undisturbed
<1>5. EntriesSeen'
  BY <1>0, <1>1 DEF EntriesSeen, Undisturbed
<1> QED
  BY <1>2, <1>3, <1>4, <1>5

\* All steps keep the invariant.
LEMMA IndexStep == IndexInv /\ [Next]_vars => IndexInv'
<1> SUFFICES ASSUME IndexInv, [Next]_vars PROVE IndexInv'
  OBVIOUS
<1>0. IInv'
  BY NextIInv DEF IndexInv
<1>1. CASE Program
  <2>1. PICK E, sides : Valid(E) /\ Edit(E, sides)
    BY <1>1, ProgramValid DEF IndexInv, Progress
  <2> QED
    BY <1>0, <2>1, EditStep DEF IndexInv
<1>2. ASSUME NEW m \in Methods, NEW b \in BOOLEAN, NEW M \in SUBSET Paths, Start(m, b, M)
      PROVE  IndexInv'
  BY <1>0, <1>2, StartStep DEF IndexInv
<1>3. CASE EachYield
  BY <1>0, <1>3, EachYieldStep DEF IndexInv
<1>4. CASE ConsiderDelta
  BY <1>0, <1>4, ConsiderDeltaStep DEF IndexInv
<1>5. CASE ConsiderEntry
  BY <1>0, <1>5, ConsiderEntryStep DEF IndexInv
<1>6. ASSUME NEW yes \in BOOLEAN, BlockReturns(yes) PROVE IndexInv'
  BY <1>0, <1>6, BlockReturnsStep DEF IndexInv
<1>7. CASE BlockRaises
  BY <1>0, <1>7, BlockRaisesStep DEF IndexInv
<1>8. ASSUME NEW p \in Paths, Apply(p) PROVE IndexInv'
  BY <1>0, <1>8, ApplyStep DEF IndexInv
<1>9. CASE ApplyFails
  BY <1>0, <1>9, ApplyFailsStep DEF IndexInv
<1>10. CASE Exhausted
  BY <1>0, <1>10, ExhaustedStep DEF IndexInv
<1>11. CASE Return \/ Refuse
  BY <1>0, <1>11, EndStep DEF IndexInv
<1>12. CASE UNCHANGED vars
  <2>1. Typing' /\ Phases' /\ Each'
    BY <1>12 DEF vars, IndexInv, Progress, Typing, Phases, Each
  <2>2. Done' /\ DeltasSeen' /\ EntriesSeen'
    BY <1>12 DEF vars, IndexInv, Progress, Done, DeltasSeen, EntriesSeen, Undisturbed
  <2> QED
    BY <1>0, <2>1, <2>2 DEF IndexInv, Progress
<1> QED
  BY <1>1, <1>2, <1>3, <1>4, <1>5, <1>6, <1>7, <1>8, <1>9, <1>10, <1>11, <1>12 DEF Next

\* So it holds throughout.
LEMMA IndexInvariant == Spec => []IndexInv
<1>1. Init => IndexInv
  BY InitIInv, InitProgress DEF IndexInv
<1> QED
  BY <1>1, IndexStep, PTL DEF Spec

\* At the end, what was done for the wanted paths is all that was done.
LEMMA WantedHolds == IndexInv => OnlyWanted
<1> SUFFICES ASSUME IndexInv PROVE OnlyWanted
  OBVIOUS
<1> USE DEF IndexInv, Progress
<1> DEFINE made(p) == IF method = "remove_all" THEN {} ELSE Synchronized({}, p)
           candidates ==
               IF method = "remove_all" THEN matching \cap {e.path : e \in before} ELSE ToSet(todo)
<1> SUFFICES ASSUME method \notin {"each", "none"}, ~disturbed, wanted \cap refused = {},
                    outcome \in {"returned", "raised"}
             PROVE  /\ entries = {e \in before : e.path \notin wanted}
                                  \cup UNION {made(p) : p \in wanted}
                    /\ outcome = "returned" =>
                           candidates = IF hasBlock THEN ToSet(yielded) ELSE wanted
  BY DEF OnlyWanted
<1>1. /\ method \in {"add_all", "update_all", "remove_all"} /\ Undisturbed
      /\ pc = "done" /\ (error => exception)
      /\ outcome = "returned" => ~exception /\ ~error
  BY DEF Typing, Methods, Undisturbed, IInv, Carried, Phases
<1>2. entries = Result(method, workdir, before, wanted)
  BY <1>1 DEF Done
<1>3. \A p : made(p) = Made(method, workdir, p)
  BY DEF Made, Synchronized, Without
<1> HIDE DEF made
<1>4. entries = {e \in before : e.path \notin wanted} \cup UNION {made(p) : p \in wanted}
  BY <1>2, <1>3 DEF Result
<1>5. ASSUME outcome = "returned" PROVE candidates = Seen(hasBlock, yielded, wanted)
  BY <1>1, <1>5 DEF DeltasSeen, EntriesSeen
<1> QED
  BY <1>4, <1>5 DEF Seen

\* What each has given its block is the beginning of the vector.
LEMMA OrderHolds == IndexInv => EachInOrder
<1> SUFFICES ASSUME IndexInv, method = "each" PROVE EachInOrder
  BY DEF EachInOrder
<1> USE DEF IndexInv, Progress
<1> DEFINE v == Vector(before)
           n == Len(yielded)
<1>0. PICK S : yielded \in Seq(S)
  BY DEF IInv, Shown
<1>1. /\ v \in Seq(before) /\ Len(v) = Cardinality(before) /\ Cardinality(before) \in Nat
      /\ n \in Nat /\ n <= Len(v)
  BY <1>0, VectorIs DEF Typing, Valid, Each
<1> DEFINE U == S \cup before
<1>2. yielded \in Seq(U) /\ v \in Seq(U)
  BY <1>0, <1>1
<1> HIDE DEF v
<1>3. ASSUME ~disturbed PROVE \A i \in 1 .. n : yielded[i] = v[i]
  BY <1>3 DEF Each, v
<1>4. ASSUME ~disturbed PROVE IsPrefix(yielded, v)
  <2>1. \A i \in 1 .. n : yielded[i] \in U /\ v[i] \in U
    BY <1>1, <1>2
  <2>2. /\ SubSeq(yielded, 1, n) \in Seq(U) /\ SubSeq(v, 1, n) \in Seq(U)
        /\ Len(SubSeq(yielded, 1, n)) = n /\ Len(SubSeq(v, 1, n)) = n
        /\ \A i \in 1 .. n : SubSeq(yielded, 1, n)[i] = yielded[i] /\ SubSeq(v, 1, n)[i] = v[i]
    BY <1>1, <1>2, <2>1, SubSeqProperties
  <2>3. SubSeq(yielded, 1, n) = SubSeq(v, 1, n)
    BY <1>3, <1>4, <2>2, SeqEqual
  <2> QED
    BY <1>1, <2>3 DEF IsPrefix
<1>5. ASSUME ~disturbed, outcome = "returned" PROVE yielded = v
  <2>1. pc = "done" /\ ~exception
    BY <1>5 DEF IInv, Carried, Phases
  <2>2. n = Len(v)
    BY <1>1, <1>5, <2>1 DEF Each
  <2> QED
    BY <1>2, <1>3, <1>5, <2>2, SeqEqual
<1> QED
  BY <1>1, <1>4, <1>5 DEF EachInOrder, v

\* add_all, update_all and remove_all change the entries of the paths that the
\* block said yes to and no other, in whatever order they come to them and also
\* when the block raises in the end; one that returns has come to all.
THEOREM IterationsFaithful == Spec => []OnlyWanted
BY IndexInvariant, WantedHolds, PTL

\* each gives its block no more entries than there were when it began; if the
\* block leaves the index alone, these entries in their order.
THEOREM EachFaithful == Spec => []EachInOrder
BY IndexInvariant, OrderHolds, PTL

-----------------------------------------------------------------------------
(* What the entries are.                                                    *)

\* What the progress of a method says nothing of.
Remainder ==
    /\ matching \subseteq Paths
    /\ current = None \/ current \in [path: Paths, stage: Stages]
    /\ outcome \in {"pending", "returned", "raised", "failed"}
    /\ changes \in 0 .. MaxChanges
    /\ added \subseteq Entry

\* What libgit2 asks about is a path and a stage.
LEMMA ConsideredTyped ==
    ASSUME NEW p \in Paths, NEW s \in Stages, Consider(p, s)
    PROVE  current' \in [path: Paths, stage: Stages]
BY DEF Consider

\* Each step puts into it what it may hold.
LEMMA RemainderStep ==
    ASSUME IndexInv, Remainder, [Next]_vars
    PROVE  Remainder'
<1> USE DEF Remainder
<1>1. CASE Program
  <2>1. PICK E, sides : Edit(E, sides) /\ sides \subseteq Entry
    <3>1. ASSUME NEW p \in Paths, NEW c \in Oids, NEW S \in SUBSET (1 .. 3),
                 NEW garbage, ConflictAdd({IndexEntry(p, s, c) : s \in S}, garbage)
          PROVE  \E E, sides : Edit(E, sides) /\ sides \subseteq Entry
      <4> DEFINE sides == {IndexEntry(p, s, c) : s \in S}
      <4>1. \A s \in S : IndexEntry(p, s, c) \in Entry
        <5>1. \A s \in S : s \in Int
          OBVIOUS
        <5> QED
          BY <5>1, IndexEntryType
      <4>2. sides \subseteq Entry
        BY <4>1
      <4>3. \E E : Edit(E, sides)
        BY <3>1 DEF ConflictAdd
      <4> HIDE DEF sides
      <4> QED
        BY <4>2, <4>3
    <3>2. ASSUME NEW E, Edit(E, {}) PROVE \E F, sides : Edit(F, sides) /\ sides \subseteq Entry
      BY <3>2
    <3> QED
      BY <1>1, <3>1, <3>2, Zenon
         DEF Program, AddEntry, AddPath, RemoveEntry, RemoveDir, Load, ConflictRemove,
             ConflictCleanup
  <2>2. changes' \in 0 .. MaxChanges
    BY <2>1, BoundAssumption DEF Edit
  <2> QED
    BY <2>1, <2>2 DEF Edit, asked, ending
<1>2. CASE ConsiderDelta
  <2>1. /\ position \in 1 .. Len(todo) /\ todo \in Seq(Paths)
        /\ Consider(todo[position], 0)
    BY <1>2 DEF ConsiderDelta, IndexInv, Progress, Typing
  <2>2. todo[position] \in Paths /\ 0 \in Stages
    BY <2>1 DEF Stages
  <2> QED
    BY <2>1, <2>2, ConsideredTyped DEF Consider, asked, ending, program
<1>3. CASE ConsiderEntry
  <2> DEFINE e == Vector(entries)[position]
  <2>1. /\ entries \in SUBSET Entry /\ Single(entries) /\ position \in Nat \ {0}
        /\ position <= Cardinality(entries)
    BY <1>3 DEF ConsiderEntry, IndexInv, Progress, Typing, Valid
  <2>2. e \in entries
    BY <2>1, VectorIs
  <2>3. e.path \in Paths /\ e.stage \in Stages
    BY <2>1, <2>2 DEF Entry
  <2>4. \/ Consider(e.path, e.stage)
        \/ UNCHANGED <<asked, current, ending, program>>
    BY <1>3 DEF ConsiderEntry
  <2> HIDE DEF e
  <2> QED
    BY <2>3, <2>4, ConsideredTyped DEF Consider, asked, ending, program
<1>4. ASSUME NEW m, NEW b, NEW M \in SUBSET Paths, Start(m, b, M) PROVE Remainder'
  BY <1>4 DEF Start, ending, program
<1>5. ASSUME NEW yes, BlockReturns(yes) PROVE Remainder'
  BY <1>5 DEF BlockReturns, asked, ending, program
<1>6. ASSUME NEW p, Apply(p) PROVE Remainder'
  BY <1>6 DEF Apply, asked, ending, program
<1>7. CASE EachYield \/ BlockRaises \/ ApplyFails \/ Exhausted \/ Return \/ Refuse
  BY <1>7 DEF EachYield, BlockRaises, ApplyFails, Exhausted, Return, Refuse, asked, ending, program
<1>8. CASE UNCHANGED vars
  BY <1>8 DEF vars
<1> QED
  BY <1>1, <1>2, <1>3, <1>4, <1>5, <1>6, <1>7, <1>8 DEF Next

\* Whatever the program adds, loads, removes or makes a conflict of, with any
\* number for a stage and a side of a conflict that was never filled in, an index
\* has at most one entry for a path and a stage, and each is an entry.
THEOREM IndexTyped == Spec => []TypeOK
<1>1. Init => Remainder
  BY BoundAssumption DEF Init, Remainder
<1>2. IndexInv /\ Remainder /\ [Next]_vars => Remainder'
  BY RemainderStep
<1>3. IndexInv /\ Remainder => TypeOK
  BY DEF IndexInv, IInv, Carried, Progress, Typing, Valid, Remainder, TypeOK
<1> QED
  BY <1>1, <1>2, <1>3, IndexInvariant, PTL DEF Spec

-----------------------------------------------------------------------------
(* The methods come nearer to their end.                                    *)

\* Unless the block has changed the index, the entry that remove_all is at is
\* one of the index.
AtEntry ==
    /\ pc \in {"next", "block", "apply"} => method \in Methods
    /\ method = "remove_all" /\ ~disturbed /\ pc \in {"block", "apply"} =>
           /\ position \in 1 .. Cardinality(entries)
           /\ \E e \in entries : e.path = current.path /\ e.stage = current.stage

\* What remove_all comes to it takes from the vector of entries.
LEMMA AtEntryStep == IndexInv /\ AtEntry /\ [Next]_vars => AtEntry'
<1>0. IndexInv /\ AtEntry /\ [Next]_vars /\ pc' \in {"next", "block", "apply"}
          => method' \in Methods
  BY DEF AtEntry, Next, vars, Program, Edit, AddEntry, AddPath, RemoveEntry, RemoveDir, Load,
         ConflictAdd, ConflictRemove, ConflictCleanup, Start, Refuse, EachYield, ConsiderDelta,
         ConsiderEntry, Consider, BlockReturns, BlockRaises, Apply, ApplyFails, Exhausted, Return,
         asked
<1> SUFFICES ASSUME IndexInv, AtEntry, [Next]_vars, method' = "remove_all", ~disturbed',
                    pc' \in {"block", "apply"}
             PROVE  AtEntry'
  BY <1>0 DEF AtEntry
<1>1. CASE Program
  <2>1. PICK E, sides : Edit(E, sides)
    BY <1>1, ProgramValid DEF IndexInv, Progress
  <2> QED
    BY <2>1 DEF Edit
<1>2. CASE ConsiderEntry
  <2> DEFINE e == Vector(entries)[position]
  <2>1. /\ entries \in SUBSET Entry /\ Single(entries) /\ position \in Nat \ {0}
        /\ position <= Cardinality(entries) /\ pc = "next"
    BY <1>2 DEF ConsiderEntry, IndexInv, Progress, Typing, Valid
  <2>2. position \in 1 .. Cardinality(entries) /\ e \in entries
    BY <2>1, VectorIs
  <2>3. e.path \in matching /\ Consider(e.path, e.stage)
    BY <1>2, <2>1 DEF ConsiderEntry
  <2> HIDE DEF e
  <2>4. /\ UNCHANGED <<entries, position>>
        /\ current'.path = e.path /\ current'.stage = e.stage
    BY <2>3 DEF Consider
  <2> QED
    BY <2>2, <2>4 DEF AtEntry, Methods
<1>3. ASSUME NEW yes \in BOOLEAN, BlockReturns(yes) PROVE AtEntry'
  <2>1. /\ pc = "block" /\ UNCHANGED <<entries, method, disturbed, current>>
        /\ pc' = "apply" => position' = position
    BY <1>3 DEF BlockReturns, asked, program
  <2>2. pc' # "block"
    BY <1>3 DEF BlockReturns
  <2> QED
    BY <2>1, <2>2 DEF AtEntry
<1>4. CASE ConsiderDelta
  BY <1>4 DEF ConsiderDelta, Consider, asked, IndexInv, Progress, Phases, Typing
<1>5. CASE \/ EachYield \/ BlockRaises \/ ApplyFails \/ Exhausted \/ Return \/ Refuse
           \/ \E m \in Methods, b \in BOOLEAN, M \in SUBSET Paths : Start(m, b, M)
           \/ \E p \in Paths : Apply(p)
  BY <1>5 DEF EachYield, BlockRaises, ApplyFails, Exhausted, Return, Refuse, Start, Apply, asked
<1>6. CASE UNCHANGED vars
  BY <1>6 DEF vars, AtEntry
<1> QED
  BY <1>1, <1>2, <1>3, <1>4, <1>5, <1>6 DEF Next

\* Which of two triples is the smaller one.
LEMMA Smaller ==
    ASSUME NEW a, NEW b, NEW c, NEW d, NEW e, NEW f,
           \/ a < d
           \/ a = d /\ b < e
           \/ a = d /\ b = e /\ c < f
    PROVE  Before(<<a, b, c>>, <<d, e, f>>)
BY DEF Before

\* The numbers that the steps count with.
LEMMA IndexNumbers ==
    ASSUME IndexInv
    PROVE  /\ position \in Nat \ {0} /\ Cardinality(entries) \in Nat
           /\ Cardinality(before) \in Nat /\ Len(todo) \in Nat /\ LoopEnd \in Nat
<1>1. /\ position \in Nat \ {0} /\ Valid(entries) /\ Valid(before) /\ todo \in Seq(Paths)
  BY DEF IndexInv, Progress, Typing
<1>2. Cardinality(entries) \in Nat /\ Cardinality(before) \in Nat /\ Len(todo) \in Nat
  BY <1>1, EntriesOrder DEF Valid
<1> QED
  BY <1>1, <1>2 DEF LoopEnd

\* The position moves on.
LEMMA ItemsPassed ==
    ASSUME IndexInv, position <= LoopEnd, position' = position + 1, LoopEnd' = LoopEnd
    PROVE  Items' < Items
BY IndexNumbers DEF Items

\* The position of a block, and of the work for a path, is one of the loop.
LEMMA PositionThere ==
    ASSUME IndexInv, AtEntry, pc \in {"block", "apply"}, method = "remove_all" => ~disturbed
    PROVE  position <= LoopEnd
<1>1. CASE method = "each"
  BY <1>1 DEF IndexInv, Progress, Phases, Each, LoopEnd
<1>2. CASE method = "remove_all"
  BY <1>2, IndexNumbers DEF AtEntry, LoopEnd
<1>3. CASE method \in {"add_all", "update_all"}
  BY <1>3 DEF IndexInv, Progress, DeltasSeen, LoopEnd
<1> QED
  BY <1>1, <1>2, <1>3 DEF AtEntry, Methods

\* A step of a method or an end of its block.
LEMMA EndsSoonerStep ==
    ASSUME IndexInv, AtEntry, Next, Part # 0, method = "remove_all" => ~disturbed'
    PROVE  \/ Before(Left', Left)
           \/ Left' = Left /\ changes' = changes + 1
<1>0. Left = <<Part, Items, Turn>> /\ Left' = <<Part', Items', Turn'>>
  BY DEF Left
<1>1. CASE Program
  <2>1. PICK E, sides : Edit(E, sides)
    BY <1>1, ProgramValid DEF IndexInv, Progress
  <2>2. pc = "block" /\ disturbed' /\ method # "remove_all"
    BY <2>1 DEF Edit, Part
  <2>3. /\ UNCHANGED <<pc, method, before, todo, position>> /\ changes' = changes + 1
    BY <2>1 DEF Edit, asked
  <2>4. Part' = Part /\ Turn' = Turn /\ Items' = Items
    BY <2>2, <2>3 DEF Part, Turn, Items, LoopEnd
  <2> QED
    BY <1>0, <2>3, <2>4
<1>2. CASE Refuse \/ \E m \in Methods, b \in BOOLEAN, M \in SUBSET Paths : Start(m, b, M)
  BY <1>2 DEF Refuse, Start, Part
<1>3. CASE EachYield
  <2>1. /\ pc = "next" /\ position <= LoopEnd /\ UNCHANGED <<method, before>> /\ method = "each"
        /\ \/ pc' = "block" /\ position' = position
           \/ pc' = "next" /\ position' = position + 1
    BY <1>3 DEF EachYield, asked, LoopEnd
  <2>2. Part' = Part /\ LoopEnd' = LoopEnd
    BY <2>1 DEF Part, LoopEnd
  <2>3. CASE pc' = "block" /\ position' = position
    BY <1>0, <2>1, <2>2, <2>3, Smaller DEF Items, Turn
  <2>4. CASE pc' = "next" /\ position' = position + 1
    BY <1>0, <2>1, <2>2, <2>4, ItemsPassed, Smaller
  <2> QED
    BY <2>1, <2>3, <2>4
<1>4. CASE ConsiderDelta \/ ConsiderEntry
  <2>1. /\ pc = "next" /\ UNCHANGED <<method, before, todo, entries>>
        /\ \/ pc' \in {"block", "apply"} /\ position' = position
           \/ pc' = "next" /\ position' = position + 1 /\ method = "remove_all"
                /\ position <= Cardinality(entries)
    BY <1>4 DEF ConsiderDelta, ConsiderEntry, Consider, asked
  <2>2. Part' = Part /\ LoopEnd' = LoopEnd
    BY <2>1 DEF Part, LoopEnd
  <2>3. CASE pc' \in {"block", "apply"} /\ position' = position
    <3>1. Items' = Items
      BY <2>2, <2>3 DEF Items
    <3>2. Turn' < Turn
      BY <2>1, <2>3 DEF Turn
    <3> QED
      BY <1>0, <2>2, <3>1, <3>2, Smaller
  <2>4. CASE pc' = "next" /\ position' = position + 1 /\ method = "remove_all"
             /\ position <= Cardinality(entries)
    <3>1. position <= LoopEnd
      BY <2>4 DEF LoopEnd
    <3> QED
      BY <1>0, <2>2, <2>4, <3>1, ItemsPassed, Smaller
  <2> QED
    BY <2>1, <2>3, <2>4
<1>5. ASSUME NEW yes \in BOOLEAN, BlockReturns(yes) PROVE Before(Left', Left)
  <2>1. /\ pc = "block" /\ UNCHANGED <<method, before, todo, entries, disturbed>>
        /\ \/ pc' = "apply" /\ position' = position
           \/ pc' = "next" /\ position' = position + 1
    BY <1>5 DEF BlockReturns, asked, program
  <2>2. Part' = Part /\ LoopEnd' = LoopEnd
    BY <2>1 DEF Part, LoopEnd
  <2>3. position <= LoopEnd
    BY <2>1, PositionThere
  <2>4. CASE pc' = "apply" /\ position' = position
    BY <1>0, <2>1, <2>2, <2>4, Smaller DEF Items, Turn
  <2>5. CASE pc' = "next" /\ position' = position + 1
    BY <1>0, <2>2, <2>3, <2>5, ItemsPassed, Smaller
  <2> QED
    BY <2>1, <2>4, <2>5
<1>6. ASSUME NEW p \in Paths, Apply(p) PROVE Before(Left', Left)
  <2>1. /\ pc = "apply" /\ pc' = "next" /\ UNCHANGED <<method, before, todo, disturbed>>
        /\ method # "remove_all" => position' = position + 1
        /\ method = "remove_all" => position' = position /\ entries' = Without(entries, p)
    BY <1>6 DEF Apply, asked, program
  <2>2. Part' = Part /\ position <= LoopEnd
    BY <2>1, PositionThere DEF Part
  <2>3. CASE method # "remove_all"
    <3>1. LoopEnd' = LoopEnd
      BY <2>1, <2>3 DEF LoopEnd
    <3> QED
      BY <1>0, <2>1, <2>2, <2>3, <3>1, ItemsPassed, Smaller
  <2>4. CASE method = "remove_all"
    <3>1. PICK e \in entries : e.path = current.path /\ e.stage = current.stage
      BY <2>1, <2>4 DEF AtEntry
    <3>2. e \notin entries' /\ entries' \subseteq entries
      BY <1>6, <2>1, <2>4, <3>1 DEF Apply, Without
    <3>3. IsFiniteSet(entries)
      BY EntriesOrder DEF IndexInv, Progress, Typing, Valid
    <3>4. /\ Cardinality(entries') \in Nat /\ Cardinality(entries) \in Nat
          /\ Cardinality(entries') < Cardinality(entries)
      <4>1. entries' # entries
        BY <3>1, <3>2
      <4> QED
        BY <3>2, <3>3, <4>1, FS_Subset, FS_CardinalityType
    <3>5. LoopEnd = Cardinality(entries) /\ LoopEnd' = Cardinality(entries')
      BY <2>1, <2>4 DEF LoopEnd
    <3>6. Items' < Items
      BY <2>1, <2>2, <2>4, <3>4, <3>5, IndexNumbers DEF Items
    <3> QED
      BY <1>0, <2>2, <3>6, Smaller
  <2> QED
    BY <2>3, <2>4
<1>7. CASE BlockRaises \/ ApplyFails \/ Exhausted
  <2>1. Part = 2 /\ Part' = 1
    BY <1>7 DEF BlockRaises, ApplyFails, Exhausted, Part
  <2> QED
    BY <1>0, <2>1, Smaller
<1>8. CASE Return
  <2>1. Part = 1 /\ Part' = 0
    BY <1>8 DEF Return, Part
  <2> QED
    BY <1>0, <2>1, Smaller
<1> QED
  BY <1>1, <1>2, <1>3, <1>4, <1>5, <1>6, <1>7, <1>8 DEF Next

\* What is left is a triple of natural numbers.
LEMMA LeftTyped == IndexInv => Left \in Nat \X Nat \X Nat
<1> SUFFICES ASSUME IndexInv PROVE Left \in Nat \X Nat \X Nat
  OBVIOUS
<1>1. Part \in Nat /\ Turn \in Nat
  BY DEF Part, Turn
<1>2. Items \in Nat
  BY IndexNumbers DEF Items
<1> QED
  BY <1>1, <1>2 DEF Left

\* each, add_all, update_all and remove_all come nearer to their end with every
\* step and every end of their block, for any number of entries and paths: what
\* is left of them is a triple of numbers that gets smaller.  Of remove_all that
\* is true if the block leaves the index alone.
THEOREM IterationsEndSooner == Spec => EndsSooner /\ [](Left \in Nat \X Nat \X Nat)
<1>1. Init => AtEntry
  BY DEF Init, AtEntry
<1>2. Spec => [](IndexInv /\ AtEntry)
  BY <1>1, IndexInvariant, AtEntryStep, PTL DEF Spec
<1>3. IndexInv /\ AtEntry /\ [Next]_vars =>
        [Part # 0 /\ (method = "remove_all" => ~disturbed') =>
            \/ Before(Left', Left)
            \/ Left' = Left /\ changes' = changes + 1]_vars
  BY EndsSoonerStep
<1> QED
  BY <1>2, <1>3, LeftTyped, PTL DEF Spec, EndsSooner

=============================================================================
