-------------------------- MODULE RepoOwnedProofs --------------------------
(***************************************************************************)
(* The safety properties of RepoOwned hold for any number of repositories, *)
(* rebases, indexes and native structures.  None of them is inductive by   *)
(* itself: that "repo.index = idx" keeps the native index of a repository  *)
(* to itself depends on who owns idx, on who else holds what idx holds,    *)
(* and on what the collector may already have swept.  IInv collects the    *)
(* facts that are, and every operation preserves it.                       *)
(***************************************************************************)
EXTENDS RepoOwned, FiniteSetTheorems, TLAPS

(* The parts of the inductive invariant.                                    *)

\* An object that does not exist holds nothing.
Unborn == \A x \in Objects \ live : hold[x] = Nil

\* A native structure is allocated exactly while something refers to it.
AliveExact == \A h \in Handles : h \in alive <=> rc[h] > 0

\* libgit2's owner of a native index is the repository that uses it.
OwnerExact == \A r \in Repos : \A h \in Handles : nowner[h] = r <=> hold[r] = h

\* What else holds the native index of a repository or of a rebase is a
\* wrapper that names it as its owner.
HostExclusive ==
    \A n \in Repos \cup Rebases : \A x \in Objects \ {n} :
        hold[x] = hold[n] /\ hold[n] # Nil => x \in Indexes /\ owner[x] = n

\* Two wrappers of the same native index belong to a rebase.
Twins ==
    \A i \in Indexes : \A j \in Indexes \ {i} :
        hold[i] = hold[j] /\ hold[i] # Nil => owner[i] \in Rebases

\* The repository r is known to the wrapper in its "@index", and shares its
\* native index with that wrapper only.
Agrees(r) ==
    /\ ivar[r] # Nil => owner[ivar[r]] = r
    /\ \A x \in Objects \ {r} : hold[x] = hold[r] /\ hold[r] # Nil => x = ivar[r]

\* A set the collector may mark that has only live objects in it; the agreement
\* is about its repositories only, since the others may be half swept.
Keeps(S) ==
    /\ S \subseteq live
    /\ roots \subseteq S
    /\ \A x \in S : Points(x) \subseteq S
    /\ \A r \in S \cap Repos : Agrees(r)

Kept == \E S \in SUBSET Objects : Keeps(S)

IInv ==
    /\ TypeOK
    /\ Unborn
    /\ RefcountExact
    /\ AliveExact
    /\ OwnerExact
    /\ HostExclusive
    /\ Twins
    /\ Kept

-----------------------------------------------------------------------------
(* Counting the holders of a native index.                                  *)

\* The objects that hold g are finitely many, live or not.
LEMMA HoldersAre ==
    ASSUME Unborn, TypeOK, NEW g \in Handles
    PROVE  /\ Holders(g) = {x \in Objects : hold[x] = g}
           /\ IsFiniteSet(Holders(g))
           /\ Cardinality(Holders(g)) \in Nat
<1>1. Holders(g) = {x \in Objects : hold[x] = g}
  BY KindsAssumption DEF Holders, Unborn, TypeOK
<1>2. Holders(g) \subseteq Objects
  BY <1>1
<1>3. IsFiniteSet(Holders(g))
  BY <1>2, FS_Subset, KindsAssumption
<1> QED
  BY <1>1, <1>3, FS_CardinalityType

\* When one object x lets go of what it holds and takes b instead, the number
\* of holders of every native index changes by the difference.
LEMMA Rehold ==
    ASSUME Unborn, TypeOK, Unborn', TypeOK',
           NEW x \in Objects, NEW b \in Handles \cup {Nil},
           hold' = [hold EXCEPT ![x] = b]
    PROVE  \A g \in Handles : Cardinality(Holders(g))' = Cardinality(Holders(g))
               + (IF g = b THEN 1 ELSE 0) - (IF g = hold[x] THEN 1 ELSE 0)
<1> SUFFICES ASSUME NEW g \in Handles
             PROVE  Cardinality(Holders(g))' = Cardinality(Holders(g))
               + (IF g = b THEN 1 ELSE 0) - (IF g = hold[x] THEN 1 ELSE 0)
  OBVIOUS
<1> DEFINE H == {y \in Objects : hold[y] = g}
           K == {y \in Objects : hold'[y] = g}
<1>1. H = Holders(g) /\ IsFiniteSet(H) /\ Cardinality(H) \in Nat
  BY HoldersAre
<1>2. K = Holders(g)'
  BY KindsAssumption DEF Holders, Unborn, TypeOK
<1>3. CASE g = b /\ g # hold[x]
  <2>1. K = H \cup {x} /\ x \notin H
    BY <1>3 DEF TypeOK
  <2> HIDE DEF H, K
  <2>2. Cardinality(H \cup {x}) = Cardinality(H) + 1
    BY <1>1, <2>1, FS_AddElement
  <2>3. Cardinality(Holders(g))' = Cardinality(Holders(g)) + 1
    BY <1>1, <1>2, <2>1, <2>2
  <2> QED
    BY <1>1, <1>3, <2>3
<1>4. CASE g # b /\ g = hold[x]
  <2>1. K = H \ {x} /\ x \in H
    BY <1>4 DEF TypeOK
  <2> HIDE DEF H, K
  <2>2. Cardinality(H \ {x}) = Cardinality(H) - 1
    BY <1>1, <2>1, FS_RemoveElement
  <2>3. Cardinality(Holders(g))' = Cardinality(Holders(g)) - 1
    BY <1>1, <1>2, <2>1, <2>2
  <2> QED
    BY <1>1, <1>4, <2>3
<1>5. CASE (g = b) <=> (g = hold[x])
  <2>1. K = H
    BY <1>5 DEF TypeOK
  <2> QED
    BY <1>1, <1>2, <1>5, <2>1
<1> QED
  BY <1>3, <1>4, <1>5

\* What an object holds is allocated and counted.
LEMMA Held ==
    ASSUME IInv, NEW x \in Objects, hold[x] # Nil
    PROVE  hold[x] \in Handles /\ rc[hold[x]] > 0 /\ hold[x] \in alive
<1> DEFINE g == hold[x]
<1>1. g \in Handles
  BY DEF IInv, TypeOK
<1>2. x \in Holders(g)
  BY DEF IInv, Unborn, Holders
<1>3. IsFiniteSet(Holders(g)) /\ Cardinality(Holders(g)) \in Nat
  BY <1>1, HoldersAre DEF IInv
<1>4. Cardinality(Holders(g)) # 0
  BY <1>2, <1>3, FS_EmptySet
<1>5. rc[g] = Cardinality(Holders(g))
  BY <1>1 DEF IInv, RefcountExact
<1> QED
  BY <1>1, <1>3, <1>4, <1>5 DEF IInv, AliveExact

\* A native structure that is not allocated has no references at all.
LEMMA Free ==
    ASSUME IInv, NEW h \in Handles \ alive
    PROVE  /\ rc[h] = 0
           /\ \A x \in Objects : hold[x] # h
           /\ h # Nil
           /\ nowner[h] = Nil
<1>1. rc[h] = 0
  BY DEF IInv, AliveExact, TypeOK
<1>2. \A x \in Objects : hold[x] # h
  BY Held, KindsAssumption
<1>3. nowner[h] = Nil
  BY <1>2 DEF IInv, OwnerExact, TypeOK, Objects
<1> QED
  BY <1>1, <1>2, <1>3, KindsAssumption

\* The counts stay exact when one object x takes b for what it held and the
\* counts change accordingly.
LEMMA Recount ==
    ASSUME IInv, TypeOK', Unborn',
           NEW x \in Objects, NEW b \in Handles \cup {Nil},
           hold' = [hold EXCEPT ![x] = b],
           \A g \in Handles : rc'[g] = rc[g] + (IF g = b THEN 1 ELSE 0)
                                             - (IF g = hold[x] THEN 1 ELSE 0)
    PROVE  RefcountExact'
<1>1. TypeOK /\ Unborn /\ RefcountExact
  BY DEF IInv
<1>2. \A g \in Handles : Cardinality(Holders(g))' = Cardinality(Holders(g))
          + (IF g = b THEN 1 ELSE 0) - (IF g = hold[x] THEN 1 ELSE 0)
  BY <1>1, Rehold
<1> QED
  BY <1>1, <1>2 DEF RefcountExact

-----------------------------------------------------------------------------
(* One lemma for each operation: it preserves the invariant.                *)

\* There is no repository.
LEMMA InitIInv == Init => IInv
<1> SUFFICES ASSUME Init PROVE IInv
  OBVIOUS
<1>1. TypeOK /\ Unborn /\ AliveExact /\ OwnerExact /\ HostExclusive /\ Twins
  BY KindsAssumption DEF Init, TypeOK, Unborn, AliveExact, OwnerExact, HostExclusive, Twins, Objects
<1>2. RefcountExact
  <2>1. \A h \in Handles : Holders(h) = {}
    BY DEF Init, Holders
  <2> QED
    BY <2>1, FS_EmptySet DEF Init, RefcountExact
<1>3. Keeps({})
  BY DEF Init, Keeps
<1> QED
  BY <1>1, <1>2, <1>3 DEF IInv, Kept

\* Operations that leave what every object holds, and the count, alone keep
\* the native half of the invariant.
LEMMA NativeUnchanged ==
    ASSUME IInv, TypeOK', UNCHANGED <<hold, rc, nowner, alive>>, Unborn'
    PROVE  RefcountExact' /\ AliveExact' /\ OwnerExact'
<1>1. ASSUME NEW h \in Handles PROVE Holders(h)' = Holders(h)
  <2>1. h # Nil
    BY KindsAssumption
  <2> QED
    BY <2>1 DEF Holders, IInv, Unborn, TypeOK
<1>2. RefcountExact'
  BY <1>1 DEF IInv, RefcountExact
<1> QED
  BY <1>2 DEF IInv, AliveExact, OwnerExact

\* Repository.new
LEMMA RepoNewIInv == ASSUME IInv, NEW r \in Repos, RepoNew(r) PROVE IInv'
<1> USE DEF RepoNew, native
<1>1. TypeOK'
  BY DEF IInv, TypeOK, Objects
<1>2. Unborn'
  BY DEF IInv, Unborn
<1>3. RefcountExact' /\ AliveExact' /\ OwnerExact'
  BY <1>1, <1>2, NativeUnchanged
<1>4. HostExclusive' /\ Twins'
  BY DEF IInv, HostExclusive, Twins
<1>5. Kept'
  <2>1. PICK S \in SUBSET Objects : Keeps(S)
    BY DEF IInv, Kept
  <2>2. hold[r] = Nil
    BY DEF IInv, Unborn, Objects
  <2>3. Agrees(r)'
    BY <2>2 DEF Agrees, IInv, TypeOK
  <2>4. \A q \in S \cap Repos : Agrees(q)'
    BY <2>1 DEF Keeps, Agrees, IInv, TypeOK
  <2>5. \A x \in S \cup {r} : Points(x)' \subseteq S \cup {r}
    BY <2>1 DEF Keeps, Points, IInv, TypeOK
  <2>6. Keeps(S \cup {r})'
    BY <2>1, <2>3, <2>4, <2>5 DEF Keeps
  <2> QED
    BY <2>6 DEF Kept, Objects
<1> QED
  BY <1>1, <1>2, <1>3, <1>4, <1>5 DEF IInv

\* The program drops an object.
LEMMA ForgetIInv == ASSUME IInv, NEW z \in Objects, Forget(z) PROVE IInv'
<1> USE DEF Forget, native
<1>1. TypeOK' /\ Unborn'
  BY DEF IInv, TypeOK, Unborn
<1>2. RefcountExact' /\ AliveExact' /\ OwnerExact'
  BY <1>1, NativeUnchanged
<1>3. HostExclusive' /\ Twins'
  BY DEF IInv, HostExclusive, Twins
<1>4. Kept'
  <2>1. PICK S \in SUBSET Objects : Keeps(S)
    BY DEF IInv, Kept
  <2>2. Keeps(S)'
    BY <2>1 DEF Keeps, Agrees, Points
  <2> QED
    BY <2>2 DEF Kept
<1> QED
  BY <1>1, <1>2, <1>3, <1>4 DEF IInv

\* repo.index, the second time
LEMMA GetIndexCachedIInv == ASSUME IInv, NEW r \in Repos, GetIndexCached(r) PROVE IInv'
<1> USE DEF GetIndexCached, native
<1>1. TypeOK' /\ Unborn'
  BY DEF IInv, TypeOK, Unborn, Objects
<1>2. RefcountExact' /\ AliveExact' /\ OwnerExact'
  BY <1>1, NativeUnchanged
<1>3. HostExclusive' /\ Twins'
  BY DEF IInv, HostExclusive, Twins
<1>4. Kept'
  <2>1. PICK S \in SUBSET Objects : Keeps(S)
    BY DEF IInv, Kept
  <2>2. ivar[r] \in S
    BY <2>1 DEF Keeps, Points
  <2>3. Keeps(S)'
    BY <2>1, <2>2 DEF Keeps, Agrees, Points
  <2> QED
    BY <2>3 DEF Kept
<1> QED
  BY <1>1, <1>2, <1>3, <1>4 DEF IInv

\* Rebase.new
LEMMA RebaseNewIInv ==
    ASSUME IInv, NEW k \in Rebases, NEW r \in Repos, RebaseNew(k, r) PROVE IInv'
<1> USE DEF RebaseNew, native
<1>0. hold[k] = Nil /\ k \notin Repos \cup Indexes /\ k # Nil /\ r # Nil
  BY KindsAssumption DEF IInv, Unborn, Objects
<1>1. TypeOK' /\ Unborn'
  BY DEF IInv, TypeOK, Unborn, Objects
<1>2. RefcountExact' /\ AliveExact' /\ OwnerExact'
  BY <1>1, NativeUnchanged
<1>3. HostExclusive' /\ Twins'
  BY <1>0 DEF IInv, HostExclusive, Twins, TypeOK
<1>4. Kept'
  <2>1. PICK S \in SUBSET Objects : Keeps(S)
    BY DEF IInv, Kept
  <2>2. \A q \in S \cap Repos : Agrees(q)'
    BY <1>0, <2>1 DEF Keeps, Agrees, IInv, TypeOK
  <2>3. \A x \in S \cup {k} : Points(x)' \subseteq S \cup {k}
    BY <1>0, <2>1 DEF Keeps, Points, IInv, TypeOK, Objects
  <2>4. Keeps(S \cup {k})'
    BY <1>0, <2>1, <2>2, <2>3 DEF Keeps
  <2> QED
    BY <2>4 DEF Kept, Objects
<1> QED
  BY <1>1, <1>2, <1>3, <1>4 DEF IInv

\* A new native index h with one reference, taken by x, which held nothing.
\* The owner n of h in libgit2 is x, if x is a repository, and else nobody.
LEMMA IndexAllocKeeps ==
    ASSUME IInv, TypeOK', Unborn',
           NEW x \in Objects, NEW h \in Handles, NEW n \in Repos \cup {Nil},
           hold[x] = Nil, IndexAlloc(h, n), hold' = [hold EXCEPT ![x] = h],
           n = IF x \in Repos THEN x ELSE Nil
    PROVE  RefcountExact' /\ AliveExact' /\ OwnerExact'
<1>1. /\ rc[h] = 0
      /\ nowner[h] = Nil
      /\ \A y \in Objects : hold[y] # h
  BY Free DEF IndexAlloc
<1>2. RefcountExact'
  <2>1. \A g \in Handles : rc'[g] = rc[g] + (IF g = h THEN 1 ELSE 0)
                                          - (IF g = hold[x] THEN 1 ELSE 0)
    BY <1>1, KindsAssumption DEF IndexAlloc, IInv, TypeOK
  <2>2. h \in Handles \cup {Nil}
    OBVIOUS
  <2> QED
    BY <2>1, <2>2, Recount, Zenon
<1>3. AliveExact'
  BY <1>1 DEF IndexAlloc, IInv, AliveExact, TypeOK
<1>4. OwnerExact'
  <2> SUFFICES ASSUME NEW r \in Repos, NEW g \in Handles
               PROVE  nowner'[g] = r <=> hold'[r] = g
    BY DEF OwnerExact
  <2>1. nowner[g] = r <=> hold[r] = g
    BY DEF IInv, OwnerExact
  <2>2. CASE g = h
    BY <1>1, <2>2, KindsAssumption DEF IndexAlloc, IInv, TypeOK, Objects
  <2>3. CASE g # h
    BY <2>1, <2>3, KindsAssumption DEF IndexAlloc, IInv, TypeOK, Objects
  <2> QED
    BY <2>2, <2>3
<1> QED
  BY <1>2, <1>3, <1>4

\* rebase.next
LEMMA RebaseNextIInv ==
    ASSUME IInv, NEW k \in Rebases, NEW h \in Handles, RebaseNext(k, h) PROVE IInv'
<1> USE DEF RebaseNext, ruby
<1>0. /\ k \in Objects \ (Repos \cup Indexes)
      /\ \A x \in Objects : hold[x] # h
      /\ h # Nil
  BY Free, KindsAssumption DEF IndexAlloc, Objects
<1>1. TypeOK'
  BY <1>0 DEF IInv, TypeOK, IndexAlloc
<1>2. Unborn'
  <2>1. k \in live
    BY <1>0 DEF IInv, Kept, Keeps
  <2> QED
    BY <2>1 DEF IInv, Unborn, TypeOK
<1>3. RefcountExact' /\ AliveExact' /\ OwnerExact'
  BY <1>0, <1>1, <1>2, IndexAllocKeeps
<1>4. HostExclusive' /\ Twins'
  BY <1>0 DEF IInv, HostExclusive, Twins, TypeOK, Objects
<1>5. Kept'
  <2>1. PICK S \in SUBSET Objects : Keeps(S)
    BY DEF IInv, Kept
  <2>2. \A r \in S \cap Repos : Agrees(r)'
    BY <1>0, <2>1 DEF Keeps, Agrees, IInv, TypeOK, Objects
  <2>3. Keeps(S)'
    BY <2>1, <2>2 DEF Keeps, Points
  <2> QED
    BY <2>3 DEF Kept
<1> QED
  BY <1>1, <1>2, <1>3, <1>4, <1>5 DEF IInv

\* libgit2 opens the index of the repository for itself.
LEMMA OpenIndexIInv ==
    ASSUME IInv, NEW r \in Repos, NEW h \in Handles, OpenIndex(r, h) PROVE IInv'
<1> USE DEF OpenIndex, ruby
<1>0. /\ r \in Objects \ (Rebases \cup Indexes)
      /\ \A x \in Objects : hold[x] # h
      /\ h # Nil
  BY Free, KindsAssumption DEF IndexAlloc, Objects
<1>1. TypeOK'
  BY <1>0 DEF IInv, TypeOK, IndexAlloc
<1>2. Unborn'
  <2>1. r \in live
    BY <1>0 DEF IInv, Kept, Keeps
  <2> QED
    BY <2>1 DEF IInv, Unborn, TypeOK
<1>3. RefcountExact' /\ AliveExact' /\ OwnerExact'
  BY <1>0, <1>1, <1>2, IndexAllocKeeps
<1>4. HostExclusive' /\ Twins'
  BY <1>0 DEF IInv, HostExclusive, Twins, TypeOK, Objects
<1>5. Kept'
  <2>1. PICK S \in SUBSET Objects : Keeps(S)
    BY DEF IInv, Kept
  <2>2. \A q \in S \cap Repos : Agrees(q)'
    BY <1>0, <2>1 DEF Keeps, Agrees, IInv, TypeOK, Objects
  <2>3. Keeps(S)'
    BY <2>1, <2>2 DEF Keeps, Points
  <2> QED
    BY <2>3 DEF Kept
<1> QED
  BY <1>1, <1>2, <1>3, <1>4, <1>5 DEF IInv

\* Index.new
LEMMA IndexNewIInv ==
    ASSUME IInv, NEW i \in Indexes, NEW h \in Handles, IndexNew(i, h) PROVE IInv'
<1> USE DEF IndexNew, rugged_index_new
<1>0. /\ i \in Objects \ (Rebases \cup Repos)
      /\ hold[i] = Nil
      /\ \A x \in Objects : hold[x] # h
      /\ h # Nil
  BY Free, KindsAssumption DEF IndexAlloc, Objects, IInv, Unborn
<1>1. TypeOK'
  BY <1>0 DEF IInv, TypeOK, IndexAlloc
<1>2. Unborn'
  BY DEF IInv, Unborn, TypeOK
<1>3. RefcountExact' /\ AliveExact' /\ OwnerExact'
  BY <1>0, <1>1, <1>2, IndexAllocKeeps
<1>4. HostExclusive' /\ Twins'
  BY <1>0 DEF IInv, HostExclusive, Twins, TypeOK, Objects
<1>5. Kept'
  <2>1. PICK S \in SUBSET Objects : Keeps(S)
    BY DEF IInv, Kept
  <2>2. i \notin S
    BY <2>1 DEF Keeps
  <2>3. \A q \in S \cap Repos : Agrees(q)'
    BY <1>0, <2>1, <2>2 DEF Keeps, Agrees, Points, IInv, TypeOK, Objects
  <2>4. \A x \in S \cup {i} : Points(x)' \subseteq S \cup {i}
    BY <1>0, <2>1, <2>2 DEF Keeps, Points, IInv, TypeOK, Objects
  <2>5. Keeps(S \cup {i})'
    BY <1>0, <2>1, <2>3, <2>4 DEF Keeps
  <2> QED
    BY <1>0, <2>5 DEF Kept
<1> QED
  BY <1>1, <1>2, <1>3, <1>4, <1>5 DEF IInv

\* merge_commits and what else makes an index in memory
LEMMA MergeCommitsIInv ==
    ASSUME IInv, NEW r \in Repos, NEW i \in Indexes, NEW h \in Handles, MergeCommits(r, i, h)
    PROVE  IInv'
<1> USE DEF MergeCommits, rugged_index_new
<1>0. /\ i \in Objects \ (Rebases \cup Repos)
      /\ hold[i] = Nil
      /\ \A x \in Objects : hold[x] # h
      /\ h # Nil
      /\ r # Nil
  BY Free, KindsAssumption DEF IndexAlloc, Objects, IInv, Unborn
<1>1. TypeOK'
  BY <1>0 DEF IInv, TypeOK, IndexAlloc
<1>2. Unborn'
  BY DEF IInv, Unborn, TypeOK
<1>3. RefcountExact' /\ AliveExact' /\ OwnerExact'
  BY <1>0, <1>1, <1>2, IndexAllocKeeps
<1>4. HostExclusive' /\ Twins'
  BY <1>0 DEF IInv, HostExclusive, Twins, TypeOK, Objects
<1>5. Kept'
  <2>1. PICK S \in SUBSET Objects : Keeps(S)
    BY DEF IInv, Kept
  <2>2. i \notin S /\ r \in S
    BY <2>1 DEF Keeps
  <2>3. \A q \in S \cap Repos : Agrees(q)'
    BY <1>0, <2>1, <2>2 DEF Keeps, Agrees, Points, IInv, TypeOK, Objects
  <2>4. \A x \in S \cup {i} : Points(x)' \subseteq S \cup {i}
    BY <1>0, <2>1, <2>2 DEF Keeps, Points, IInv, TypeOK, Objects
  <2>5. Keeps(S \cup {i})'
    BY <1>0, <2>1, <2>3, <2>4 DEF Keeps
  <2> QED
    BY <1>0, <2>5 DEF Kept
<1> QED
  BY <1>1, <1>2, <1>3, <1>4, <1>5 DEF IInv

\* A second wrapper i for the native index of a repository or rebase n.
LEMMA InmemoryIndexIInv ==
    ASSUME IInv, NEW k \in Rebases, NEW i \in Indexes, InmemoryIndex(k, i) PROVE IInv'
<1> USE DEF InmemoryIndex, rugged_index_new
<1> DEFINE h == hold[k]
<1>0. /\ i \in Objects \ (Rebases \cup Repos)
      /\ k \in Objects \ (Indexes \cup Repos)
      /\ hold[i] = Nil
      /\ h \in Handles /\ rc[h] > 0 /\ h \in alive /\ h # Nil
  BY Held, KindsAssumption DEF Objects, IInv, Unborn
<1>1. TypeOK'
  BY <1>0 DEF IInv, TypeOK
<1>2. Unborn'
  BY DEF IInv, Unborn, TypeOK
<1>3. RefcountExact'
  <2>1. \A g \in Handles : rc'[g] = rc[g] + (IF g = h THEN 1 ELSE 0)
                                          - (IF g = hold[i] THEN 1 ELSE 0)
    BY <1>0, KindsAssumption DEF IInv, TypeOK
  <2>2. h \in Handles \cup {Nil} /\ hold' = [hold EXCEPT ![i] = h]
    BY <1>0
  <2> HIDE DEF h
  <2> QED
    BY <1>0, <1>1, <1>2, <2>1, <2>2, Recount, Zenon
<1>4. AliveExact'
  BY <1>0 DEF IInv, AliveExact, TypeOK
<1>5. OwnerExact'
  BY <1>0 DEF IInv, OwnerExact, TypeOK
<1>6. HostExclusive'
  BY <1>0 DEF IInv, HostExclusive, TypeOK, Objects
<1>7. Twins'
  <2>1. \A j \in Indexes \ {i} : hold[j] = h => owner[j] = k
    BY <1>0 DEF IInv, HostExclusive, Objects
  <2> QED
    BY <1>0, <2>1 DEF IInv, Twins, TypeOK, Objects
<1>8. Kept'
  <2>1. PICK S \in SUBSET Objects : Keeps(S)
    BY DEF IInv, Kept
  <2>2. i \notin S /\ k \in S
    BY <2>1 DEF Keeps
  <2>3. \A q \in Repos : hold[q] # h
    BY <1>0 DEF IInv, HostExclusive, Objects
  <2>4. \A q \in S \cap Repos : Agrees(q)'
    BY <1>0, <2>1, <2>2, <2>3 DEF Keeps, Agrees, Points, IInv, TypeOK, Objects
  <2>5. \A x \in S \cup {i} : Points(x)' \subseteq S \cup {i}
    BY <1>0, <2>1, <2>2 DEF Keeps, Points, IInv, TypeOK, Objects
  <2>6. Keeps(S \cup {i})'
    BY <1>0, <2>1, <2>4, <2>5 DEF Keeps
  <2> QED
    BY <1>0, <2>6 DEF Kept
<1> QED
  BY <1>1, <1>2, <1>3, <1>4, <1>5, <1>6, <1>7, <1>8 DEF IInv

\* repo.index, when libgit2 has the index open
LEMMA GetIndexOpenIInv ==
    ASSUME IInv, NEW r \in Repos, NEW i \in Indexes, GetIndexOpen(r, i) PROVE IInv'
<1> USE DEF GetIndexOpen, rugged_index_new
<1> DEFINE h == hold[r]
<1>0. /\ i \in Objects \ (Rebases \cup Repos)
      /\ r \in Objects \ (Indexes \cup Rebases)
      /\ hold[i] = Nil
      /\ h \in Handles /\ rc[h] > 0 /\ h \in alive /\ h # Nil
      /\ r # Nil /\ i # Nil
  BY Held, KindsAssumption DEF Objects, IInv, Unborn
<1>1. TypeOK'
  BY <1>0 DEF IInv, TypeOK
<1>2. Unborn'
  BY DEF IInv, Unborn, TypeOK
<1>3. RefcountExact'
  <2>1. \A g \in Handles : rc'[g] = rc[g] + (IF g = h THEN 1 ELSE 0)
                                          - (IF g = hold[i] THEN 1 ELSE 0)
    BY <1>0, KindsAssumption DEF IInv, TypeOK
  <2>2. h \in Handles \cup {Nil} /\ hold' = [hold EXCEPT ![i] = h]
    BY <1>0
  <2> HIDE DEF h
  <2> QED
    BY <1>0, <1>1, <1>2, <2>1, <2>2, Recount, Zenon
<1>4. AliveExact'
  BY <1>0 DEF IInv, AliveExact, TypeOK
<1>5. OwnerExact'
  BY <1>0 DEF IInv, OwnerExact, TypeOK
<1>6. HostExclusive'
  BY <1>0 DEF IInv, HostExclusive, TypeOK, Objects
<1>a. PICK S \in SUBSET Objects : Keeps(S)
  BY DEF IInv, Kept
<1>b. i \notin S /\ r \in S
  BY <1>a DEF Keeps
\* As "@index" is nil, nothing else holds the index of r yet.
<1>c. \A x \in Objects \ {r} : hold[x] # h
  BY <1>0, <1>a, <1>b, KindsAssumption DEF Keeps, Agrees, Objects
<1>7. Twins'
  BY <1>0, <1>c DEF IInv, Twins, TypeOK, Objects
<1>8. Kept'
  <2>1. Agrees(r)'
    BY <1>0, <1>c DEF Agrees, IInv, TypeOK, Objects
  <2>2. \A q \in S \cap Repos : Agrees(q)'
    BY <1>0, <1>a, <1>b, <1>c, <2>1 DEF Keeps, Agrees, Points, IInv, TypeOK, Objects
  <2>3. \A x \in S \cup {i} : Points(x)' \subseteq S \cup {i}
    BY <1>0, <1>a, <1>b DEF Keeps, Points, IInv, TypeOK, Objects
  <2>4. Keeps(S \cup {i})'
    BY <1>0, <1>a, <2>2, <2>3 DEF Keeps
  <2> QED
    BY <1>0, <2>4 DEF Kept
<1> QED
  BY <1>1, <1>2, <1>3, <1>4, <1>5, <1>6, <1>7, <1>8 DEF IInv

\* repo.index, when libgit2 has to open it
LEMMA GetIndexLoadIInv ==
    ASSUME IInv, NEW r \in Repos, NEW i \in Indexes, NEW h \in Handles, GetIndexLoad(r, i, h)
    PROVE  IInv'
<1> USE DEF GetIndexLoad, rugged_index_new
<1>0. /\ i \in Objects \ (Rebases \cup Repos)
      /\ r \in Objects \ (Indexes \cup Rebases)
      /\ hold[i] = Nil
      /\ \A x \in Objects : hold[x] # h
      /\ rc[h] = 0 /\ nowner[h] = Nil
      /\ h # Nil /\ r # Nil /\ i # Nil
  BY Free, KindsAssumption DEF Objects, IInv, Unborn
<1>1. TypeOK'
  BY <1>0 DEF IInv, TypeOK
<1>2. Unborn'
  <2>1. r \in live
    BY <1>0 DEF IInv, Kept, Keeps
  <2> QED
    BY <2>1 DEF IInv, Unborn, TypeOK
<1>3. RefcountExact'
  <2> SUFFICES ASSUME NEW g \in Handles PROVE rc'[g] = Cardinality(Holders(g))'
    BY DEF RefcountExact
  <2>1. CASE g = h
    <3>1. r \in live
      BY <1>0 DEF IInv, Kept, Keeps
    <3>2. Holders(g)' = {r} \cup {i}
      BY <1>0, <2>1, <3>1 DEF Holders, IInv, TypeOK, Unborn
    <3>3. IsFiniteSet({r}) /\ Cardinality({r}) = 1
      BY FS_Singleton
    <3>4. i \notin {r}
      BY <1>0
    <3>5. Cardinality({r} \cup {i}) = Cardinality({r}) + 1
      BY <3>3, <3>4, FS_AddElement
    <3>6. Cardinality({r} \cup {i}) = 2
      BY <3>3, <3>5
    <3>7. rc'[g] = 2
      BY <2>1 DEF IInv, TypeOK
    <3> QED
      BY <3>2, <3>6, <3>7
  <2>2. CASE g # h
    <3>1. Holders(g)' = Holders(g)
      BY <1>0, <2>2, KindsAssumption DEF Holders, IInv, TypeOK, Unborn
    <3> QED
      BY <2>2, <3>1 DEF IInv, TypeOK, RefcountExact
  <2> QED
    BY <2>1, <2>2
<1>4. AliveExact'
  BY <1>0 DEF IInv, AliveExact, TypeOK
<1>5. OwnerExact'
  <2> SUFFICES ASSUME NEW q \in Repos, NEW g \in Handles
               PROVE  nowner'[g] = q <=> hold'[q] = g
    BY DEF OwnerExact
  <2>1. nowner[g] = q <=> hold[q] = g
    BY DEF IInv, OwnerExact
  <2>2. CASE g = h
    BY <1>0, <2>2, KindsAssumption DEF IInv, TypeOK, Objects
  <2>3. CASE g # h
    BY <1>0, <2>1, <2>3, KindsAssumption DEF IInv, TypeOK, Objects
  <2> QED
    BY <2>2, <2>3
<1>6. HostExclusive' /\ Twins'
  BY <1>0 DEF IInv, HostExclusive, Twins, TypeOK, Objects
<1>7. Kept'
  <2>a. PICK S \in SUBSET Objects : Keeps(S)
    BY DEF IInv, Kept
  <2>b. i \notin S /\ r \in S
    BY <2>a DEF Keeps
  <2>1. Agrees(r)'
    BY <1>0 DEF Agrees, IInv, TypeOK, Objects
  <2>2. \A q \in S \cap Repos : Agrees(q)'
    BY <1>0, <2>a, <2>b, <2>1 DEF Keeps, Agrees, Points, IInv, TypeOK, Objects
  <2>3. \A x \in S \cup {i} : Points(x)' \subseteq S \cup {i}
    BY <1>0, <2>a, <2>b DEF Keeps, Points, IInv, TypeOK, Objects
  <2>4. Keeps(S \cup {i})'
    BY <1>0, <2>a, <2>2, <2>3 DEF Keeps
  <2> QED
    BY <1>0, <2>4 DEF Kept
<1> QED
  BY <1>1, <1>2, <1>3, <1>4, <1>5, <1>6, <1>7 DEF IInv

-----------------------------------------------------------------------------
(* git_repository_set_index and git_index_free.                             *)

\* git_repository_set_index(r, b), for an index b that no repository uses,
\* keeps the native half of the invariant.
LEMMA RepoSetIndexTypes ==
    ASSUME IInv, NEW r \in Repos, NEW b \in Handles \cup {Nil},
           b = Nil \/ (b # hold[r] /\ b \in alive),
           RepoSetIndex(r, b)
    PROVE  /\ rc' \in [Handles -> Nat]
           /\ nowner' \in [Handles -> Repos \cup {Nil}]
           /\ alive' \subseteq Handles
           /\ AliveExact'
<1>1. r \in Objects
  BY DEF Objects
<1>2. hold[r] # Nil => rc[hold[r]] > 0
  BY <1>1, Held
<1>3. rc' \in [Handles -> Nat]
  BY <1>2, KindsAssumption DEF RepoSetIndex, IInv, TypeOK
<1>4. AliveExact'
  <2> SUFFICES ASSUME NEW g \in Handles PROVE g \in alive' <=> rc'[g] > 0
    BY DEF AliveExact
  <2>1. g \in alive <=> rc[g] > 0
    BY DEF IInv, AliveExact
  <2>2. CASE g = hold[r]
    BY <1>2, <2>1, <2>2, KindsAssumption DEF RepoSetIndex, IInv, TypeOK
  <2>3. CASE g # hold[r] /\ g = b
    BY <2>1, <2>3, KindsAssumption DEF RepoSetIndex, IInv, TypeOK
  <2>4. CASE g # hold[r] /\ g # b
    BY <2>1, <2>4 DEF RepoSetIndex, IInv, TypeOK
  <2> QED
    BY <2>2, <2>3, <2>4
<1> QED
  BY <1>3, <1>4 DEF RepoSetIndex, IInv, TypeOK

\* git_repository_set_index moves one reference from the old index to the new.
LEMMA RepoSetIndexKeeps ==
    ASSUME IInv, TypeOK', Unborn',
           NEW r \in Repos, NEW b \in Handles \cup {Nil},
           b # Nil => \A q \in Repos : hold[q] # b,
           RepoSetIndex(r, b), hold' = [hold EXCEPT ![r] = b]
    PROVE  RefcountExact' /\ OwnerExact'
<1>1. RefcountExact'
  <2>1. \A g \in Handles : rc'[g] = rc[g] + (IF g = b THEN 1 ELSE 0)
                                          - (IF g = hold[r] THEN 1 ELSE 0)
    BY DEF RepoSetIndex
  <2>2. r \in Objects
    BY DEF Objects
  <2> QED
    BY <2>1, <2>2, Recount, Zenon
<1>2. OwnerExact'
  <2> SUFFICES ASSUME NEW q \in Repos, NEW g \in Handles
               PROVE  nowner'[g] = q <=> hold'[q] = g
    BY DEF OwnerExact
  <2>1. nowner[g] = q <=> hold[q] = g
    BY DEF IInv, OwnerExact
  <2>2. nowner[g] = r <=> hold[r] = g
    BY DEF IInv, OwnerExact
  <2>3. nowner'[g] = IF g = hold[r] THEN Nil ELSE IF g = b THEN r ELSE nowner[g]
    BY DEF RepoSetIndex
  <2>4. hold'[q] = IF q = r THEN b ELSE hold[q]
    BY DEF IInv, TypeOK, Objects
  <2> QED
    BY <2>1, <2>2, <2>3, <2>4, KindsAssumption DEF Objects
<1> QED
  BY <1>1, <1>2

\* repo.close
LEMMA CloseIInv == ASSUME IInv, NEW r \in Repos, Close(r) PROVE IInv'
<1> USE DEF Close, ruby
<1>0. r \in Objects /\ r \notin Indexes
  BY KindsAssumption DEF Objects
<1>1. TypeOK' /\ AliveExact'
  <2>1. /\ rc' \in [Handles -> Nat]
        /\ nowner' \in [Handles -> Repos \cup {Nil}]
        /\ alive' \subseteq Handles
        /\ AliveExact'
    BY RepoSetIndexTypes
  <2> QED
    BY <1>0, <2>1 DEF IInv, TypeOK
<1>2. Unborn'
  BY <1>0 DEF IInv, Unborn, TypeOK
<1>3. RefcountExact' /\ OwnerExact'
  BY <1>1, <1>2, RepoSetIndexKeeps
<1>4. HostExclusive' /\ Twins'
  BY <1>0 DEF IInv, HostExclusive, Twins, TypeOK, Objects
<1>5. Kept'
  <2>1. PICK S \in SUBSET Objects : Keeps(S)
    BY DEF IInv, Kept
  <2>2. \A q \in S \cap Repos : Agrees(q)'
    BY <1>0, <2>1 DEF Keeps, Agrees, IInv, TypeOK, Objects
  <2>3. Keeps(S)'
    BY <2>1, <2>2 DEF Keeps, Points
  <2> QED
    BY <2>3 DEF Kept
<1> QED
  BY <1>1, <1>2, <1>3, <1>4, <1>5 DEF IInv

\* Sweeping x shrinks the set that is kept: what the collector marked without
\* x, of what was kept before.
LEMMA SweepKept ==
    ASSUME IInv, NEW x \in Objects, NEW M \in Marked, x \notin M,
           live' = live \ {x}, roots' = roots,
           hold' = [hold EXCEPT ![x] = Nil],
           \A y \in Repos \ {x} : ivar'[y] = ivar[y],
           \A y \in (Rebases \cup Indexes) \ {x} : owner'[y] = owner[y]
    PROVE  Kept'
<1>1. PICK S \in SUBSET Objects : Keeps(S)
  BY DEF IInv, Kept
<1> DEFINE T == S \cap M
<1>2. T \subseteq live' /\ roots' \subseteq T /\ T \in SUBSET Objects
  BY <1>1 DEF Keeps, Marked
<1>3. \A y \in T : y # x /\ Points(y)' = Points(y)
  BY <1>1 DEF Points, Objects
<1>4. \A y \in T : Points(y)' \subseteq T
  BY <1>1, <1>3 DEF Keeps, Marked
<1>5. ASSUME NEW q \in T \cap Repos PROVE Agrees(q)'
  <2>1. Agrees(q) /\ q # x /\ ivar'[q] = ivar[q] /\ q \in Objects
    BY <1>1, <1>3, <1>5 DEF Keeps
  <2>2. ivar[q] # Nil => ivar[q] \in T
    BY <1>4, <2>1, <1>3, <1>5 DEF Points
  <2>3. ivar'[q] # Nil => owner'[ivar'[q]] = q
    BY <1>3, <2>1, <2>2 DEF Agrees, IInv, TypeOK
  <2>4. \A y \in Objects \ {q} : hold'[y] = hold'[q] /\ hold'[q] # Nil => y = ivar'[q]
    BY <2>1 DEF Agrees, IInv, TypeOK
  <2> QED
    BY <2>3, <2>4 DEF Agrees
<1>6. Keeps(T)'
  BY <1>2, <1>4, <1>5 DEF Keeps
<1> QED
  BY <1>2, <1>6 DEF Kept

\* The collector frees a repository,
LEMMA SweepRepoIInv == ASSUME IInv, NEW r \in Repos, SweepRepo(r) PROVE IInv'
<1> USE DEF SweepRepo
<1>0. r \in Objects /\ r \notin Indexes /\ r \notin Rebases
  BY KindsAssumption DEF Objects
<1>1. TypeOK' /\ AliveExact'
  <2>1. /\ rc' \in [Handles -> Nat]
        /\ nowner' \in [Handles -> Repos \cup {Nil}]
        /\ alive' \subseteq Handles
        /\ AliveExact'
    BY RepoSetIndexTypes
  <2> QED
    BY <1>0, <2>1 DEF IInv, TypeOK
<1>2. Unborn'
  BY <1>0 DEF IInv, Unborn, TypeOK
<1>3. RefcountExact' /\ OwnerExact'
  BY <1>1, <1>2, RepoSetIndexKeeps
<1>4. HostExclusive' /\ Twins'
  BY <1>0 DEF IInv, HostExclusive, Twins, TypeOK, Objects
<1>5. Kept'
  <2>1. PICK M \in Marked : r \notin M
    OBVIOUS
  <2>2. \A y \in Repos \ {r} : ivar'[y] = ivar[y]
    BY DEF IInv, TypeOK
  <2> QED
    BY <1>0, <2>1, <2>2, SweepKept
<1> QED
  BY <1>1, <1>2, <1>3, <1>4, <1>5 DEF IInv

\* or an index, or a rebase.
LEMMA SweepWrapperIInv == ASSUME IInv, NEW z \in Objects, SweepWrapper(z) PROVE IInv'
<1> USE DEF SweepWrapper
<1>0. z \in Rebases \cup Indexes /\ z \notin Repos
  BY DEF Objects
<1>1. hold[z] # Nil => rc[hold[z]] > 0
  BY Held
<1>2. TypeOK'
  BY <1>0, <1>1, KindsAssumption DEF IInv, TypeOK, IndexFree
<1>3. Unborn'
  BY DEF IInv, Unborn, TypeOK
<1>4. RefcountExact'
  <2>1. \A g \in Handles : rc'[g] = rc[g] + (IF g = Nil THEN 1 ELSE 0)
                                          - (IF g = hold[z] THEN 1 ELSE 0)
    BY KindsAssumption DEF IndexFree, IInv, TypeOK
  <2>2. Nil \in Handles \cup {Nil}
    OBVIOUS
  <2> QED
    BY <1>2, <1>3, <2>1, <2>2, Recount, Zenon
\* A native index that a repository uses has the repository's reference left.
<1>5. AliveExact'
  <2> SUFFICES ASSUME NEW g \in Handles PROVE g \in alive' <=> rc'[g] > 0
    BY DEF AliveExact
  <2>1. g \in alive <=> rc[g] > 0
    BY DEF IInv, AliveExact
  <2>2. CASE g = hold[z]
    <3>1. g \in alive
      BY <1>1, <2>1, <2>2, KindsAssumption
    <3>2. CASE nowner[g] = Nil
      BY <2>2, <3>1, <3>2 DEF IndexFree
    <3>3. CASE nowner[g] # Nil
      <4>1. PICK q \in Repos : nowner[g] = q
        BY <3>3 DEF IInv, TypeOK
      <4>2. hold[q] = g /\ q \in Objects /\ q # z
        BY <1>0, <4>1 DEF IInv, OwnerExact, Objects
      <4>3. hold'[q] # Nil /\ q \in live' /\ hold'[q] = g
        BY <4>2, <2>2, KindsAssumption DEF IInv, TypeOK, Unborn
      <4>4. q \in Holders(g)'
        BY <4>3 DEF Holders
      <4>5. IsFiniteSet(Holders(g)') /\ Cardinality(Holders(g)') \in Nat
        <5>1. IsFiniteSet(Holders(g))
          BY HoldersAre DEF IInv
        <5>2. Holders(g)' \subseteq Holders(g)
          BY KindsAssumption DEF Holders, IInv, TypeOK
        <5> QED
          BY <5>1, <5>2, FS_Subset, FS_CardinalityType
      <4>6. Cardinality(Holders(g)') # 0
        BY <4>4, <4>5, FS_EmptySet
      <4>7. rc'[g] = Cardinality(Holders(g)')
        BY <1>4 DEF RefcountExact
      <4> QED
        BY <3>1, <3>3, <4>5, <4>6, <4>7 DEF IndexFree
    <3> QED
      BY <3>2, <3>3
  <2>3. CASE g # hold[z]
    BY <2>1, <2>3 DEF IndexFree
  <2> QED
    BY <2>2, <2>3
<1>6. OwnerExact'
  BY <1>0 DEF IndexFree, IInv, OwnerExact, TypeOK
<1>7. HostExclusive' /\ Twins'
  BY <1>0 DEF IInv, HostExclusive, Twins, TypeOK, Objects
<1>8. Kept'
  <2>1. PICK M \in Marked : z \notin M
    OBVIOUS
  <2>2. \A y \in (Rebases \cup Indexes) \ {z} : owner'[y] = owner[y]
    BY DEF IInv, TypeOK
  <2> QED
    BY <2>1, <2>2, SweepKept
<1> QED
  BY <1>2, <1>3, <1>4, <1>5, <1>6, <1>7, <1>8 DEF IInv

\* "repo.index = idx": idx has no owner, so nothing else holds its native
\* index; the wrapper that loses its owner is not used by another repository.
LEMMA SetIndexIInv ==
    ASSUME IInv, NEW r \in Repos, NEW i \in Indexes, SetIndex(r, i) PROVE IInv'
<1> USE DEF SetIndex
<1> DEFINE h == hold[i]
           w == ivar[r]
<1>a. PICK S \in SUBSET Objects : Keeps(S)
  BY DEF IInv, Kept
<1>b. r \in S /\ i \in S /\ Agrees(r)
  BY <1>a DEF Keeps
<1>c. /\ r \in Objects \ (Indexes \cup Rebases)
      /\ i \in Objects \ (Repos \cup Rebases)
      /\ i # Nil /\ r # Nil /\ h \in Handles \cup {Nil}
      /\ r \in live /\ i \in live
  BY <1>a, <1>b, KindsAssumption DEF Objects, IInv, TypeOK, Keeps
<1>d. h # Nil => \A n \in Repos \cup Rebases : hold[n] # h
  BY <1>c, KindsAssumption DEF IInv, HostExclusive, Objects
<1>e. h # Nil => \A x \in Objects \ {i} : hold[x] # h
  BY <1>c, <1>d, KindsAssumption DEF IInv, Twins, Objects
<1>f. w # Nil => owner[w] = r /\ w \in Indexes /\ w # i
  BY <1>b, <1>c DEF Agrees, IInv, TypeOK
<1>g. w # Nil /\ hold[w] # Nil =>
          \A x \in Objects \ {w, r} : hold[x] # hold[w]
  BY <1>c, <1>f, KindsAssumption DEF IInv, Twins, HostExclusive, Objects
<1>h. h # Nil => h \in alive
  BY <1>c, Held
<1>1. TypeOK' /\ AliveExact'
  <2>1. h = Nil \/ (h # hold[r] /\ h \in alive)
    BY <1>d, <1>h
  <2>2. /\ rc' \in [Handles -> Nat]
        /\ nowner' \in [Handles -> Repos \cup {Nil}]
        /\ alive' \subseteq Handles
        /\ AliveExact'
    BY <1>c, <2>1, RepoSetIndexTypes
  <2>3. hold' \in [Objects -> Handles \cup {Nil}] /\ ivar' \in [Repos -> Indexes \cup {Nil}]
    BY <1>c DEF IInv, TypeOK
  <2>4. owner' \in [Rebases \cup Indexes -> Repos \cup Rebases \cup {Nil}]
    BY DEF IInv, TypeOK
  <2> QED
    BY <2>2, <2>3, <2>4 DEF IInv, TypeOK
<1>2. Unborn'
  BY <1>c DEF IInv, Unborn, TypeOK
<1>3. RefcountExact' /\ OwnerExact'
  <2>1. h # Nil => \A q \in Repos : hold[q] # h
    BY <1>d
  <2> QED
    BY <1>1, <1>2, <1>c, <2>1, RepoSetIndexKeeps
<1>4. HostExclusive'
  <2> SUFFICES ASSUME NEW n \in Repos \cup Rebases, NEW x \in Objects \ {n},
                      hold'[x] = hold'[n], hold'[n] # Nil
               PROVE  x \in Indexes /\ owner'[x] = n
    BY DEF HostExclusive
  <2>0. hold' = [hold EXCEPT ![r] = h] /\ hold \in [Objects -> Handles \cup {Nil}]
    BY DEF IInv, TypeOK
  <2>1. CASE n = r
    <3>1. hold'[n] = h /\ x # r /\ hold[x] = h
      BY <1>c, <2>0, <2>1
    <3>2. x = i
      BY <1>e, <3>1
    <3> QED
      BY <1>c, <2>1, <3>2
  <2>2. CASE n # r
    <3>1. hold'[n] = hold[n] /\ n \in Objects
      BY <1>c, <2>0, <2>2 DEF Objects
    <3>2. x # r
      BY <1>c, <1>d, <2>0, <2>2, <3>1
    <3>3. hold[x] = hold[n] /\ hold[n] # Nil
      BY <1>c, <2>0, <3>1, <3>2
    <3>4. x \in Indexes /\ owner[x] = n
      BY <3>3 DEF IInv, HostExclusive
    <3>5. n # Nil
      BY <3>1, KindsAssumption
    <3>6. x # i /\ x # w
      BY <1>f, <1>c, <2>2, <3>4, <3>5, KindsAssumption
    <3> QED
      BY <3>4, <3>6
  <2> QED
    BY <2>1, <2>2
<1>5. Twins'
  <2>1. ASSUME NEW x \in Indexes, NEW j \in Indexes \ {x},
               hold[x] = hold[j], hold[x] # Nil
        PROVE  x # i /\ x # w
    BY <1>c, <1>e, <1>f, <1>g, <2>1, KindsAssumption DEF Objects
  <2>2. \A x \in Indexes : hold'[x] = hold[x]
    BY <1>c DEF IInv, TypeOK, Objects
  <2> QED
    BY <2>1, <2>2 DEF IInv, Twins
<1>6. Kept'
  <2>1. Agrees(r)'
    BY <1>c, <1>e DEF Agrees, IInv, TypeOK, Objects
  <2>2. ASSUME NEW q \in S \cap Repos, q # r PROVE Agrees(q)'
    <3>1. Agrees(q) /\ ivar'[q] = ivar[q] /\ hold'[q] = hold[q] /\ q \in Objects
      BY <1>a, <1>c, <2>2 DEF Keeps, IInv, TypeOK, Objects
    <3>2. ivar[q] # Nil => ivar[q] \in Indexes /\ ivar[q] # i /\ ivar[q] # w
      BY <1>c, <1>f, <2>2, <3>1, KindsAssumption DEF Agrees, IInv, TypeOK
    <3>3. ivar'[q] # Nil => owner'[ivar'[q]] = q
      BY <3>1, <3>2 DEF Agrees
    <3>4. \A x \in Objects \ {q} : hold'[x] = hold'[q] /\ hold'[q] # Nil => x = ivar'[q]
      <4> SUFFICES ASSUME NEW x \in Objects \ {q}, hold'[x] = hold'[q], hold'[q] # Nil
                   PROVE  x = ivar'[q]
        OBVIOUS
      <4>1. x # r
        BY <1>c, <1>d, <3>1 DEF IInv, TypeOK
      <4>2. hold[x] = hold[q]
        BY <1>c, <3>1, <4>1 DEF IInv, TypeOK
      <4> QED
        BY <3>1, <4>2 DEF Agrees
    <3> QED
      BY <3>3, <3>4 DEF Agrees
  <2>3. \A x \in S : Points(x)' \subseteq S
    BY <1>a, <1>b, <1>c DEF Keeps, Points, IInv, TypeOK, Objects
  <2>4. Keeps(S)'
    BY <1>a, <2>1, <2>2, <2>3 DEF Keeps
  <2> QED
    BY <2>4 DEF Kept
<1> QED
  BY <1>1, <1>2, <1>3, <1>4, <1>5, <1>6 DEF IInv

-----------------------------------------------------------------------------
(* The theorems.                                                            *)

\* Every step keeps the invariant.
LEMMA NextIInv == IInv /\ [Next]_vars => IInv'
<1> SUFFICES ASSUME IInv, [Next]_vars PROVE IInv'
  OBVIOUS
<1>1. CASE UNCHANGED vars
  <2>1. \A h \in Handles : Holders(h)' = Holders(h)
    BY <1>1 DEF vars, Holders
  <2>2. RefcountExact'
    BY <1>1, <2>1 DEF vars, IInv, RefcountExact
  <2>3. Kept'
    BY <1>1 DEF vars, IInv, Kept, Keeps, Agrees, Points
  <2> QED
    BY <1>1, <2>2, <2>3
    DEF vars, IInv, TypeOK, Unborn, AliveExact, OwnerExact, HostExclusive, Twins
<1>2. ASSUME NEW r \in Repos, RepoNew(r) PROVE IInv'
  BY <1>2, RepoNewIInv
<1>3. ASSUME NEW r \in Repos, GetIndexCached(r) PROVE IInv'
  BY <1>3, GetIndexCachedIInv
<1>4. ASSUME NEW r \in Repos, Close(r) PROVE IInv'
  BY <1>4, CloseIInv
<1>5. ASSUME NEW r \in Repos, SweepRepo(r) PROVE IInv'
  BY <1>5, SweepRepoIInv
<1>6. ASSUME NEW r \in Repos, NEW h \in Handles, OpenIndex(r, h) PROVE IInv'
  BY <1>6, OpenIndexIInv
<1>7. ASSUME NEW r \in Repos, NEW i \in Indexes, GetIndexOpen(r, i) PROVE IInv'
  BY <1>7, GetIndexOpenIInv
<1>8. ASSUME NEW r \in Repos, NEW i \in Indexes, SetIndex(r, i) PROVE IInv'
  BY <1>8, SetIndexIInv
<1>9. ASSUME NEW r \in Repos, NEW i \in Indexes, NEW h \in Handles, GetIndexLoad(r, i, h)
      PROVE  IInv'
  BY <1>9, GetIndexLoadIInv
<1>10. ASSUME NEW r \in Repos, NEW i \in Indexes, NEW h \in Handles, MergeCommits(r, i, h)
       PROVE  IInv'
  BY <1>10, MergeCommitsIInv
<1>11. ASSUME NEW i \in Indexes, NEW h \in Handles, IndexNew(i, h) PROVE IInv'
  BY <1>11, IndexNewIInv
<1>12. ASSUME NEW k \in Rebases, NEW r \in Repos, RebaseNew(k, r) PROVE IInv'
  BY <1>12, RebaseNewIInv
<1>13. ASSUME NEW k \in Rebases, NEW h \in Handles, RebaseNext(k, h) PROVE IInv'
  BY <1>13, RebaseNextIInv
<1>14. ASSUME NEW k \in Rebases, NEW i \in Indexes, InmemoryIndex(k, i) PROVE IInv'
  BY <1>14, InmemoryIndexIInv
<1>15. ASSUME NEW x \in Objects, Forget(x) PROVE IInv'
  BY <1>15, ForgetIInv
<1>16. ASSUME NEW x \in Objects, SweepWrapper(x) PROVE IInv'
  BY <1>16, SweepWrapperIInv
<1> QED
  BY <1>1, <1>2, <1>3, <1>4, <1>5, <1>6, <1>7, <1>8, <1>9, <1>10, <1>11, <1>12,
     <1>13, <1>14, <1>15, <1>16 DEF Next

\* The inductive invariant holds in every reachable state.
THEOREM Inductive == Spec => []IInv
  BY InitIInv, NextIInv, PTL DEF Spec

\* Whatever the program does and whenever the collector runs, libgit2's count
\* of a native index is the number of Ruby objects that refer to it.
THEOREM RefcountCorrect == Spec => []RefcountExact
<1>1. IInv => RefcountExact
  BY DEF IInv
<1> QED
  BY <1>1, Inductive, PTL

\* A live wrapper, swept early or late, never refers to a freed native index: no
\* use after free, and no second free.
THEOREM MemorySafe == Spec => []NoDangling
<1>1. IInv => NoDangling
  BY Held DEF NoDangling, IInv, TypeOK
<1> QED
  BY <1>1, Inductive, PTL

\* The last object that gives its reference back frees the native index.
THEOREM NothingLeaks == Spec => []NoLeak
<1>1. IInv => NoLeak
  <2> SUFFICES ASSUME IInv, NEW h \in alive PROVE Holders(h) # {}
    BY DEF NoLeak
  <2>1. h \in Handles /\ rc[h] > 0
    BY DEF IInv, TypeOK, AliveExact
  <2>2. Cardinality(Holders(h)) # 0
    BY <2>1 DEF IInv, RefcountExact
  <2> QED
    BY <2>2, FS_EmptySet
<1> QED
  BY <1>1, Inductive, PTL

\* libgit2's pointer from an index back to its repository is never stale.
THEOREM BackPointerCorrect == Spec => []BackPointer
<1>1. IInv => BackPointer
  <2> SUFFICES ASSUME IInv, NEW h \in alive, nowner[h] # Nil
               PROVE  nowner[h] \in live /\ hold[nowner[h]] = h
    BY DEF BackPointer
  <2>1. h \in Handles /\ nowner[h] \in Repos
    BY DEF IInv, TypeOK
  <2>2. hold[nowner[h]] = h
    BY <2>1 DEF IInv, OwnerExact
  <2>3. h # Nil
    BY <2>1, KindsAssumption
  <2> QED
    BY <2>1, <2>2, <2>3 DEF IInv, Unborn, Objects
<1> QED
  BY <1>1, Inductive, PTL

\* What can be reached is in the set that IInv says the collector may mark.
LEMMA ReachableKept ==
    ASSUME IInv
    PROVE  \E S \in SUBSET Objects : Keeps(S) /\ Reachable \subseteq S
<1>1. PICK S \in SUBSET Objects : Keeps(S)
  BY DEF IInv, Kept
<1>2. Reachable \subseteq S
  BY <1>1 DEF Keeps, Reachable, Marked
<1> QED
  BY <1>1, <1>2

\* The collector never frees an object that a method can still get at, and the
\* wrapper in "@index" always names its repository as owner.
THEOREM OwnershipCorrect == Spec => [](ReachableLive /\ OwnerAgrees)
<1>1. IInv => ReachableLive /\ OwnerAgrees
  BY ReachableKept DEF Keeps, Agrees, ReachableLive, OwnerAgrees
<1> QED
  BY <1>1, Inductive, PTL

\* A repository shares its native index with the wrapper in its "@index" only:
\* setting and getting indexes never makes two repositories work on the same one.
THEOREM ExclusiveCorrect == Spec => []IndexExclusive
<1>1. IInv => IndexExclusive
  BY ReachableKept DEF Keeps, Agrees, IndexExclusive, Objects, IInv, TypeOK
<1> QED
  BY <1>1, Inductive, PTL

-----------------------------------------------------------------------------
(* Which operation can make repo.index and libgit2's index two.             *)

\* A wrapper that exists has a native index.
Filled == \A i \in Indexes \cap live : hold[i] # Nil

\* A wrapper that exists keeps its index: only a close or a sweep empties a holder.
LEMMA NextFilled == IInv /\ Filled /\ [Next]_vars => Filled'
<1> SUFFICES ASSUME IInv, Filled, [Next]_vars PROVE Filled'
  OBVIOUS
<1> USE KindsAssumption DEF IInv, TypeOK, Filled, Objects
<1>1. CASE UNCHANGED vars
  BY <1>1 DEF vars
<1>2. ASSUME NEW r \in Repos, RepoNew(r) \/ GetIndexCached(r) \/ Close(r) \/ SweepRepo(r)
      PROVE  Filled'
  BY <1>2 DEF RepoNew, GetIndexCached, Close, SweepRepo, ruby
<1>3. ASSUME NEW r \in Repos, NEW h \in Handles, OpenIndex(r, h) PROVE Filled'
  BY <1>3 DEF OpenIndex, ruby
<1>4. ASSUME NEW r \in Repos, NEW i \in Indexes, GetIndexOpen(r, i) PROVE Filled'
  BY <1>4 DEF GetIndexOpen, rugged_index_new
<1>5. ASSUME NEW r \in Repos, NEW i \in Indexes, SetIndex(r, i) PROVE Filled'
  BY <1>5 DEF SetIndex
<1>6. ASSUME NEW r \in Repos, NEW i \in Indexes, NEW h \in Handles,
             GetIndexLoad(r, i, h) \/ MergeCommits(r, i, h) \/ IndexNew(i, h)
      PROVE  Filled'
  BY <1>6 DEF GetIndexLoad, MergeCommits, IndexNew, rugged_index_new
<1>7. ASSUME NEW i \in Indexes, NEW h \in Handles, IndexNew(i, h) PROVE Filled'
  BY <1>7 DEF IndexNew, rugged_index_new
<1>8. ASSUME NEW k \in Rebases, NEW r \in Repos, RebaseNew(k, r) PROVE Filled'
  BY <1>8 DEF RebaseNew
<1>9. ASSUME NEW k \in Rebases, NEW h \in Handles, RebaseNext(k, h) PROVE Filled'
  BY <1>9 DEF RebaseNext, ruby
<1>10. ASSUME NEW k \in Rebases, NEW i \in Indexes, InmemoryIndex(k, i) PROVE Filled'
  BY <1>10 DEF InmemoryIndex, rugged_index_new
<1>11. ASSUME NEW x \in Objects, Forget(x) \/ SweepWrapper(x) PROVE Filled'
  BY <1>11 DEF Forget, SweepWrapper
<1> QED
  BY <1>1, <1>2, <1>3, <1>4, <1>5, <1>6, <1>7, <1>8, <1>9, <1>10, <1>11 DEF Next

\* The wrapper in "@index" of a repository within reach exists and knows it.
Known ==
    \A r \in Repos : r \in Reachable /\ ivar[r] # Nil =>
        ivar[r] \in Indexes \cap live /\ owner[ivar[r]] = r

\* It follows from what the invariant says of wrappers that are within reach.
LEMMA IInvKnown == IInv => Known
<1> SUFFICES ASSUME IInv, NEW r \in Repos, r \in Reachable, ivar[r] # Nil
             PROVE  ivar[r] \in Indexes \cap live /\ owner[ivar[r]] = r
  BY DEF Known
<1>1. PICK S \in SUBSET Objects : Keeps(S) /\ r \in S
  BY ReachableKept
<1>2. ivar[r] \in S
  BY <1>1 DEF Keeps, Points
<1> QED
  BY <1>1, <1>2 DEF Keeps, Agrees, IInv, TypeOK

\* A step that separates the two is a close: a new wrapper is not the one in the
\* "@index" of another repository, and one that exists holds an index.
LEMMA OnlyClose ==
    ASSUME TypeOK, Known, Filled, Known', Next, NEW r \in Repos,
           Shared(r), ~Shared(r)', r \in Reachable'
    PROVE  Close(r)
<1> DEFINE w == ivar[r]
<1> USE KindsAssumption DEF TypeOK, Objects
<1>1. ivar'[r] \in Indexes \cap live' /\ owner'[ivar'[r]] = r
  BY DEF Known, Shared
<1>2. ivar'[r] # Nil /\ hold'[ivar'[r]] # hold'[r]
  BY DEF Shared
<1>3. w # Nil => hold[w] = hold[r]
  BY DEF Shared
<1>4. r \in roots /\ w # Nil => w \in Indexes \cap live
  <2>1. r \in roots => r \in Reachable
    BY DEF Reachable, Marked
  <2> QED
    BY <2>1 DEF Known
<1>5. ASSUME NEW q \in Repos, RepoNew(q) \/ GetIndexCached(q) \/ SweepRepo(q) PROVE FALSE
  BY <1>1, <1>2, <1>3, <1>5 DEF RepoNew, GetIndexCached, SweepRepo
<1>6. ASSUME NEW q \in Repos, Close(q) PROVE q = r
  BY <1>1, <1>2, <1>3, <1>6 DEF Close, ruby
<1>7. ASSUME NEW q \in Repos, NEW h \in Handles, OpenIndex(q, h) PROVE FALSE
  BY <1>1, <1>2, <1>3, <1>4, <1>7 DEF OpenIndex, ruby, Filled
<1>8. ASSUME NEW q \in Repos, NEW i \in Indexes, GetIndexOpen(q, i) PROVE FALSE
  BY <1>1, <1>2, <1>3, <1>8 DEF GetIndexOpen, rugged_index_new
<1>9. ASSUME NEW q \in Repos, NEW i \in Indexes, SetIndex(q, i) PROVE FALSE
  BY <1>1, <1>2, <1>3, <1>9 DEF SetIndex
<1>10. ASSUME NEW q \in Repos, NEW i \in Indexes, NEW h \in Handles, GetIndexLoad(q, i, h)
       PROVE  FALSE
  BY <1>1, <1>2, <1>3, <1>10 DEF GetIndexLoad, rugged_index_new
<1>11. ASSUME NEW q \in Repos, NEW i \in Indexes, NEW h \in Handles, MergeCommits(q, i, h)
       PROVE  FALSE
  BY <1>1, <1>2, <1>3, <1>4, <1>11 DEF MergeCommits, rugged_index_new
<1>12. ASSUME NEW i \in Indexes, NEW h \in Handles, IndexNew(i, h) PROVE FALSE
  BY <1>1, <1>2, <1>3, <1>12 DEF IndexNew, rugged_index_new
<1>13. ASSUME NEW k \in Rebases, NEW q \in Repos, RebaseNew(k, q) PROVE FALSE
  BY <1>1, <1>2, <1>3, <1>13 DEF RebaseNew
<1>14. ASSUME NEW k \in Rebases, NEW h \in Handles, RebaseNext(k, h) PROVE FALSE
  BY <1>1, <1>2, <1>3, <1>14 DEF RebaseNext, ruby
<1>15. ASSUME NEW k \in Rebases, NEW i \in Indexes, InmemoryIndex(k, i) PROVE FALSE
  BY <1>1, <1>2, <1>3, <1>15 DEF InmemoryIndex, rugged_index_new
<1>16. ASSUME NEW x \in Objects, Forget(x) \/ SweepWrapper(x) PROVE FALSE
  BY <1>1, <1>2, <1>3, <1>16 DEF Forget, SweepWrapper
<1> QED
  BY <1>5, <1>6, <1>7, <1>8, <1>9, <1>10, <1>11, <1>12, <1>13, <1>14, <1>15, <1>16 DEF Next

\* As long as a repository is within reach, nothing that the program does with
\* any repository, index or rebase, no operation of libgit2 and no collection
\* but its own close makes the index of repo.index and libgit2's two.
THEOREM SeparatedByClose == Spec => OnlyCloseSeparates
<1>1. Init => Filled
  BY DEF Init, Filled
<1>2. Spec => []Filled
  BY <1>1, NextFilled, Inductive, PTL DEF Spec
<1>3. Spec => [](TypeOK /\ Known)
  <2>1. IInv => TypeOK
    BY DEF IInv
  <2> QED
    BY <2>1, IInvKnown, Inductive, PTL
<1>4. TypeOK /\ Known /\ Filled /\ Known' /\ [Next]_vars =>
          [\A r \in Repos : Shared(r) /\ ~Shared(r)' /\ r \in Reachable' => Close(r)]_vars
  BY OnlyClose
<1> QED
  BY <1>2, <1>3, <1>4, PTL DEF Spec, OnlyCloseSeparates

=============================================================================
